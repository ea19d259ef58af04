----------------------- MODULE DurabilityTypeProofs -------------------------
(***************************************************************************)
(* Facts about what Durability is built from (what a crash of the machine  *)
(* leaves of a file, what a recovery reads of a MANIFEST), and that the    *)
(* steps that read no log and no MANIFEST keep every variable of its type. *)
(***************************************************************************)
EXTENDS Durability, TLAPS

\* Sequences.
LEMMA SeqFacts ==
  ASSUME NEW S, NEW s \in Seq(S)
  PROVE  /\ Len(s) \in Nat /\ DOMAIN s = 1..Len(s) /\ \A i \in 1..Len(s) : s[i] \in S
         /\ s = <<>> <=> Len(s) = 0
  OBVIOUS

LEMMA SeqOf ==
  ASSUME NEW S, NEW T, NEW s \in Seq(S), \A i \in 1..Len(s) : s[i] \in T
  PROVE  s \in Seq(T)
  OBVIOUS

LEMMA PrefixFacts ==
  ASSUME NEW S, NEW T, NEW s \in Seq(S), NEW m \in 0..Len(s), \A i \in 1..m : s[i] \in T
  PROVE  /\ SubSeq(s, 1, m) \in Seq(T) /\ Len(SubSeq(s, 1, m)) = m
         /\ \A i \in 1..m : SubSeq(s, 1, m)[i] = s[i]
  OBVIOUS

\* An edit is not an incomplete record.
LEMMA TornIsNoEdit == \A e \in Edits : e # Torn
  BY DEF Edits, Torn

\* Nor is a record.
LEMMA TornIsNoRecord == writes \in Nat => \A r \in Issued : r # Torn
  BY DEF Issued, Torn

\* What a crash of the machine leaves of a file: a part of it that has what was synced,
\* perhaps with an incomplete record after it.
PartOf(c, s, n) ==
  \E i \in n..Len(s) :
    /\ \A k \in 1..i : c[k] = s[k]
    /\ \/ Len(c) = i
       \/ i < Len(s) /\ TornRecords /\ Len(c) = i + 1 /\ c[i + 1] = Torn
LEMMA CutIsPrefix ==
  ASSUME NEW E, NEW s \in Seq(E \cup {Torn}), NEW n \in Nat, n <= Len(s), NEW c \in Cuts(s, n)
  PROVE  c \in Seq(E \cup {Torn}) /\ PartOf(c, s, n)
<1> DEFINE T == E \cup {Torn}
<1>1. Len(s) \in Nat /\ \A i \in 1..Len(s) : s[i] \in T
  BY SeqFacts, Zenon
<1>2. \A i \in 0..Len(s) : /\ SubSeq(s, 1, i) \in Seq(T) /\ Len(SubSeq(s, 1, i)) = i
                           /\ \A k \in 1..i : SubSeq(s, 1, i)[k] = s[k]
  <2> HIDE DEF T
  <2> SUFFICES ASSUME NEW i \in 0..Len(s)
               PROVE  /\ SubSeq(s, 1, i) \in Seq(T) /\ Len(SubSeq(s, 1, i)) = i
                      /\ \A k \in 1..i : SubSeq(s, 1, i)[k] = s[k]
    OBVIOUS
  <2>1. 1 \in Int /\ i \in Int /\ \A k \in 1..i : s[k] \in T
    BY <1>1
  <2> QED BY <2>1, PrefixFacts
<1>3. CASE \E i \in n..Len(s) : c = SubSeq(s, 1, i)
  <2>1. PICK i \in n..Len(s) : c = SubSeq(s, 1, i)
    BY <1>3, Zenon
  <2> QED BY <2>1, <1>1, <1>2 DEF PartOf
<1>4. CASE TornRecords /\ \E i \in n..Len(s)-1 : c = Append(SubSeq(s, 1, i), Torn)
  <2>1. PICK i \in n..Len(s)-1 : c = Append(SubSeq(s, 1, i), Torn)
    BY <1>4, Zenon
  <2>2. i \in 0..Len(s) /\ i \in n..Len(s) /\ i < Len(s)
    BY <1>1
  <2> DEFINE p == SubSeq(s, 1, i)
  <2>3. p \in Seq(T) /\ Len(p) = i /\ \A k \in 1..i : p[k] = s[k]
    BY <2>2, <1>2, Zenon
  <2> HIDE DEF p
  <2>4. /\ Append(p, Torn) \in Seq(T) /\ Len(Append(p, Torn)) = i + 1
        /\ Append(p, Torn)[i + 1] = Torn
        /\ \A k \in 1..i : Append(p, Torn)[k] = s[k]
    BY <2>2, <2>3
  <2> QED BY <2>1, <2>2, <2>4, <1>4, Zenon DEF p, PartOf
<1> QED BY <1>3, <1>4, Zenon DEF Cuts

-----------------------------------------------------------------------------
(* Types, one group of variables at a time.                                *)

\* The options of a behaviour are those of one of the scenarios.
LEMMA OptionTypes ==
  ASSUME opt \in Scenarios
  PROVE  /\ MemRecords \in Nat /\ MaxCrashes \in Nat /\ SyncOptions \subseteq BOOLEAN
         /\ ReuseLogs \in BOOLEAN /\ Fresh \in BOOLEAN /\ MachineCrashes \in BOOLEAN
         /\ TornRecords \in BOOLEAN /\ SyncCommitsDir \in BOOLEAN
  BY DurabilityAssumption, Zenon
  DEF MemRecords, MaxCrashes, SyncOptions, ReuseLogs, Fresh, MachineCrashes, TornRecords,
      SyncCommitsDir

\* The states a process starts and stops in are typed, and so are the edits it writes.
LEMMA ConstantTypes ==
  ASSUME writes \in Nat
  PROVE  /\ NewDBEdit \in Edits /\ \A live \in SUBSET Files : Snapshot(live) \in Edits
         /\ NoTable \in Tables /\ NoVs \in VersionSets /\ NoRec \in Recoveries
         /\ NoWrite \in WritesInProgress /\ NoWrite.at = "idle"
         /\ NoApply \in Applies /\ NoComp \in Compactions
<1>1. NoEdit \in Edits /\ NewDBEdit \in Edits
  BY DEF NoEdit, NewDBEdit, Edits
<1>2. \A live \in SUBSET Files : Snapshot(live) \in Edits
  BY DEF Snapshot, Edits
<1>3. NoTable \in Tables /\ NoVs \in VersionSets /\ NoRec \in Recoveries
  BY DEF NoTable, Tables, NoVs, VersionSets, NoRec, Recoveries
<1>4. NoWrite \in WritesInProgress /\ NoWrite.at = "idle" /\ NoComp \in Compactions
  BY Zenon DEF NoWrite, WritesInProgress, NoComp, Compactions
<1>5. NoApply \in Applies
  BY <1>1, Zenon DEF NoApply, Applies
<1> QED BY <1>1, <1>2, <1>3, <1>4, <1>5, Zenon

LEMMA LoggedEditTypes ==
  ASSUME TypeOK, NEW add \in SUBSET Files, NEW del \in SUBSET Files, NEW log \in Nat
  PROVE  LoggedEdit(add, del, log) \in Edits
<1>1. vs.next \in Nat /\ vs.seq \in 0..writes
  BY Zenon DEF TypeOK, TypeOpen, VersionSets
<1> QED BY <1>1, Zenon DEF LoggedEdit, Edits

\* The types depend on the count of writes alone.
LEMMA TypesStay ==
  ASSUME writes' = writes
  PROVE  /\ Issued' = Issued /\ Edits' = Edits /\ Tables' = Tables /\ VersionSets' = VersionSets
         /\ WritesInProgress' = WritesInProgress /\ Applies' = Applies
  BY Zenon DEF Issued, Edits, Tables, VersionSets, WritesInProgress, Applies

\* A group of variables that a step leaves alone keeps its type.
LEMMA TypeFrame ==
  ASSUME TypeOK, writes' = writes
  PROVE  /\ UNCHANGED <<opt, crashes, acked, ackedSync, hybrid>> => TypeHist'
         /\ UNCHANGED <<dir, lag>> => TypeDir'
         /\ UNCHANGED <<logs, logSynced>> => TypeLogs'
         /\ UNCHANGED <<mans, manSynced>> => TypeMans'
         /\ UNCHANGED tbls => TypeTables'
         /\ UNCHANGED <<run, rec, vs>> => TypeOpen'
         /\ UNCHANGED <<mem, imm, has_imm, logno>> => TypeMem'
         /\ UNCHANGED wr => TypeWrite'
         /\ UNCHANGED la => TypeApply'
         /\ UNCHANGED <<fl, comp, bg_error, pinned, gc>> => TypeBg'
<1>1. /\ Issued' = Issued /\ Edits' = Edits /\ Tables' = Tables /\ VersionSets' = VersionSets
      /\ WritesInProgress' = WritesInProgress /\ Applies' = Applies
  BY TypesStay, Zenon
<1> USE DEF TypeOK
<1>2. UNCHANGED <<opt, crashes, acked, ackedSync, hybrid>> => TypeHist'
  BY Zenon DEF TypeHist
<1>3. UNCHANGED <<dir, lag>> => TypeDir'
  BY Zenon DEF TypeDir
<1>4. UNCHANGED <<logs, logSynced>> => TypeLogs'
  BY <1>1, Zenon DEF TypeLogs
<1>5. UNCHANGED <<mans, manSynced>> => TypeMans'
  BY <1>1, Zenon DEF TypeMans
<1>6. UNCHANGED tbls => TypeTables'
  BY <1>1, Zenon DEF TypeTables
<1>7. UNCHANGED <<run, rec, vs>> => TypeOpen'
  BY <1>1, Zenon DEF TypeOpen
<1>8. UNCHANGED <<mem, imm, has_imm, logno>> => TypeMem'
  BY <1>1, Zenon DEF TypeMem
<1>9. UNCHANGED wr => TypeWrite'
  BY <1>1, Zenon DEF TypeWrite
<1>10. UNCHANGED la => TypeApply'
  BY <1>1, Zenon DEF TypeApply
<1>11. UNCHANGED <<fl, comp, bg_error, pinned, gc>> => TypeBg'
  BY Zenon DEF TypeBg
<1> QED BY <1>2, <1>3, <1>4, <1>5, <1>6, <1>7, <1>8, <1>9, <1>10, <1>11, Zenon

\* A change of the directory, in what the program sees and in what a crash may leave.
LEMMA TypeChangeDir ==
  ASSUME TypeDir, NEW d \in Dirs, ChangeDir(d)
  PROVE  TypeDir'
  BY Zenon DEF TypeDir, ChangeDir

LEMMA DirUpdates ==
  ASSUME TypeDir, NEW S \in SUBSET Files, NEW n \in Files
  PROVE  /\ [dir EXCEPT !.logs = @ \cup S] \in Dirs /\ [dir EXCEPT !.logs = @ \ S] \in Dirs
         /\ [dir EXCEPT !.mans = @ \cup S] \in Dirs /\ [dir EXCEPT !.mans = @ \ S] \in Dirs
         /\ [dir EXCEPT !.tables = @ \cup S] \in Dirs /\ [dir EXCEPT !.tables = @ \ S] \in Dirs
         /\ [dir EXCEPT !.current = n] \in Dirs
<1>1. dir \in Dirs
  BY Zenon DEF TypeDir
<1>2. [dir EXCEPT !.logs = @ \cup S] \in Dirs /\ [dir EXCEPT !.logs = @ \ S] \in Dirs
  BY <1>1, Zenon DEF Dirs
<1>3. [dir EXCEPT !.mans = @ \cup S] \in Dirs /\ [dir EXCEPT !.mans = @ \ S] \in Dirs
  BY <1>1, Zenon DEF Dirs
<1>4. [dir EXCEPT !.tables = @ \cup S] \in Dirs /\ [dir EXCEPT !.tables = @ \ S] \in Dirs
  BY <1>1, Zenon DEF Dirs
<1>5. [dir EXCEPT !.current = n] \in Dirs
  BY <1>1, Zenon DEF Dirs
<1> QED BY <1>2, <1>3, <1>4, <1>5, Zenon

\* The updates of VersionSet.
LEMMA VersionUpdates ==
  ASSUME vs \in VersionSets
  PROVE  /\ \A n \in Nat : [vs EXCEPT !.next = n] \in VersionSets
         /\ \A q \in 0..writes : [vs EXCEPT !.seq = q] \in VersionSets
         /\ [vs EXCEPT !.open = TRUE] \in VersionSets
         /\ \A n \in Nat, q \in 0..writes : [vs EXCEPT !.next = n, !.seq = q] \in VersionSets
         /\ \A S \in SUBSET Files, n \in Nat : [vs EXCEPT !.live = S, !.log = n] \in VersionSets
         /\ vs.next \in Nat /\ vs.next + 1 \in Nat /\ vs.log \in Nat /\ vs.man \in Nat
         /\ vs.seq \in 0..writes /\ vs.live \subseteq Files /\ vs.open \in BOOLEAN
<1>1. \A n \in Nat : [vs EXCEPT !.next = n] \in VersionSets
  BY Zenon DEF VersionSets
<1>2. \A q \in 0..writes : [vs EXCEPT !.seq = q] \in VersionSets
  BY Zenon DEF VersionSets
<1>3. [vs EXCEPT !.open = TRUE] \in VersionSets
  BY Zenon DEF VersionSets
<1>4. \A n \in Nat, q \in 0..writes : [vs EXCEPT !.next = n, !.seq = q] \in VersionSets
  BY Zenon DEF VersionSets
<1>5. \A S \in SUBSET Files, n \in Nat : [vs EXCEPT !.live = S, !.log = n] \in VersionSets
  BY Zenon DEF VersionSets
<1>6. /\ vs.next \in Nat /\ vs.next + 1 \in Nat /\ vs.log \in Nat /\ vs.man \in Nat
      /\ vs.seq \in 0..writes /\ vs.live \subseteq Files /\ vs.open \in BOOLEAN
  BY DEF VersionSets
<1> QED BY <1>1, <1>2, <1>3, <1>4, <1>5, <1>6, Zenon

LEMMA ApplyUpdates ==
  ASSUME la \in Applies, NEW a \in {"none", "new", "add", "sync", "current", "install"}
  PROVE  /\ [la EXCEPT !.at = a] \in Applies /\ la.edit \in Edits /\ la.new \in BOOLEAN
         /\ la.edit.add \subseteq Files /\ la.edit.del \subseteq Files /\ la.edit.log \in Nat
         /\ la.edit.next \in Nat
<1>1. [la EXCEPT !.at = a] \in Applies /\ la.edit \in Edits /\ la.new \in BOOLEAN
  BY Zenon DEF Applies
<1> QED BY <1>1, Zenon DEF Edits

\* The next file number after a file was created.
LEMMA NextNumber ==
  ASSUME vs \in VersionSets, vs' = [vs EXCEPT !.next = @ + 1], writes' = writes,
         run' = run, rec' = rec, TypeOpen
  PROVE  TypeOpen'
<1>1. VersionSets' = VersionSets
  BY TypesStay, Zenon
<1>2. vs.next + 1 \in Nat
  BY DEF VersionSets
<1>3. vs' \in VersionSets
  BY <1>2, Zenon DEF VersionSets
<1> QED BY <1>1, <1>3, Zenon DEF TypeOpen

\* Init: a disk without a database, or with an empty one, is of its type.
LEMMA TypeInit == Init => TypeOK
<1> SUFFICES ASSUME Init PROVE TypeOK
  OBVIOUS
<1>1. 2 \in Files /\ 3 \in Files
  BY DurabilityAssumption DEF Files
<1>2. writes = 0 /\ writes \in Nat /\ writes \in 0..MaxWrites
  BY DurabilityAssumption DEF Init
<1>3. TypeHist
  BY <1>2, Zenon DEF Init, TypeHist
<1>4. TypeDir
  <2>1. EmptyDir \in Dirs /\ OpenedDir \in Dirs
    BY <1>1, Zenon DEF Dirs, EmptyDir, OpenedDir
  <2> QED BY <2>1, Zenon DEF Init, TypeDir
<1>5. OpenedManifest \in Seq(Edits \cup {Torn})
  <2>1. Snapshot({}) \in Edits
    BY <1>2, ConstantTypes, Zenon
  <2>2. [add |-> {}, del |-> {}, meta |-> TRUE, log |-> 3, next |-> 4, seq |-> 0] \in Edits
    BY <1>2 DEF Edits
  <2> QED BY <2>1, <2>2 DEF OpenedManifest
<1>6. TypeLogs
  BY DEF Init, TypeLogs
<1>7. TypeMans
  <2>1. mans \in [Files -> Seq(Edits \cup {Torn})]
    BY <1>5 DEF Init
  <2>2. \A n \in Files : Len(mans[n]) \in Nat
    BY <2>1, SeqFacts, Zenon
  <2> QED BY <2>1, <2>2 DEF Init, TypeMans
<1>8. TypeTables
  BY <1>2, ConstantTypes, Zenon DEF Init, TypeTables
<1>9. TypeOpen /\ TypeMem
  BY <1>2, ConstantTypes, Zenon DEF Init, TypeOpen, TypeMem
<1>10. TypeWrite /\ TypeApply /\ TypeBg
  BY <1>2, ConstantTypes, Zenon DEF Init, TypeWrite, TypeApply, TypeBg
<1> QED BY <1>3, <1>4, <1>6, <1>7, <1>8, <1>9, <1>10, Zenon DEF TypeOK

\* The facts every step starts from.
LEMMA TypeFacts ==
  ASSUME TypeOK
  PROVE  /\ writes \in Nat /\ 1 \in Files /\ Files \subseteq Nat
         /\ \A n \in Files : /\ Len(logs[n]) \in Nat /\ Len(mans[n]) \in Nat
                             /\ logs[n] \in Seq(Issued \cup {Torn})
                             /\ mans[n] \in Seq(Edits \cup {Torn})
                             /\ logSynced[n] \in Nat /\ manSynced[n] \in Nat
         /\ MachineCrashes \in BOOLEAN /\ ReuseLogs \in BOOLEAN /\ MemRecords \in Nat
         /\ SyncOptions \subseteq BOOLEAN
         /\ vs \in VersionSets /\ la \in Applies /\ rec \in Recoveries /\ TypeDir
         /\ dir.current \in {0} \cup Files /\ dir.logs \subseteq Files
         /\ dir.mans \subseteq Files /\ dir.tables \subseteq Files
<1>1. writes \in Nat /\ 1 \in Files /\ Files \subseteq Nat
  BY DurabilityAssumption DEF TypeOK, TypeHist, Files
<1>2. \A n \in Files : /\ logs[n] \in Seq(Issued \cup {Torn})
                       /\ mans[n] \in Seq(Edits \cup {Torn})
                       /\ logSynced[n] \in Nat /\ manSynced[n] \in Nat
  BY Zenon DEF TypeOK, TypeLogs, TypeMans
<1>3. \A n \in Files : Len(logs[n]) \in Nat /\ Len(mans[n]) \in Nat
  BY <1>2, SeqFacts, Zenon
<1>4. /\ MachineCrashes \in BOOLEAN /\ ReuseLogs \in BOOLEAN /\ MemRecords \in Nat
      /\ SyncOptions \subseteq BOOLEAN
  BY OptionTypes, Zenon DEF TypeOK, TypeHist
<1>5. vs \in VersionSets /\ la \in Applies /\ rec \in Recoveries /\ TypeDir
  BY Zenon DEF TypeOK, TypeOpen, TypeApply
<1>6. /\ dir.current \in {0} \cup Files /\ dir.logs \subseteq Files
      /\ dir.mans \subseteq Files /\ dir.tables \subseteq Files
  BY Zenon DEF TypeOK, TypeDir, Dirs
<1> QED BY <1>1, <1>2, <1>3, <1>4, <1>5, <1>6, Zenon

\* A crash leaves the process without state.
LEMMA TypeReset ==
  ASSUME TypeOK, Reset, writes' = writes
  PROVE  TypeOpen' /\ TypeMem' /\ TypeWrite' /\ TypeApply' /\ TypeBg'
<1>1. writes \in Nat
  BY TypeFacts, Zenon
<1>2. /\ Issued' = Issued /\ Edits' = Edits /\ VersionSets' = VersionSets
      /\ WritesInProgress' = WritesInProgress /\ Applies' = Applies
  BY TypesStay, Zenon
<1>3. TypeOpen' /\ TypeMem'
  BY <1>1, <1>2, ConstantTypes, Zenon DEF Reset, TypeOpen, TypeMem
<1>4. TypeWrite' /\ TypeApply' /\ TypeBg'
  BY <1>1, <1>2, ConstantTypes, Zenon DEF Reset, TypeWrite, TypeApply, TypeBg
<1> QED BY <1>3, <1>4, Zenon

\* NewDB.
LEMMA TypeNewDB ==
  ASSUME TypeOK, NewDB \/ NewDBCurrent
  PROVE  TypeOK'
<1> USE DEF diskVars, memVars, bgVars, histVars
<1>1. writes' = writes
  BY Zenon DEF NewDB, NewDBCurrent
<1>2. /\ Edits' = Edits /\ VersionSets' = VersionSets
  BY <1>1, TypesStay, Zenon
<1>3. CASE NewDB
  <2>1. <<NewDBEdit>> \in Seq(Edits \cup {Torn}) /\ Len(<<NewDBEdit>>) = 1
    BY TypeFacts, ConstantTypes
  <2>2. TypeMans'
    <3>1. mans' \in [Files -> Seq(Edits \cup {Torn})]
      BY <2>1, <1>3, Zenon DEF NewDB, TypeOK, TypeMans
    <3>2. manSynced' \in [Files -> Nat]
      BY <1>3, Zenon DEF NewDB, TypeOK, TypeMans
    <3>3. \A n \in Files : manSynced'[n] <= Len(mans'[n])
      BY <2>1, <1>3, TypeFacts DEF NewDB, TypeOK, TypeMans
    <3> QED BY <3>1, <3>2, <3>3, <1>2, Zenon DEF TypeMans
  <2>3. TypeDir'
    <3>1. [dir EXCEPT !.mans = @ \cup {1}] \in Dirs
      BY TypeFacts, DirUpdates, Zenon
    <3> QED BY <3>1, <1>3, TypeFacts, TypeChangeDir, Zenon DEF NewDB
  <2>4. TypeOpen'
    BY <1>2, <1>3, Zenon DEF NewDB, TypeOK, TypeOpen
  <2>5. TypeHist' /\ TypeLogs' /\ TypeTables' /\ TypeMem' /\ TypeWrite' /\ TypeApply' /\ TypeBg'
    BY <1>1, <1>3, TypeFrame, Zenon DEF NewDB
  <2> QED BY <2>2, <2>3, <2>4, <2>5, Zenon DEF TypeOK
<1>4. CASE NewDBCurrent
  <2>1. TypeDir'
    <3>1. [dir EXCEPT !.current = 1] \in Dirs
      BY TypeFacts, DirUpdates, Zenon
    <3> QED BY <3>1, <1>4, TypeFacts, Zenon DEF NewDBCurrent, SetCurrentFile, SyncFile, TypeDir
  <2>2. TypeOpen'
    BY <1>2, <1>4, Zenon DEF NewDBCurrent, TypeOK, TypeOpen
  <2>3. /\ TypeHist' /\ TypeLogs' /\ TypeMans' /\ TypeTables' /\ TypeMem' /\ TypeWrite'
        /\ TypeApply' /\ TypeBg'
    BY <1>1, <1>4, TypeFrame, Zenon DEF NewDBCurrent
  <2> QED BY <2>1, <2>2, <2>3, Zenon DEF TypeOK
<1> QED BY <1>3, <1>4, Zenon

\* The files DeleteObsoleteFiles finds are files.
LEMMA ObsoleteTypes ==
  ASSUME TypeOK, NEW v, NEW pend
  PROVE  Obsolete(v, pend) \subseteq {"log", "man", "table"} \X Files
<1>1. dir.logs \subseteq Files /\ dir.mans \subseteq Files /\ dir.tables \subseteq Files
  BY TypeFacts, Zenon
<1> SUFFICES ASSUME NEW f \in Obsolete(v, pend)
             PROVE  f \in {"log", "man", "table"} \X Files
  OBVIOUS
<1>2. CASE \E n \in dir.logs : f = <<"log", n>>
  BY <1>1, <1>2
<1>3. CASE \E n \in dir.mans : f = <<"man", n>>
  BY <1>1, <1>3
<1>4. CASE \E n \in dir.tables : f = <<"table", n>>
  BY <1>1, <1>4
<1> QED BY <1>2, <1>3, <1>4, Zenon DEF Obsolete

\* A new log.
LEMMA TypeCreateLog ==
  ASSUME TypeOK, CreateLog(vs.next), writes' = writes, run' = run, rec' = rec,
         mem' \subseteq Issued, imm' \subseteq Issued, has_imm' \in BOOLEAN
  PROVE  TypeDir' /\ TypeLogs' /\ TypeMem' /\ TypeOpen'
<1>1. vs.next \in Files /\ Issued' = Issued
  BY TypesStay, Zenon DEF CreateLog
<1>2. TypeDir'
  <2>1. [dir EXCEPT !.logs = @ \cup {vs.next}] \in Dirs
    BY <1>1, TypeFacts, DirUpdates, Zenon
  <2> QED BY <2>1, TypeFacts, TypeChangeDir, Zenon DEF CreateLog
<1>3. TypeLogs'
  <2>1. logs' \in [Files -> Seq(Issued \cup {Torn})] /\ logSynced' \in [Files -> Nat]
    BY DEF CreateLog, TypeOK, TypeLogs
  <2>2. \A n \in Files : logSynced'[n] <= Len(logs'[n])
    BY DEF CreateLog, TypeOK, TypeLogs
  <2> QED BY <2>1, <2>2, <1>1, Zenon DEF TypeLogs
<1>4. TypeMem'
  BY <1>1, Zenon DEF TypeMem, CreateLog
<1>5. TypeOpen'
  BY TypeFacts, NextNumber, Zenon DEF CreateLog, TypeOK
<1> QED BY <1>2, <1>3, <1>4, <1>5, Zenon

\* A new table.
LEMMA TypeCreateTable ==
  ASSUME TypeOK, CreateTable(vs.next), writes' = writes, run' = run, rec' = rec
  PROVE  TypeDir' /\ TypeTables' /\ TypeOpen'
<1>1. vs.next \in Files /\ Tables' = Tables
  BY TypesStay, Zenon DEF CreateTable
<1>2. TypeDir'
  <2>1. [dir EXCEPT !.tables = @ \cup {vs.next}] \in Dirs
    BY <1>1, TypeFacts, DirUpdates, Zenon
  <2> QED BY <2>1, TypeFacts, TypeChangeDir, Zenon DEF CreateTable
<1>3. TypeTables'
  BY <1>1, TypeFacts, ConstantTypes, Zenon DEF CreateTable, TypeOK, TypeTables
<1>4. TypeOpen'
  BY TypeFacts, NextNumber, Zenon DEF CreateTable, TypeOK
<1> QED BY <1>2, <1>3, <1>4, Zenon

\* The end of DB::Open.
LEMMA TypeOpenEnds ==
  ASSUME TypeOK, OpenLog \/ OpenSave \/ OpenWithoutSave
  PROVE  TypeOK'
<1> USE DEF diskVars, memVars, bgVars, histVars
<1>1. writes' = writes
  BY Zenon DEF OpenLog, OpenSave, OpenWithoutSave
<1>2. /\ Issued' = Issued /\ Edits' = Edits /\ VersionSets' = VersionSets /\ Tables' = Tables
      /\ Applies' = Applies
  BY <1>1, TypesStay, Zenon
<1>4. CASE OpenLog
  <2>1. CreateLog(vs.next) /\ UNCHANGED <<mem, imm, has_imm, run, rec>>
    BY <1>4, Zenon DEF OpenLog
  <2>2. TypeDir' /\ TypeLogs' /\ TypeMem' /\ TypeOpen'
    BY <2>1, <1>1, TypeCreateLog, Zenon DEF TypeOK, TypeMem
  <2>3. TypeHist' /\ TypeMans' /\ TypeTables' /\ TypeWrite' /\ TypeApply' /\ TypeBg'
    BY <1>1, <1>4, TypeFrame, Zenon DEF OpenLog
  <2> QED BY <2>2, <2>3, Zenon DEF TypeOK
<1>5. CASE OpenSave
  <2>1. LoggedEdit(rec.add, {}, logno) \in Edits
    <3>1. rec.add \in SUBSET Files /\ logno \in Nat
      BY TypeFacts DEF Recoveries, TypeOK, TypeMem
    <3> QED BY <3>1, LoggedEditTypes, Zenon
  <2>2. TypeApply'
    BY <2>1, <1>2, <1>5, TypeFacts, Zenon DEF OpenSave, TypeApply, Applies, VersionSets
  <2>3. /\ TypeHist' /\ TypeDir' /\ TypeLogs' /\ TypeMans' /\ TypeTables' /\ TypeOpen'
        /\ TypeMem' /\ TypeWrite' /\ TypeBg'
    BY <1>1, <1>5, TypeFrame, Zenon DEF OpenSave
  <2> QED BY <2>2, <2>3, Zenon DEF TypeOK
<1>6. CASE OpenWithoutSave
  <2>1. TypeBg'
    BY <1>6, ObsoleteTypes, Zenon DEF OpenWithoutSave, TypeOK, TypeBg
  <2>2. TypeOpen'
    BY <1>2, <1>6, Zenon DEF OpenWithoutSave, TypeOK, TypeOpen
  <2>3. /\ TypeHist' /\ TypeDir' /\ TypeLogs' /\ TypeMans' /\ TypeTables'
        /\ TypeMem' /\ TypeWrite' /\ TypeApply'
    BY <1>1, <1>6, TypeFrame, Zenon DEF OpenWithoutSave
  <2> QED BY <2>1, <2>2, <2>3, Zenon DEF TypeOK
<1> QED BY <1>4, <1>5, <1>6, Zenon

\* A record added to a MANIFEST.
LEMMA TypeAppend ==
  ASSUME TypeOK, NEW e \in Edits \cup {Torn},
         mans' = [mans EXCEPT ![vs.man] = Append(@, e)], manSynced' = manSynced,
         writes' = writes
  PROVE  TypeMans'
<1>1. ASSUME NEW n \in Files
      PROVE  mans'[n] \in Seq(Edits \cup {Torn}) /\ manSynced[n] <= Len(mans'[n])
  <2>1. /\ mans[n] \in Seq(Edits \cup {Torn}) /\ Len(mans[n]) \in Nat /\ manSynced[n] \in Nat
        /\ manSynced[n] <= Len(mans[n]) /\ mans \in [Files -> Seq(Edits \cup {Torn})]
    BY TypeFacts, Zenon DEF TypeOK, TypeMans
  <2>2. CASE n = vs.man
    <3>1. /\ Append(mans[n], e) \in Seq(Edits \cup {Torn})
          /\ Len(Append(mans[n], e)) = Len(mans[n]) + 1
      BY <2>1
    <3> QED BY <3>1, <2>1, <2>2
  <2>3. CASE n # vs.man
    BY <2>1, <2>3, Zenon
  <2> QED BY <2>2, <2>3, Zenon
<1>2. mans' \in [Files -> Seq(Edits \cup {Torn})]
  BY <1>1, Zenon DEF TypeOK, TypeMans
<1>3. Edits' = Edits
  BY TypesStay, Zenon
<1> QED BY <1>1, <1>2, <1>3, Zenon DEF TypeOK, TypeMans

\* The version LogAndApply installs.
LEMMA AppliedTypes ==
  ASSUME TypeOK
  PROVE  Applied \in VersionSets
<1>1. /\ vs \in VersionSets /\ vs.live \subseteq Files /\ la.edit.add \subseteq Files
      /\ la.edit.log \in Nat
  BY TypeFacts, ApplyUpdates, Zenon DEF VersionSets
<1>2. (vs.live \ la.edit.del) \cup la.edit.add \in SUBSET Files
  BY <1>1, Zenon
<1>3. [vs EXCEPT !.live = (vs.live \ la.edit.del) \cup la.edit.add, !.log = la.edit.log]
        \in VersionSets
  BY <1>1, <1>2, VersionUpdates, Zenon
<1> QED BY <1>3, Zenon DEF Applied

\* VersionSet::LogAndApply up to the new CURRENT.
LEMMA TypeLog ==
  ASSUME TypeOK, Handles, NewManifest \/ AddEdit \/ SyncManifest \/ SetCurrent
  PROVE  TypeOK'
<1> USE DEF diskVars, memVars, bgVars, histVars
<1>1. writes' = writes
  BY Zenon DEF NewManifest, AddEdit, SyncManifest, SetCurrent
<1>2. Edits' = Edits /\ VersionSets' = VersionSets /\ Applies' = Applies
  BY <1>1, TypesStay, Zenon
<1>3. CASE NewManifest
  <2>1. <<Snapshot(vs.live)>> \in Seq(Edits \cup {Torn}) /\ Len(<<Snapshot(vs.live)>>) = 1
    BY TypeFacts, ConstantTypes DEF VersionSets
  <2>2. TypeMans'
    <3>1. mans' \in [Files -> Seq(Edits \cup {Torn})]
      BY <2>1, <1>3, Zenon DEF NewManifest, TypeOK, TypeMans
    <3>2. manSynced' \in [Files -> Nat]
      BY <1>3, Zenon DEF NewManifest, TypeOK, TypeMans
    <3>3. \A n \in Files : manSynced'[n] <= Len(mans'[n])
      BY <2>1, <1>3, TypeFacts DEF NewManifest, TypeOK, TypeMans
    <3> QED BY <3>1, <3>2, <3>3, <1>2, Zenon DEF TypeMans
  <2>3. TypeDir'
    <3>1. [dir EXCEPT !.mans = @ \cup {vs.man}] \in Dirs
      BY <1>3, TypeFacts, DirUpdates, Zenon DEF NewManifest
    <3> QED BY <3>1, <1>3, TypeFacts, TypeChangeDir, Zenon DEF NewManifest
  <2>4. TypeOpen'
    BY <1>2, <1>3, TypeFacts, VersionUpdates, Zenon DEF NewManifest, TypeOK, TypeOpen
  <2>5. TypeApply'
    BY <1>2, <1>3, TypeFacts, ApplyUpdates, Zenon DEF NewManifest, TypeApply
  <2>6. TypeHist' /\ TypeLogs' /\ TypeTables' /\ TypeMem' /\ TypeWrite' /\ TypeBg'
    BY <1>1, <1>3, TypeFrame, Zenon DEF NewManifest
  <2> QED BY <2>2, <2>3, <2>4, <2>5, <2>6, Zenon DEF TypeOK
<1>4. CASE AddEdit
  <2>1. TypeMans'
    BY <1>1, <1>4, TypeFacts, ApplyUpdates, TypeAppend, Zenon DEF AddEdit
  <2>2. TypeApply'
    BY <1>2, <1>4, TypeFacts, ApplyUpdates, Zenon DEF AddEdit, TypeApply
  <2>3. /\ TypeHist' /\ TypeDir' /\ TypeLogs' /\ TypeTables' /\ TypeOpen' /\ TypeMem'
        /\ TypeWrite' /\ TypeBg'
    BY <1>1, <1>4, TypeFrame, Zenon DEF AddEdit
  <2> QED BY <2>1, <2>2, <2>3, Zenon DEF TypeOK
<1>5. CASE SyncManifest
  <2>1. TypeMans'
    <3>1. manSynced' = [manSynced EXCEPT ![vs.man] = Len(mans[vs.man])] /\ mans' = mans
      BY <1>5, Zenon DEF SyncManifest, ManifestSynced
    <3>2. \A n \in Files : manSynced'[n] \in Nat /\ manSynced'[n] <= Len(mans[n])
      BY <3>1, TypeFacts DEF TypeOK, TypeMans
    <3>3. manSynced' \in [Files -> Nat]
      BY <3>1, <3>2, Zenon DEF TypeOK, TypeMans
    <3> QED BY <3>1, <3>2, <3>3, <1>2, Zenon DEF TypeOK, TypeMans
  <2>2. TypeApply'
    BY <1>2, <1>5, TypeFacts, ApplyUpdates, Zenon DEF SyncManifest, TypeApply
  <2>3. TypeDir'
    BY <1>5, Zenon DEF SyncManifest, TypeOK, TypeDir
  <2>4. /\ TypeHist' /\ TypeLogs' /\ TypeTables' /\ TypeOpen' /\ TypeMem'
        /\ TypeWrite' /\ TypeBg'
    BY <1>1, <1>5, TypeFrame, Zenon DEF SyncManifest
  <2> QED BY <2>1, <2>2, <2>3, <2>4, Zenon DEF TypeOK
<1>6. CASE SetCurrent
  <2>1. TypeDir'
    <3>1. vs.man \in Files
      BY <1>6, Zenon DEF SetCurrent, Handles
    <3>2. [dir EXCEPT !.current = vs.man] \in Dirs
      BY <3>1, TypeFacts, DirUpdates, Zenon
    <3> QED BY <3>2, <1>6, TypeFacts, Zenon DEF SetCurrent, SetCurrentFile, SyncFile, TypeDir
  <2>2. TypeApply'
    BY <1>2, <1>6, TypeFacts, ApplyUpdates, Zenon DEF SetCurrent, TypeApply
  <2>3. /\ TypeHist' /\ TypeLogs' /\ TypeMans' /\ TypeTables' /\ TypeOpen' /\ TypeMem'
        /\ TypeWrite' /\ TypeBg'
    BY <1>1, <1>6, TypeFrame, Zenon DEF SetCurrent
  <2> QED BY <2>1, <2>2, <2>3, Zenon DEF TypeOK
<1> QED BY <1>3, <1>4, <1>5, <1>6, Zenon

\* The end of VersionSet::LogAndApply, and its failures.
LEMMA TypeInstall ==
  ASSUME TypeOK, InstallOpen \/ InstallFlush \/ InstallCompaction \/ OpenFails \/ ApplyFails
  PROVE  TypeOK'
<1> USE DEF diskVars, memVars, bgVars, histVars
<1>1. writes' = writes
  BY Zenon DEF InstallOpen, InstallFlush, InstallCompaction, OpenFails, ApplyFails
<1>2. /\ Issued' = Issued /\ Edits' = Edits /\ VersionSets' = VersionSets /\ Applies' = Applies
      /\ writes \in Nat
  BY <1>1, TypesStay, TypeFacts, Zenon
<1>3. /\ la' = NoApply => TypeApply'
      /\ gc' \in {{}, Obsolete(Applied, {}), Obsolete(Applied, PendingOutputs)} =>
           gc' \subseteq {"log", "man", "table"} \X Files
  <2>1. la' = NoApply => TypeApply'
    BY <1>2, ConstantTypes, Zenon DEF TypeApply
  <2> QED BY <2>1, ObsoleteTypes, Zenon
<1>4. CASE InstallOpen
  <2>1. TypeOpen'
    BY <1>2, <1>4, AppliedTypes, ConstantTypes, Zenon DEF InstallOpen, TypeOpen
  <2>2. TypeApply' /\ TypeBg'
    BY <1>3, <1>4, Zenon DEF InstallOpen, TypeOK, TypeBg
  <2>3. /\ TypeHist' /\ TypeDir' /\ TypeLogs' /\ TypeMans' /\ TypeTables' /\ TypeMem'
        /\ TypeWrite'
    BY <1>1, <1>4, TypeFrame, Zenon DEF InstallOpen
  <2> QED BY <2>1, <2>2, <2>3, Zenon DEF TypeOK
<1>5. CASE InstallFlush
  <2>1. TypeOpen'
    BY <1>2, <1>5, AppliedTypes, Zenon DEF InstallFlush, TypeOK, TypeOpen
  <2>2. TypeApply' /\ TypeBg'
    BY <1>3, <1>5, Zenon DEF InstallFlush, Collected, TypeOK, TypeBg
  <2>3. TypeMem'
    BY <1>2, <1>5, Zenon DEF InstallFlush, TypeOK, TypeMem
  <2>4. /\ TypeHist' /\ TypeDir' /\ TypeLogs' /\ TypeMans' /\ TypeTables' /\ TypeWrite'
    BY <1>1, <1>5, TypeFrame, Zenon DEF InstallFlush
  <2> QED BY <2>1, <2>2, <2>3, <2>4, Zenon DEF TypeOK
<1>6. CASE InstallCompaction
  <2>1. TypeOpen'
    BY <1>2, <1>6, AppliedTypes, Zenon DEF InstallCompaction, TypeOK, TypeOpen
  <2>2. TypeApply' /\ TypeBg'
    BY <1>2, <1>3, <1>6, ConstantTypes, Zenon DEF InstallCompaction, Collected, TypeOK, TypeBg
  <2>3. /\ TypeHist' /\ TypeDir' /\ TypeLogs' /\ TypeMans' /\ TypeTables' /\ TypeMem'
        /\ TypeWrite'
    BY <1>1, <1>6, TypeFrame, Zenon DEF InstallCompaction
  <2> QED BY <2>1, <2>2, <2>3, Zenon DEF TypeOK
<1>7. ASSUME EditMayBeThere, manSynced' = manSynced
      PROVE  TypeMans'
  <2>1. la.edit \in Edits
    BY TypeFacts, ApplyUpdates, Zenon
  <2>2. CASE mans' = mans
    BY <2>2, <1>1, <1>7, TypeFrame, Zenon
  <2>3. CASE mans' = [mans EXCEPT ![vs.man] = Append(@, la.edit)]
    BY <2>1, <2>3, <1>1, <1>7, TypeAppend, Zenon
  <2>4. CASE mans' = [mans EXCEPT ![vs.man] = Append(@, Torn)]
    BY <2>4, <1>1, <1>7, TypeAppend, Zenon
  <2> QED BY <2>2, <2>3, <2>4, <1>7, Zenon DEF EditMayBeThere, EditWholeOrAbsent
<1>8. CASE OpenFails
  <2>1. TypeMans'
    BY <1>7, <1>8, Zenon DEF OpenFails
  <2>2. TypeDir'
    <3>1. CASE la.new
      <4>1. dir \in Dirs /\ [dir EXCEPT !.mans = @ \ {vs.man}] \in Dirs
        BY TypeFacts, Zenon DEF TypeDir, Dirs
      <4> QED BY <3>1, <4>1, <1>8, TypeFacts, TypeChangeDir, Zenon DEF OpenFails
    <3>2. CASE ~la.new
      BY <3>2, <1>8 DEF OpenFails, TypeOK, TypeDir
    <3> QED BY <3>1, <3>2, Zenon
  <2>3. TypeOpen' /\ TypeMem' /\ TypeWrite' /\ TypeApply' /\ TypeBg'
    BY <1>1, <1>8, TypeReset, Zenon DEF OpenFails
  <2>4. TypeHist' /\ TypeLogs' /\ TypeTables'
    BY <1>1, <1>8, TypeFrame, Zenon DEF OpenFails
  <2> QED BY <2>1, <2>2, <2>3, <2>4, Zenon DEF TypeOK
<1>9. CASE ApplyFails
  <2>1. TypeMans'
    BY <1>7, <1>9, Zenon DEF ApplyFails
  <2>2. TypeApply' /\ TypeBg'
    BY <1>2, <1>3, <1>9, ConstantTypes, Zenon DEF ApplyFails, TypeOK, TypeBg
  <2>3. /\ TypeHist' /\ TypeDir' /\ TypeLogs' /\ TypeTables' /\ TypeOpen' /\ TypeMem'
        /\ TypeWrite'
    BY <1>1, <1>9, TypeFrame, Zenon DEF ApplyFails
  <2> QED BY <2>1, <2>2, <2>3, Zenon DEF TypeOK
<1> QED BY <1>4, <1>5, <1>6, <1>8, <1>9, Zenon

\* DBImpl::Write: a new record.
LEMMA TypeAddRecord ==
  ASSUME TypeOK, NEW sync \in SyncOptions, AddRecord(sync)
  PROVE  TypeOK'
<1> USE DEF diskVars, memVars, bgVars, histVars
<1> DEFINE r == [w |-> writes + 1, seq |-> vs.seq + 1]
<1>1. writes' = writes + 1 /\ writes \in Nat /\ writes' \in 0..MaxWrites /\ sync \in BOOLEAN
  BY TypeFacts, DurabilityAssumption DEF AddRecord
<1>2. Issued \subseteq Issued' /\ Edits \subseteq Edits'
  BY <1>1 DEF Issued, Edits
<1>3. r \in Issued'
  <2>1. vs.seq \in 0..writes
    BY TypeFacts, VersionUpdates, Zenon
  <2> QED BY <2>1, <1>1 DEF Issued
<1>4. /\ logs' = [logs EXCEPT ![logno] = Append(@, r)]
      /\ wr' = [rec |-> r, sync |-> sync, at |-> IF sync THEN "logged" ELSE "synced"]
  BY Zenon DEF AddRecord
<1> HIDE DEF r
<1>5. TypeLogs'
  <2>1. \A n \in Files : logs[n] \in Seq(Issued' \cup {Torn})
    <3>1. Issued \cup {Torn} \subseteq Issued' \cup {Torn}
      BY <1>2, Zenon
    <3> QED BY <3>1, TypeFacts, SeqOf
  <2>2. ASSUME NEW n \in Files
        PROVE  logs'[n] \in Seq(Issued' \cup {Torn}) /\ logSynced[n] <= Len(logs'[n])
    <3>1. /\ logs[n] \in Seq(Issued' \cup {Torn}) /\ Len(logs[n]) \in Nat
          /\ logSynced[n] \in Nat /\ logSynced[n] <= Len(logs[n]) /\ DOMAIN logs = Files
      BY <2>1, TypeFacts, Zenon DEF TypeOK, TypeLogs
    <3>2. CASE n = logno
      <4>1. /\ Append(logs[n], r) \in Seq(Issued' \cup {Torn})
            /\ Len(Append(logs[n], r)) = Len(logs[n]) + 1
        BY <3>1, <1>3
      <4> QED BY <4>1, <3>1, <3>2, <1>4
    <3>3. CASE n # logno
      BY <3>1, <3>3, <1>4, Zenon
    <3> QED BY <3>2, <3>3, Zenon
  <2>3. logs' \in [Files -> Seq(Issued' \cup {Torn})]
    BY <2>2, <1>4, Zenon DEF TypeOK, TypeLogs
  <2>4. logSynced' = logSynced
    BY Zenon DEF AddRecord
  <2> QED BY <2>2, <2>3, <2>4, Zenon DEF TypeOK, TypeLogs
<1>6. TypeMans'
  <2>1. Edits \cup {Torn} \subseteq Edits' \cup {Torn}
    BY <1>2, Zenon
  <2>2. \A n \in Files : mans[n] \in Seq(Edits' \cup {Torn})
    BY <2>1, TypeFacts, SeqOf
  <2>3. mans' = mans /\ manSynced' = manSynced
    BY Zenon DEF AddRecord
  <2> QED BY <2>2, <2>3, Zenon DEF TypeOK, TypeMans
<1>7. TypeTables'
  <2>1. Tables \subseteq Tables'
    BY <1>2, Zenon DEF Tables
  <2> QED BY <2>1, Zenon DEF TypeOK, TypeTables, AddRecord
<1>8. TypeWrite'
  BY <1>1, <1>3, <1>4, Zenon DEF TypeWrite, WritesInProgress
<1>9. TypeOpen'
  <2>1. VersionSets \subseteq VersionSets'
    BY <1>1 DEF VersionSets
  <2> QED BY <2>1, Zenon DEF TypeOK, TypeOpen, AddRecord
<1>10. TypeApply'
  <2>1. Applies \subseteq Applies'
    BY <1>2, Zenon DEF Applies
  <2> QED BY <2>1, Zenon DEF TypeOK, TypeApply, AddRecord
<1>11. TypeMem'
  BY <1>2, Zenon DEF TypeOK, TypeMem, AddRecord
<1>12. TypeHist'
  BY <1>1, Zenon DEF TypeOK, TypeHist, AddRecord
<1>13. TypeDir'
  BY Zenon DEF TypeOK, TypeDir, AddRecord
<1>14. TypeBg'
  BY Zenon DEF TypeOK, TypeBg, AddRecord
<1> QED BY <1>5, <1>6, <1>7, <1>8, <1>9, <1>10, <1>11, <1>12, <1>13, <1>14, Zenon DEF TypeOK

\* DBImpl::Write: the rest of it, and MakeRoomForWrite.
LEMMA TypeFinishWrite ==
  ASSUME TypeOK, SyncLog \/ InsertInto \/ SwitchLog
  PROVE  TypeOK'
<1> USE DEF diskVars, memVars, bgVars, histVars
<1>1. writes' = writes
  BY Zenon DEF SyncLog, InsertInto, SwitchLog, CreateLog
<1>2. /\ Issued' = Issued /\ VersionSets' = VersionSets /\ WritesInProgress' = WritesInProgress
      /\ writes \in Nat
  BY <1>1, TypesStay, TypeFacts, Zenon
<1>3. CASE SyncLog
  <2>1. TypeLogs'
    <3>1. logSynced' = [logSynced EXCEPT ![logno] = Len(logs[logno])] /\ logs' = logs
      BY <1>3, Zenon DEF SyncLog, LogSynced
    <3>2. \A n \in Files : logSynced'[n] \in Nat /\ logSynced'[n] <= Len(logs[n])
      BY <3>1, TypeFacts DEF TypeOK, TypeLogs
    <3>3. logSynced' \in [Files -> Nat]
      BY <3>1, <3>2, Zenon DEF TypeOK, TypeLogs
    <3> QED BY <3>1, <3>2, <3>3, <1>2, Zenon DEF TypeOK, TypeLogs
  <2>2. TypeDir'
    BY <1>3, Zenon DEF SyncLog, SyncFile, TypeOK, TypeDir
  <2>3. TypeWrite'
    <3>1. wr' = [wr EXCEPT !.at = "synced"] /\ wr.at # "idle" /\ wr \in WritesInProgress
      BY <1>3, Zenon DEF SyncLog, TypeOK, TypeWrite
    <3>2. wr' \in WritesInProgress /\ wr'.rec = wr.rec
      BY <3>1, Zenon DEF WritesInProgress
    <3> QED BY <3>1, <3>2, <1>2 DEF TypeOK, TypeWrite
  <2>4. /\ TypeHist' /\ TypeMans' /\ TypeTables' /\ TypeOpen' /\ TypeMem' /\ TypeApply'
        /\ TypeBg'
    BY <1>1, <1>3, TypeFrame, Zenon DEF SyncLog
  <2> QED BY <2>1, <2>2, <2>3, <2>4, Zenon DEF TypeOK
<1>4. CASE InsertInto
  <2>1. wr.rec \in Issued
    BY <1>4, Zenon DEF InsertInto, TypeOK, TypeWrite
  <2>2. wr.rec.w \in Writes /\ wr.rec.seq \in 0..writes
    BY <2>1, DurabilityAssumption DEF Issued, Writes, TypeOK, TypeHist
  <2>3. TypeHist'
    BY <2>2, <1>1, <1>4, Zenon DEF InsertInto, TypeOK, TypeHist
  <2>4. TypeOpen'
    BY <2>2, <1>2, <1>4, TypeFacts, VersionUpdates, Zenon DEF InsertInto, TypeOK, TypeOpen
  <2>5. TypeMem'
    BY <2>1, <1>2, <1>4, Zenon DEF InsertInto, TypeOK, TypeMem
  <2>6. TypeWrite'
    BY <1>2, <1>4, ConstantTypes, Zenon DEF InsertInto, TypeWrite
  <2>7. /\ TypeDir' /\ TypeLogs' /\ TypeMans' /\ TypeTables' /\ TypeApply' /\ TypeBg'
    BY <1>1, <1>4, TypeFrame, Zenon DEF InsertInto
  <2> QED BY <2>3, <2>4, <2>5, <2>6, <2>7, Zenon DEF TypeOK
<1>5. CASE SwitchLog
  <2>1. CreateLog(vs.next) /\ UNCHANGED <<run, rec>> /\ imm' = mem /\ has_imm' = TRUE /\ mem' = {}
    BY <1>5, Zenon DEF SwitchLog
  <2>2. TypeDir' /\ TypeLogs' /\ TypeMem' /\ TypeOpen'
    BY <2>1, <1>1, TypeCreateLog, Zenon DEF TypeOK, TypeMem
  <2>3. TypeHist' /\ TypeMans' /\ TypeTables' /\ TypeWrite' /\ TypeApply' /\ TypeBg'
    BY <1>1, <1>5, TypeFrame, Zenon DEF SwitchLog
  <2> QED BY <2>2, <2>3, Zenon DEF TypeOK
<1> QED BY <1>3, <1>4, <1>5, Zenon

\* CompactMemTable.
LEMMA TypeFlush ==
  ASSUME TypeOK, StartFlush \/ FinishFlush \/ FlushFails
  PROVE  TypeOK'
<1> USE DEF diskVars, memVars, bgVars, histVars
<1>1. writes' = writes
  BY Zenon DEF StartFlush, FinishFlush, FlushFails
<1>2. /\ Issued' = Issued /\ Applies' = Applies /\ Tables' = Tables
  BY <1>1, TypesStay, Zenon
<1>3. CASE StartFlush
  <2>1. run' = run /\ rec' = rec /\ vs.next \in Files
    BY <1>3, Zenon DEF StartFlush
  <2>2. TypeDir' /\ TypeTables' /\ TypeOpen'
    <3>1. CASE imm = {}
      <4>1. vs' = [vs EXCEPT !.next = @ + 1] /\ UNCHANGED <<dir, lag, tbls>>
        BY <3>1, <1>3, Zenon DEF StartFlush
      <4>2. TypeOpen'
        BY <4>1, <2>1, <1>1, TypeFacts, NextNumber, Zenon DEF TypeOK
      <4> QED BY <4>1, <4>2, <1>1, TypeFrame, Zenon
    <3>2. CASE imm # {}
      BY <3>2, <2>1, <1>1, <1>3, TypeCreateTable, Zenon DEF StartFlush
    <3> QED BY <3>1, <3>2, Zenon
  <2>3. TypeBg'
    BY <2>1, <1>3, Zenon DEF StartFlush, TypeOK, TypeBg
  <2>4. TypeHist' /\ TypeLogs' /\ TypeMans' /\ TypeMem' /\ TypeWrite' /\ TypeApply'
    BY <1>1, <1>3, TypeFrame, Zenon DEF StartFlush
  <2> QED BY <2>2, <2>3, <2>4, Zenon DEF TypeOK
<1>4. CASE FinishFlush
  <2>1. FlushEdit \in Edits
    <3>1. logno \in Nat
      BY TypeFacts DEF TypeOK, TypeMem
    <3>2. (IF imm = {} THEN {} ELSE {fl}) \in SUBSET Files
      BY <1>4, Zenon DEF FinishFlush, TypeOK, TypeBg
    <3> QED BY <3>1, <3>2, LoggedEditTypes, Zenon DEF FlushEdit
  <2>2. TypeTables'
    <3>1. [recs |-> imm, synced |-> TRUE] \in Tables
      BY Zenon DEF Tables, TypeOK, TypeMem
    <3> QED BY <3>1, <1>2, <1>4, Zenon DEF FinishFlush, TypeOK, TypeTables
  <2>3. TypeApply'
    BY <2>1, <1>2, <1>4, Zenon DEF FinishFlush, TypeApply, Applies
  <2>4. TypeDir'
    BY <1>4, Zenon DEF FinishFlush, SyncFile, TypeOK, TypeDir
  <2>5. TypeHist' /\ TypeLogs' /\ TypeMans' /\ TypeOpen' /\ TypeMem' /\ TypeWrite' /\ TypeBg'
    BY <1>1, <1>4, TypeFrame, Zenon DEF FinishFlush
  <2> QED BY <2>2, <2>3, <2>4, <2>5, Zenon DEF TypeOK
<1>5. CASE FlushFails
  <2>1. fl \in Files
    BY <1>5, Zenon DEF FlushFails, TypeOK, TypeBg
  <2>2. TypeDir'
    <3>1. [dir EXCEPT !.tables = @ \ {fl}] \in Dirs
      BY <2>1, TypeFacts, DirUpdates, Zenon
    <3> QED BY <3>1, <1>5, TypeFacts, TypeChangeDir, Zenon DEF FlushFails
  <2>3. TypeBg'
    BY <1>5, Zenon DEF FlushFails, TypeOK, TypeBg
  <2>4. /\ TypeHist' /\ TypeLogs' /\ TypeMans' /\ TypeTables' /\ TypeOpen' /\ TypeMem'
        /\ TypeWrite' /\ TypeApply'
    BY <1>1, <1>5, TypeFrame, Zenon DEF FlushFails
  <2> QED BY <2>2, <2>3, <2>4, Zenon DEF TypeOK
<1> QED BY <1>3, <1>4, <1>5, Zenon

\* Compactions, DeleteObsoleteFiles, and iterators.
LEMMA TypeCompact ==
  ASSUME TypeOK, Handles,
         \/ \E inputs \in SUBSET vs.live : StartCompaction(inputs)
         \/ FinishCompaction \/ CompactionFails \/ (\E f \in gc : Unlink(f)) \/ Pin \/ Unpin
  PROVE  TypeOK'
<1> USE DEF diskVars, memVars, bgVars, histVars
<1>1. writes' = writes
  BY Zenon DEF StartCompaction, FinishCompaction, CompactionFails, Unlink, Pin, Unpin
<1>2. /\ Issued' = Issued /\ Applies' = Applies /\ Tables' = Tables
      /\ vs.live \subseteq Files /\ vs.log \in Nat
  BY <1>1, TypesStay, TypeFacts, VersionUpdates, Zenon
<1>3. ASSUME NEW inputs \in SUBSET vs.live, StartCompaction(inputs)
      PROVE  TypeOK'
  <2>1. CreateTable(vs.next) /\ vs.next \in Files /\ run' = run /\ rec' = rec
    BY <1>3, Zenon DEF StartCompaction, CreateTable
  <2>2. TypeDir' /\ TypeTables' /\ TypeOpen'
    BY <2>1, <1>1, TypeCreateTable, Zenon
  <2>3. TypeBg'
    <3>1. comp' \in Compactions
      BY <2>1, <1>2, <1>3, Zenon DEF StartCompaction, Compactions
    <3> QED BY <3>1, <1>3, Zenon DEF StartCompaction, TypeOK, TypeBg
  <2>4. TypeHist' /\ TypeLogs' /\ TypeMans' /\ TypeMem' /\ TypeWrite' /\ TypeApply'
    BY <1>1, <1>3, TypeFrame, Zenon DEF StartCompaction
  <2> QED BY <2>2, <2>3, <2>4, Zenon DEF TypeOK
<1>4. CASE FinishCompaction
  <2>1. comp.num \in Files /\ comp.inputs \subseteq Files
    BY <1>4, Zenon DEF FinishCompaction, Handles, TypeOK, TypeBg, Compactions
  <2>2. CompactionEdit \in Edits
    BY <2>1, <1>2, LoggedEditTypes, Zenon DEF CompactionEdit
  <2>3. TypeTables'
    <3>1. \A n \in Files : tbls[n].recs \subseteq Issued
      BY Zenon DEF TypeOK, TypeTables, Tables
    <3>2. UNION {tbls[n].recs : n \in comp.inputs} \subseteq Issued
      BY <3>1, <2>1, Zenon
    <3>3. [recs |-> UNION {tbls[n].recs : n \in comp.inputs}, synced |-> TRUE] \in Tables
      BY <3>2, Zenon DEF Tables
    <3> QED BY <3>3, <1>2, <1>4, Zenon DEF FinishCompaction, TypeOK, TypeTables
  <2>4. TypeApply'
    BY <2>2, <1>2, <1>4, Zenon DEF FinishCompaction, TypeApply, Applies
  <2>5. TypeDir'
    BY <1>4, Zenon DEF FinishCompaction, SyncFile, TypeOK, TypeDir
  <2>6. TypeHist' /\ TypeLogs' /\ TypeMans' /\ TypeOpen' /\ TypeMem' /\ TypeWrite' /\ TypeBg'
    BY <1>1, <1>4, TypeFrame, Zenon DEF FinishCompaction
  <2> QED BY <2>3, <2>4, <2>5, <2>6, Zenon DEF TypeOK
<1>5. CASE CompactionFails
  <2>1. TypeBg'
    BY <1>5, TypeFacts, ConstantTypes, Zenon DEF CompactionFails, TypeOK, TypeBg
  <2>2. /\ TypeHist' /\ TypeDir' /\ TypeLogs' /\ TypeMans' /\ TypeTables' /\ TypeOpen'
        /\ TypeMem' /\ TypeWrite' /\ TypeApply'
    BY <1>1, <1>5, TypeFrame, Zenon DEF CompactionFails
  <2> QED BY <2>1, <2>2, Zenon DEF TypeOK
<1>6. ASSUME NEW f \in gc, Unlink(f)
      PROVE  TypeOK'
  <2>1. f[1] \in {"log", "man", "table"} /\ f[2] \in Files
    BY Zenon DEF TypeOK, TypeBg
  <2>2. TypeDir'
    <3>1. /\ [dir EXCEPT !.logs = @ \ {f[2]}] \in Dirs
          /\ [dir EXCEPT !.mans = @ \ {f[2]}] \in Dirs
          /\ [dir EXCEPT !.tables = @ \ {f[2]}] \in Dirs
      BY <2>1, TypeFacts, DirUpdates, Zenon
    <3>2. CASE f[1] = "log"
      BY <3>1, <3>2, <1>6, TypeFacts, TypeChangeDir, Zenon DEF Unlink
    <3>3. CASE f[1] = "man"
      BY <3>1, <3>3, <1>6, TypeFacts, TypeChangeDir, Zenon DEF Unlink
    <3>4. CASE f[1] = "table"
      BY <3>1, <3>4, <1>6, TypeFacts, TypeChangeDir, Zenon DEF Unlink
    <3> QED BY <2>1, <3>2, <3>3, <3>4, Zenon
  <2>3. TypeBg'
    BY <1>6, Zenon DEF Unlink, TypeOK, TypeBg
  <2>4. /\ TypeHist' /\ TypeLogs' /\ TypeMans' /\ TypeTables' /\ TypeOpen' /\ TypeMem'
        /\ TypeWrite' /\ TypeApply'
    BY <1>1, <1>6, TypeFrame, Zenon DEF Unlink
  <2> QED BY <2>2, <2>3, <2>4, Zenon DEF TypeOK
<1>7. CASE Pin \/ Unpin
  <2>1. TypeBg'
    BY <1>2, <1>7, Zenon DEF Pin, Unpin, TypeOK, TypeBg
  <2>2. /\ TypeHist' /\ TypeDir' /\ TypeLogs' /\ TypeMans' /\ TypeTables' /\ TypeOpen'
        /\ TypeMem' /\ TypeWrite' /\ TypeApply'
    BY <1>1, <1>7, TypeFrame, Zenon DEF Pin, Unpin
  <2> QED BY <2>1, <2>2, Zenon DEF TypeOK
<1> QED BY <1>3, <1>4, <1>5, <1>6, <1>7, Zenon

\* What a crash of the machine makes of the files.
LEMMA MachineCrashCuts ==
  ASSUME TypeOK, MachineCrash
  PROVE  \E d \in lag :
           /\ dir' = d /\ lag' = {d}
           /\ \A n \in Files :
                /\ logs'[n] \in Cuts(logs[n], logSynced[n]) \/ logs'[n] = logs[n]
                /\ IF n \in d.mans /\ manSynced[n] < Len(mans[n])
                   THEN mans'[n] \in Cuts(mans[n], manSynced[n]) ELSE mans'[n] = mans[n]
           /\ logs' = [n \in Files |-> logs'[n]] /\ mans' = [n \in Files |-> mans'[n]]
<1>1. PICK d \in lag :
       /\ dir' = d /\ lag' = {d}
       /\ \E cl \in [{n \in d.logs : logSynced[n] < Len(logs[n])} ->
                       UNION {Cuts(logs[n], logSynced[n]) : n \in d.logs}] :
            /\ \A n \in DOMAIN cl : cl[n] \in Cuts(logs[n], logSynced[n])
            /\ logs' = [n \in Files |-> IF n \in DOMAIN cl THEN cl[n] ELSE logs[n]]
       /\ \E cm \in [{n \in d.mans : manSynced[n] < Len(mans[n])} ->
                       UNION {Cuts(mans[n], manSynced[n]) : n \in d.mans}] :
            /\ \A n \in DOMAIN cm : cm[n] \in Cuts(mans[n], manSynced[n])
            /\ mans' = [n \in Files |-> IF n \in DOMAIN cm THEN cm[n] ELSE mans[n]]
  BY Zenon DEF MachineCrash
<1>2. PICK cl \in [{n \in d.logs : logSynced[n] < Len(logs[n])} ->
                       UNION {Cuts(logs[n], logSynced[n]) : n \in d.logs}] :
            /\ \A n \in DOMAIN cl : cl[n] \in Cuts(logs[n], logSynced[n])
            /\ logs' = [n \in Files |-> IF n \in DOMAIN cl THEN cl[n] ELSE logs[n]]
  BY <1>1, Zenon
<1>3. PICK cm \in [{n \in d.mans : manSynced[n] < Len(mans[n])} ->
                       UNION {Cuts(mans[n], manSynced[n]) : n \in d.mans}] :
            /\ \A n \in DOMAIN cm : cm[n] \in Cuts(mans[n], manSynced[n])
            /\ mans' = [n \in Files |-> IF n \in DOMAIN cm THEN cm[n] ELSE mans[n]]
  BY <1>1, Zenon
<1>4. /\ \A n \in Files : logs'[n] \in Cuts(logs[n], logSynced[n]) \/ logs'[n] = logs[n]
      /\ logs' = [n \in Files |-> logs'[n]]
  BY <1>2, Zenon
<1>5. /\ \A n \in Files : IF n \in d.mans /\ manSynced[n] < Len(mans[n])
                          THEN mans'[n] \in Cuts(mans[n], manSynced[n])
                          ELSE mans'[n] = mans[n]
      /\ mans' = [n \in Files |-> mans'[n]]
  <2>1. DOMAIN cm = {n \in d.mans : manSynced[n] < Len(mans[n])}
    OBVIOUS
  <2> QED BY <2>1, <1>3, Zenon
<1> QED BY <1>1, <1>4, <1>5, Zenon

\* A crash of the process or of the machine.
LEMMA TypeCrash ==
  ASSUME TypeOK, Crash
  PROVE  TypeOK'
<1>1. writes' = writes /\ Reset
  BY Zenon DEF Crash, ProcessCrash, CrashInAddRecord, MachineCrash
<1>2. Issued' = Issued /\ Edits' = Edits /\ Tables' = Tables /\ writes \in Nat
  BY <1>1, TypesStay, TypeFacts, Zenon
<1>3. TypeOpen' /\ TypeMem' /\ TypeWrite' /\ TypeApply' /\ TypeBg'
  BY <1>1, TypeReset, Zenon
<1>4. TypeHist'
  BY <1>1 DEF Crash, ProcessCrash, CrashInAddRecord, MachineCrash, TypeOK, TypeHist
<1>5. CASE ProcessCrash
  <2>1. TypeDir' /\ TypeLogs' /\ TypeMans' /\ TypeTables'
    BY <1>1, <1>5, TypeFrame, Zenon DEF ProcessCrash, diskVars
  <2> QED BY <2>1, <1>3, <1>4, Zenon DEF TypeOK
<1>6. CASE CrashInAddRecord
  <2>1. TypeDir' /\ TypeTables' /\ logSynced' = logSynced /\ manSynced' = manSynced
    BY <1>1, <1>6, TypeFrame, Zenon DEF CrashInAddRecord
  <2>2. TypeMans'
    <3>1. CASE mans' = mans
      BY <3>1, <2>1, <1>1, TypeFrame, Zenon
    <3>2. CASE mans' = [mans EXCEPT ![vs.man] = Append(@, Torn)]
      BY <3>2, <2>1, <1>1, TypeAppend, Zenon
    <3> QED BY <3>1, <3>2, <1>6, Zenon DEF CrashInAddRecord
  <2>3. TypeLogs'
    <3>1. CASE logs' = logs
      BY <3>1, <2>1, <1>1, TypeFrame, Zenon
    <3>2. CASE logs' = [logs EXCEPT ![logno] = Append(@, Torn)]
      <4>1. ASSUME NEW n \in Files
            PROVE  logs'[n] \in Seq(Issued \cup {Torn}) /\ logSynced[n] <= Len(logs'[n])
        <5>1. /\ logs[n] \in Seq(Issued \cup {Torn}) /\ Len(logs[n]) \in Nat
              /\ logSynced[n] \in Nat /\ logSynced[n] <= Len(logs[n]) /\ DOMAIN logs = Files
          BY TypeFacts, Zenon DEF TypeOK, TypeLogs
        <5>2. /\ Append(logs[n], Torn) \in Seq(Issued \cup {Torn})
              /\ Len(Append(logs[n], Torn)) = Len(logs[n]) + 1
          BY <5>1
        <5>3. logs'[n] = logs[n] \/ logs'[n] = Append(logs[n], Torn)
          BY <5>1, <3>2, Zenon
        <5>4. logSynced[n] <= Len(logs[n]) + 1
          BY <5>1
        <5> QED BY <5>1, <5>2, <5>3, <5>4, Zenon
      <4>2. logs' \in [Files -> Seq(Issued \cup {Torn})]
        BY <4>1, <3>2, Zenon DEF TypeOK, TypeLogs
      <4> QED BY <4>1, <4>2, <2>1, <1>2, Zenon DEF TypeOK, TypeLogs
    <3> QED BY <3>1, <3>2, <1>6, Zenon DEF CrashInAddRecord
  <2> QED BY <2>1, <2>2, <2>3, <1>3, <1>4, Zenon DEF TypeOK
<1>7. CASE MachineCrash
  <2>1. PICK d \in lag :
           /\ dir' = d /\ lag' = {d}
           /\ \A n \in Files :
                /\ logs'[n] \in Cuts(logs[n], logSynced[n]) \/ logs'[n] = logs[n]
                /\ IF n \in d.mans /\ manSynced[n] < Len(mans[n])
                   THEN mans'[n] \in Cuts(mans[n], manSynced[n]) ELSE mans'[n] = mans[n]
           /\ logs' = [n \in Files |-> logs'[n]] /\ mans' = [n \in Files |-> mans'[n]]
    BY <1>7, MachineCrashCuts, Zenon
  <2>2. TypeDir'
    BY <2>1, Zenon DEF TypeOK, TypeDir
  <2>3. TypeLogs'
    <3>1. ASSUME NEW n \in Files
          PROVE  logs'[n] \in Seq(Issued \cup {Torn}) /\ Len(logs'[n]) \in Nat
      <4>1. /\ logs[n] \in Seq(Issued \cup {Torn}) /\ logSynced[n] \in Nat
            /\ logSynced[n] <= Len(logs[n])
        BY TypeFacts, Zenon DEF TypeOK, TypeLogs
      <4>2. logs'[n] \in Seq(Issued \cup {Torn})
        BY <4>1, <2>1, CutIsPrefix, Zenon
      <4> QED BY <4>2, SeqFacts, Zenon
    <3>2. logSynced' = [n \in Files |-> Len(logs'[n])]
      BY <1>7, Zenon DEF MachineCrash
    <3> QED BY <3>1, <3>2, <2>1, <1>2 DEF TypeLogs
  <2>4. TypeMans'
    <3>1. ASSUME NEW n \in Files
          PROVE  mans'[n] \in Seq(Edits \cup {Torn}) /\ Len(mans'[n]) \in Nat
      <4>1. /\ mans[n] \in Seq(Edits \cup {Torn}) /\ manSynced[n] \in Nat
            /\ manSynced[n] <= Len(mans[n])
        BY TypeFacts, Zenon DEF TypeOK, TypeMans
      <4>2. mans'[n] \in Seq(Edits \cup {Torn})
        BY <4>1, <2>1, CutIsPrefix, Zenon
      <4> QED BY <4>2, SeqFacts, Zenon
    <3>2. manSynced' = [n \in Files |-> Len(mans'[n])]
      BY <1>7, Zenon DEF MachineCrash
    <3> QED BY <3>1, <3>2, <2>1, <1>2 DEF TypeMans
  <2>5. TypeTables'
    BY <1>2, <1>7, ConstantTypes, Zenon DEF MachineCrash, TypeOK, TypeTables
  <2> QED BY <2>2, <2>3, <2>4, <2>5, <1>3, <1>4, Zenon DEF TypeOK
<1> QED BY <1>5, <1>6, <1>7, Zenon DEF Crash

\* Who has a MANIFEST open, step by step.
LEMMA HandlesStep ==
  ASSUME TypeOK, Handles, [Next]_vars
  PROVE  Handles'
<1> USE DEF Handles, diskVars, memVars, bgVars, histVars
<1>1. /\ vs \in VersionSets /\ la \in Applies /\ rec \in Recoveries
      /\ dir.current \in {0} \cup Files /\ comp \in Compactions /\ ReuseLogs \in BOOLEAN
  BY TypeFacts, Zenon DEF TypeOK, TypeBg
<1>2. CASE NewDB \/ NewDBCurrent \/ OpenSave \/ OpenWithoutSave
  BY <1>1, <1>2 DEF NewDB, NewDBCurrent, OpenSave, OpenWithoutSave
<1>3. CASE RecoverManifest
  <2>1. la' = la /\ comp' = comp /\ la.at = "none" /\ run' \in {"failed", "replay"}
    BY <1>3, Zenon DEF RecoverManifest
  <2>2. CASE UNCHANGED <<rec, vs>> /\ run' = "failed"
    BY <2>1, <2>2, Zenon
  <2>3. CASE /\ vs'.open = ReuseLogs /\ rec'.save = ~ReuseLogs
             /\ vs'.man = IF ReuseLogs THEN dir.current ELSE vs'.man
             /\ dir.current # 0
    BY <2>1, <2>3, <1>1, Zenon
  <2> QED BY <2>2, <2>3, <1>3 DEF RecoverManifest
<1>4. CASE RecoverLogFile
  <2>1. /\ vs'.open = vs.open /\ vs'.man = vs.man /\ (rec.save => rec'.save)
    BY <1>1, <1>4, Zenon DEF RecoverLogFile, VersionSets
  <2> QED BY <2>1, <1>4, Zenon DEF RecoverLogFile
<1>5. CASE OpenLog \/ SwitchLog
  <2>1. vs'.open = vs.open /\ vs'.man = vs.man
    BY <1>1, <1>5, Zenon DEF OpenLog, SwitchLog, CreateLog, VersionSets
  <2> QED BY <2>1, <1>5, Zenon DEF OpenLog, SwitchLog
<1>6. CASE NewManifest
  <2>1. /\ vs'.open /\ vs'.man = vs.man /\ vs.man \in Files /\ la'.at = "add"
        /\ run = "replay" => rec.save
    BY <1>1, <1>6, Zenon DEF NewManifest, VersionSets, Applies
  <2> QED BY <2>1, <1>6, Zenon DEF NewManifest
<1>7. CASE AddEdit \/ SyncManifest \/ SetCurrent
  <2>1. la'.at \in {"sync", "current", "install"} /\ vs' = vs /\ run' = run /\ rec' = rec
        /\ comp' = comp /\ la.at \notin {"none", "new"}
    BY <1>1, <1>7, Zenon DEF AddEdit, SyncManifest, SetCurrent, Applies
  <2> QED BY <2>1, Zenon
<1>8. CASE InstallOpen \/ InstallFlush \/ InstallCompaction
  <2>1. Applied.open = vs.open /\ Applied.man = vs.man
    BY <1>1, Zenon DEF Applied, VersionSets
  <2>2. vs' = Applied /\ la'.at = "none" /\ la.at = "install"
    BY <1>8 DEF InstallOpen, InstallFlush, InstallCompaction, NoApply
  <2>3. CASE InstallOpen
    BY <2>1, <2>2, <2>3, Zenon DEF InstallOpen
  <2>4. CASE InstallFlush
    BY <2>1, <2>2, <2>4, Zenon DEF InstallFlush
  <2>5. CASE InstallCompaction
    BY <2>1, <2>2, <2>5, Zenon DEF InstallCompaction, NoComp
  <2> QED BY <2>3, <2>4, <2>5, <1>8, Zenon
<1>9. CASE ApplyFails
  BY <1>9, Zenon DEF ApplyFails, NoApply, NoComp
<1>10. CASE OpenFails \/ Crash
  BY <1>10 DEF OpenFails, Crash, ProcessCrash, CrashInAddRecord, MachineCrash, Reset, NoVs,
               NoApply, NoComp
<1>11. CASE SyncLog \/ \E sync \in SyncOptions : AddRecord(sync)
  BY <1>11, Zenon DEF SyncLog, AddRecord
<1>12. CASE InsertInto
  <2>1. vs'.open = vs.open /\ vs'.man = vs.man
    BY <1>1, <1>12, Zenon DEF InsertInto, VersionSets
  <2> QED BY <2>1, <1>12, Zenon DEF InsertInto
<1>13. CASE StartFlush
  <2>1. vs'.open = vs.open /\ vs'.man = vs.man
    BY <1>1, <1>13, Zenon DEF StartFlush, CreateTable, VersionSets
  <2> QED BY <2>1, <1>13, Zenon DEF StartFlush
<1>14. CASE FinishFlush \/ FinishCompaction
  BY <1>14, Zenon DEF FinishFlush, FinishCompaction, BgIdle, MutexFree
<1>15. ASSUME NEW inputs \in SUBSET vs.live, StartCompaction(inputs)
       PROVE  Handles'
  <2>1. vs'.open = vs.open /\ vs'.man = vs.man /\ vs.next # 0
    BY <1>1, <1>15, TypeFacts DEF StartCompaction, CreateTable, VersionSets, Files
  <2> QED BY <2>1, <1>15, Zenon DEF StartCompaction
<1>16. CASE FlushFails \/ CompactionFails \/ Pin \/ Unpin \/ (\E f \in gc : Unlink(f))
  <2>1. /\ run' = run /\ rec' = rec /\ vs' = vs /\ la' = la
        /\ comp' = comp \/ comp' = NoComp
    BY <1>16, Zenon DEF FlushFails, CompactionFails, Pin, Unpin, Unlink
  <2> QED BY <2>1 DEF NoComp
<1>17. CASE UNCHANGED vars
  BY <1>17, Zenon DEF vars
<1> QED BY <1>2, <1>3, <1>4, <1>5, <1>6, <1>7, <1>8, <1>9, <1>10, <1>11, <1>12, <1>13, <1>14,
           <1>15, <1>16, <1>17, ZenonT(60) DEF Next, OpenStep, ApplyStep, WriteStep, BackgroundStep

-----------------------------------------------------------------------------
(* MANIFEST files.                                                         *)

\* The tables an edit sequence leaves live depend on the edits alone.
LEMMA LiveAtSame ==
  ASSUME NEW s, NEW t, NEW j \in Nat, \A k \in 1..j : s[k] = t[k]
  PROVE  LiveAt(s, j) = LiveAt(t, j)
  BY DEF LiveAt

\* An edit takes its deleted tables out of the live ones and adds its new ones.
LEMMA LiveAtNext ==
  ASSUME NEW s, NEW j \in Nat, s[j + 1].add \subseteq Files
  PROVE  LiveAt(s, j + 1) = (LiveAt(s, j) \ s[j + 1].del) \cup s[j + 1].add
<1> DEFINE e == s[j + 1]
<1>1. ASSUME NEW n \in Files
      PROVE  n \in LiveAt(s, j + 1) <=> n \in (LiveAt(s, j) \ e.del) \cup e.add
  <2>1. ASSUME n \in LiveAt(s, j + 1), n \notin e.add
        PROVE  n \in LiveAt(s, j) /\ n \notin e.del
    <3>1. PICK i \in 1..j + 1 : n \in s[i].add /\ \A k \in i+1..j + 1 : n \notin s[k].del
      BY <2>1, Zenon DEF LiveAt
    <3>2. i \in 1..j
      BY <3>1, <2>1
    <3>3. j + 1 \in i+1..j + 1 /\ \A k \in i+1..j : k \in i+1..j + 1
      BY <3>2
    <3> QED BY <3>1, <3>2, <3>3, Zenon DEF LiveAt
  <2>2. ASSUME n \in e.add
        PROVE  n \in LiveAt(s, j + 1)
    <3>1. j + 1 \in 1..j + 1 /\ \A k \in j + 1 + 1..j + 1 : FALSE
      OBVIOUS
    <3> QED BY <3>1, <2>2, Zenon DEF LiveAt
  <2>3. ASSUME n \in LiveAt(s, j), n \notin e.del
        PROVE  n \in LiveAt(s, j + 1)
    <3>1. PICK i \in 1..j : n \in s[i].add /\ \A k \in i+1..j : n \notin s[k].del
      BY <2>3, Zenon DEF LiveAt
    <3>2. i \in 1..j + 1 /\ \A k \in i+1..j + 1 : k \in i+1..j \/ k = j + 1
      BY <3>1
    <3> QED BY <3>1, <3>2, <2>3, Zenon DEF LiveAt
  <2> HIDE DEF e
  <2> QED BY <2>1, <2>2, <2>3, Zenon
<1>2. LiveAt(s, j + 1) \subseteq Files /\ LiveAt(s, j) \subseteq Files
  BY Zenon DEF LiveAt
<1> HIDE DEF e
<1>3. e.add \subseteq Files
  BY Zenon DEF e
<1>4. LiveAt(s, j + 1) = (LiveAt(s, j) \ e.del) \cup e.add
  BY <1>1, <1>2, <1>3, Zenon
<1> QED BY <1>4, Zenon DEF e

\* log::Reader returns the whole edits of a MANIFEST that has an incomplete record at
\* most at its end; VersionSet::Recover then has the live tables of the last of them, and
\* its numbers when it has some.
LEMMA WholeIsRead ==
  ASSUME NEW s \in Seq(Edits \cup {Torn}), \A i \in 1..Len(s) : s[i] = Torn => i = Len(s)
  PROVE  /\ Len(s) \in Nat /\ Whole(s) \in 0..Len(s) /\ Len(s) - 1 <= Whole(s)
         /\ \A i \in 1..Whole(s) : s[i] \in Edits /\ s[i] # Torn
         /\ Whole(s) < Len(s) => s[Len(s)] = Torn
         /\ Intact(s) \in Seq(Edits) /\ Len(Intact(s)) = Whole(s)
         /\ \A i \in 1..Whole(s) : Intact(s)[i] = s[i]
<1> DEFINE L == Len(s)
<1>1. DOMAIN s = 1..L /\ L \in Nat /\ \A i \in 1..L : s[i] \in Edits \cup {Torn}
  BY SeqFacts, Zenon
<1>2. s # <<>> <=> L # 0
  BY SeqFacts, <1>1, Zenon
<1>3. \A i \in 1..L : s[i] = Torn => i = L
  OBVIOUS
<1>0. L = Len(s)
  OBVIOUS
<1> HIDE DEF L
<1>4. L - 1 \in Int /\ \A i \in 1..L - 1 : i \in 1..L /\ i # L
  BY <1>1
<1>5. CASE s # <<>> /\ s[L] = Torn
  <2>1. Whole(s) = L - 1
    BY <1>5, Zenon DEF Whole, L
  <2>2. L \in 1..L
    BY <1>1, <1>2, <1>5
  <2>3. {i \in DOMAIN s : s[i] = Torn} = {L}
    BY <1>1, <1>3, <1>5, <2>2, Zenon
  <2>4. Min({L}) = L
    BY <1>1 DEF Min
  <2>5. Intact(s) = SubSeq(s, 1, L - 1)
    BY <2>3, <2>4, Zenon DEF Intact
  <2>6. \A i \in 1..L - 1 : s[i] \in Edits /\ s[i] # Torn
    BY <1>1, <1>3, <1>4, Zenon
  <2>7. /\ SubSeq(s, 1, L - 1) \in Seq(Edits) /\ Len(SubSeq(s, 1, L - 1)) = L - 1
        /\ \A i \in 1..L - 1 : SubSeq(s, 1, L - 1)[i] = s[i]
    <3>1. L - 1 \in 0..Len(s)
      BY <2>2, <1>0, <1>1
    <3> QED BY <3>1, <2>6, PrefixFacts
  <2>8. Whole(s) \in 1..L \cup {0} /\ Len(Intact(s)) = Whole(s)
    BY <2>1, <2>2, <2>5, <2>7, <1>1
  <2>9. s # <<>> /\ s[Len(s)] = Torn
    BY <1>5, Zenon DEF L
  <2>10. L - 1 \in 0..L /\ L - 1 <= Whole(s)
    BY <2>1, <2>2, <1>1
  <2>11. /\ Intact(s) \in Seq(Edits) /\ Len(Intact(s)) = Whole(s)
         /\ \A i \in 1..Whole(s) : Intact(s)[i] = s[i] /\ s[i] \in Edits /\ s[i] # Torn
    BY <2>1, <2>5, <2>6, <2>7, Zenon
  <2> QED BY <1>0, <1>1, <2>1, <2>9, <2>10, <2>11, Zenon
<1>6. CASE ~(s # <<>> /\ s[L] = Torn)
  <2>1. Whole(s) = L
    BY <1>6, Zenon DEF Whole, L
  <2>2. \A i \in 1..L : s[i] \in Edits /\ s[i] # Torn
    BY <1>1, <1>2, <1>3, <1>6
  <2>3. Intact(s) = s
    BY <2>2, <1>1, Zenon DEF Intact
  <2>4. s \in Seq(Edits)
    BY <2>2, SeqOf, Zenon DEF L
  <2> QED BY <2>1, <2>2, <2>3, <2>4, <1>1 DEF L
<1> QED BY <1>5, <1>6, Zenon

LEMMA LiveIsRead ==
  ASSUME NEW s \in Seq(Edits \cup {Torn}), \A i \in 1..Len(s) : s[i] = Torn => i = Len(s)
  PROVE  /\ LiveIn(Intact(s)) = LiveAt(s, Whole(s))
         /\ ~Corrupt(s)
         /\ Whole(s) > 0 /\ s[Whole(s)].meta =>
              /\ \E i \in DOMAIN Intact(s) : Intact(s)[i].meta
              /\ LastMeta(Intact(s)) = s[Whole(s)]
<1>1. /\ Whole(s) \in Nat /\ Intact(s) \in Seq(Edits) /\ Len(Intact(s)) = Whole(s)
      /\ \A i \in 1..Whole(s) : Intact(s)[i] = s[i]
  BY WholeIsRead
<1>2. DOMAIN Intact(s) = 1..Whole(s)
  BY <1>1, SeqFacts, Zenon
<1>3. LiveIn(Intact(s)) = LiveAt(Intact(s), Whole(s))
  BY <1>1, <1>2, Zenon DEF LiveIn, LiveAt
<1>4. LiveIn(Intact(s)) = LiveAt(s, Whole(s))
  BY <1>1, <1>3, LiveAtSame, Zenon
<1>5. ~Corrupt(s)
  BY SeqFacts, Zenon DEF Corrupt
<1>6. ASSUME Whole(s) > 0, s[Whole(s)].meta
      PROVE  /\ \E i \in DOMAIN Intact(s) : Intact(s)[i].meta
             /\ LastMeta(Intact(s)) = s[Whole(s)]
  <2>1. Whole(s) \in 1..Whole(s)
    BY <1>1, <1>6
  <2>2. \E i \in DOMAIN Intact(s) : Intact(s)[i].meta
    BY <2>1, <1>1, <1>2, <1>6, Zenon
  <2> DEFINE M == {i \in DOMAIN Intact(s) : Intact(s)[i].meta}
  <2>3. Whole(s) \in M /\ M \subseteq 1..Whole(s)
    BY <2>1, <1>1, <1>2, <1>6, Zenon
  <2>4. LastMeta(Intact(s)) = Intact(s)[Max(M)]
    BY Zenon DEF LastMeta
  <2> HIDE DEF M
  <2>5. Max(M) = Whole(s)
    <3>1. \A y \in M : Whole(s) >= y
      BY <2>3, <1>1
    <3>2. \A x \in M : (\A y \in M : x >= y) => x = Whole(s)
      BY <2>3, <3>1, <1>1
    <3> QED BY <2>3, <3>1, <3>2, Zenon DEF Max
  <2> QED BY <2>1, <2>2, <2>4, <2>5, <1>1, Zenon
<1> QED BY <1>4, <1>5, <1>6, Zenon

\* What the invariant says of a MANIFEST.
LEMMA ManifestFacts ==
  ASSUME TypeOK, TornIsLast, NEW n \in Files
  PROVE  /\ mans[n] \in Seq(Edits \cup {Torn}) /\ Len(mans[n]) \in Nat
         /\ Whole(mans[n]) \in 0..Len(mans[n]) /\ Len(mans[n]) - 1 <= Whole(mans[n])
         /\ \A i \in 1..Whole(mans[n]) : mans[n][i] \in Edits /\ mans[n][i] # Torn
         /\ Whole(mans[n]) \in Heads(n) /\ Heads(n) \subseteq 0..Whole(mans[n])
         /\ manSynced[n] \in Nat /\ manSynced[n] <= Len(mans[n])
<1>1. mans[n] \in Seq(Edits \cup {Torn})
  BY Zenon DEF TypeOK, TypeMans
<1>2. \A i \in 1..Len(mans[n]) : mans[n][i] = Torn => i = Len(mans[n])
  BY Zenon DEF TornIsLast
<1>3. /\ Len(mans[n]) \in Nat
      /\ Whole(mans[n]) \in 0..Len(mans[n]) /\ Len(mans[n]) - 1 <= Whole(mans[n])
      /\ \A i \in 1..Whole(mans[n]) : mans[n][i] \in Edits /\ mans[n][i] # Torn
  BY <1>1, <1>2, WholeIsRead, Zenon
<1>4. Whole(mans[n]) \in Heads(n) /\ Heads(n) \subseteq 0..Whole(mans[n])
  BY <1>3 DEF Heads
<1> QED BY <1>1, <1>3, <1>4, Zenon DEF TypeOK, TypeMans

\* The fields of an edit.
LEMMA EditFields ==
  ASSUME NEW e \in Edits
  PROVE  /\ e.add \subseteq Files /\ e.del \subseteq Files /\ e.meta \in BOOLEAN
         /\ e.next \in Nat /\ e.log \in Nat
  BY Zenon DEF Edits

\* An edit added to a MANIFEST that ends with a whole one.
LEMMA AppendEdit ==
  ASSUME NEW s \in Seq(Edits \cup {Torn}), NEW e \in Edits \cup {Torn},
         \A i \in 1..Len(s) : s[i] # Torn
  PROVE  /\ Len(s) \in Nat /\ Len(Append(s, e)) = Len(s) + 1
         /\ Append(s, e)[Len(s) + 1] = e
         /\ \A i \in 1..Len(s) : Append(s, e)[i] = s[i]
         /\ Whole(s) = Len(s)
         /\ Whole(Append(s, e)) = IF e = Torn THEN Len(s) ELSE Len(s) + 1
         /\ e # Torn => LiveAt(Append(s, e), Len(s) + 1) =
                          (LiveAt(s, Len(s)) \ e.del) \cup e.add
<1>1. Len(s) \in Nat
  BY SeqFacts, Zenon
<1>2. /\ Len(Append(s, e)) = Len(s) + 1 /\ Append(s, e)[Len(s) + 1] = e
      /\ \A i \in 1..Len(s) : Append(s, e)[i] = s[i]
      /\ Append(s, e) \in Seq(Edits \cup {Torn})
  BY <1>1
<1>3. Append(s, e) # <<>> /\ (s # <<>> => Len(s) \in 1..Len(s))
  BY <1>1, <1>2, SeqFacts
<1>4. Whole(s) = Len(s)
  BY <1>3, Zenon DEF Whole
<1>5. Whole(Append(s, e)) = IF e = Torn THEN Len(s) ELSE Len(s) + 1
  BY <1>1, <1>2, <1>3 DEF Whole
<1>6. ASSUME e # Torn
      PROVE  LiveAt(Append(s, e), Len(s) + 1) = (LiveAt(s, Len(s)) \ e.del) \cup e.add
  <2> DEFINE t == Append(s, e)
  <2>1. t[Len(s) + 1] = e /\ t[Len(s) + 1].add \subseteq Files
    BY <1>2, <1>6, EditFields, Zenon
  <2>2. \A i \in 1..Len(s) : t[i] = s[i]
    BY <1>2, Zenon
  <2> HIDE DEF t
  <2>3. LiveAt(t, Len(s)) = LiveAt(s, Len(s))
    BY <2>2, <1>1, LiveAtSame, Zenon
  <2>4. LiveAt(t, Len(s) + 1) = (LiveAt(t, Len(s)) \ t[Len(s) + 1].del) \cup t[Len(s) + 1].add
    BY <2>1, <1>1, LiveAtNext, Zenon
  <2> QED BY <2>1, <2>3, <2>4, Zenon DEF t
<1> QED BY <1>1, <1>2, <1>4, <1>5, <1>6, Zenon

-----------------------------------------------------------------------------
(* The disks a crash may leave.                                            *)

\* A disk a crash may leave after a step is readable when one before it was, with the
\* same CURRENT, no other edits than before, and the tables these leave live.
LEMMA ImagesFrame ==
  ASSUME TypeOK, TypeOK', TornIsLast, TornIsLast', ImagesReadable,
         \A e \in lag' : e.current # 0 => \E d \in lag :
           /\ e.current = d.current
           /\ d.current \in d.mans => d.current \in e.mans
           /\ \A j \in Heads(d.current)' :
                /\ j \in Heads(d.current)
                /\ \A k \in 1..j : mans'[d.current][k] = mans[d.current][k]
                /\ \A n \in LiveAt(mans[d.current], j) :
                     n \in d.tables /\ tbls[n].synced => n \in e.tables /\ tbls'[n].synced
  PROVE  ImagesReadable'
<1> SUFFICES ASSUME NEW e \in lag', e.current # 0
             PROVE  /\ e.current \in e.mans
                    /\ \A j \in Heads(e.current)' :
                       /\ j > 0 /\ mans'[e.current][j].meta
                       /\ e.current < mans'[e.current][j].next
                       /\ \A n \in LiveAt(mans'[e.current], j) :
                            n \in e.tables /\ tbls'[n].synced /\ n < mans'[e.current][j].next
  BY Zenon DEF ImagesReadable
<1>1. PICK d \in lag :
           /\ e.current = d.current
           /\ d.current \in d.mans => d.current \in e.mans
           /\ \A j \in Heads(d.current)' :
                /\ j \in Heads(d.current)
                /\ \A k \in 1..j : mans'[d.current][k] = mans[d.current][k]
                /\ \A n \in LiveAt(mans[d.current], j) :
                     n \in d.tables /\ tbls[n].synced => n \in e.tables /\ tbls'[n].synced
  OBVIOUS
<1>2. d.current # 0 /\ d.current \in Files
  BY <1>1, Zenon DEF TypeOK, TypeDir, Dirs
<1>3. d.current \in d.mans
  BY <1>2, Zenon DEF ImagesReadable
<1>4. ASSUME NEW j \in Heads(d.current)'
      PROVE  /\ j > 0 /\ mans'[d.current][j].meta
             /\ d.current < mans'[d.current][j].next
             /\ \A n \in LiveAt(mans'[d.current], j) :
                  n \in e.tables /\ tbls'[n].synced /\ n < mans'[d.current][j].next
  <2>1. j \in Heads(d.current) /\ \A k \in 1..j : mans'[d.current][k] = mans[d.current][k]
    BY <1>1, Zenon
  <2>2. /\ j > 0 /\ mans[d.current][j].meta /\ d.current < mans[d.current][j].next
        /\ \A n \in LiveAt(mans[d.current], j) :
             n \in d.tables /\ tbls[n].synced /\ n < mans[d.current][j].next
    BY <1>2, <2>1, Zenon DEF ImagesReadable
  <2>3. j \in Nat /\ j \in 1..j
    BY <1>2, <2>1, <2>2, ManifestFacts
  <2>4. LiveAt(mans'[d.current], j) = LiveAt(mans[d.current], j)
    BY <2>1, <2>3, LiveAtSame
  <2>5. mans'[d.current][j] = mans[d.current][j]
    BY <2>1, <2>3, Zenon
  <2> QED BY <2>2, <2>4, <2>5, <1>1, Zenon
<1> QED BY <1>1, <1>3, <1>4, Zenon

\* The same for the next file numbers.
LEMMA NextFrame ==
  ASSUME TypeOK, TypeOK', TornIsLast, TornIsLast', ImagesReadable, NextGrows,
         \A e \in lag' : e.current # 0 => \E d \in lag :
           /\ e.current = d.current
           /\ \A j \in Heads(d.current)' :
                /\ j \in Heads(d.current)
                /\ \A k \in 1..j : mans'[d.current][k] = mans[d.current][k],
         Newest \in Nat, Newest' \in Nat, Newest <= Newest'
  PROVE  NextGrows'
<1> SUFFICES ASSUME NEW e \in lag', e.current # 0, NEW j \in Heads(e.current)'
             PROVE  mans'[e.current][j].next <= Newest'
  BY Zenon DEF NextGrows
<1>1. PICK d \in lag :
           /\ e.current = d.current
           /\ \A i \in Heads(d.current)' :
                /\ i \in Heads(d.current)
                /\ \A k \in 1..i : mans'[d.current][k] = mans[d.current][k]
  OBVIOUS
<1>2. d.current # 0 /\ d.current \in Files
  BY <1>1, Zenon DEF TypeOK, TypeDir, Dirs
<1>3. j \in Heads(d.current) /\ \A k \in 1..j : mans'[d.current][k] = mans[d.current][k]
  BY <1>1, Zenon
<1>4. j > 0
  BY <1>2, <1>3, Zenon DEF ImagesReadable
<1>5. j \in 1..Whole(mans[d.current]) /\ j \in 1..j
  BY <1>2, <1>3, <1>4, ManifestFacts
<1>6. mans[d.current][j].next \in Nat
  BY <1>2, <1>5, ManifestFacts, EditFields, Zenon
<1>7. mans[d.current][j].next <= Newest
  BY <1>2, <1>3, Zenon DEF NextGrows
<1>8. mans'[e.current][j] = mans[d.current][j]
  BY <1>1, <1>3, <1>5, Zenon
<1> QED BY <1>6, <1>7, <1>8

\* The number Newest names.
LEMMA NewestIsNumber ==
  ASSUME TypeOK, TornIsLast, ImagesReadable, dir.current # 0
  PROVE  /\ Newest \in Nat /\ dir.current < Newest
         /\ \A d \in lag : d.current # 0 =>
              /\ d.current \in Files
              /\ \A j \in Heads(d.current) :
                   j \in 1..Whole(mans[d.current]) /\ mans[d.current][j] \in Edits
<1>1. \A d \in lag : d.current # 0 => d.current \in Files
  BY Zenon DEF TypeOK, TypeDir, Dirs
<1>2. ASSUME NEW d \in lag, d.current # 0, NEW j \in Heads(d.current)
      PROVE  j \in 1..Whole(mans[d.current]) /\ mans[d.current][j] \in Edits
  <2>1. j > 0
    BY <1>2, Zenon DEF ImagesReadable
  <2>2. j \in 1..Whole(mans[d.current])
    BY <1>1, <1>2, <2>1, ManifestFacts
  <2> QED BY <2>2, <1>1, <1>2, ManifestFacts, Zenon
<1>3. dir \in lag /\ dir.current \in Files
  BY <1>1, Zenon DEF TypeOK, TypeDir
<1>4. Whole(mans[dir.current]) \in Heads(dir.current)
  BY <1>3, ManifestFacts, Zenon
<1>5. Newest \in Nat
  BY <1>2, <1>3, <1>4, EditFields, Zenon DEF Newest
<1>6. dir.current < Newest
  BY <1>3, <1>4, Zenon DEF ImagesReadable, Newest
<1> QED BY <1>1, <1>2, <1>5, <1>6, Zenon

\* A scenario stays what it is.
LEMMA OptionsStay ==
  ASSUME opt' = opt
  PROVE  /\ MachineCrashes' = MachineCrashes /\ TornRecords' = TornRecords
         /\ ReuseLogs' = ReuseLogs /\ Fresh' = Fresh /\ NestedFlush' = NestedFlush
         /\ Dependable' = Dependable
  BY Zenon DEF MachineCrashes, TornRecords, ReuseLogs, Fresh, SyncCommitsDir, EnvErrors, NestedFlush,
               Dependable

\* A background thread that has stopped stays so while its state does.
LEMMA HaltedStays ==
  ASSUME la' = la, fl' = fl, comp' = comp, bg_error' = bg_error
  PROVE  Halted => Halted'
  BY Zenon DEF Halted

\* What the invariant says of an open database, or of one being opened: every disk a crash
\* may leave has a CURRENT, and the numbers of its tables have been handed out.
LEMMA OpenFacts ==
  ASSUME FilesInvariant, Dependable, run \in {"replay", "up"}
  PROVE  /\ TypeOK /\ Handles /\ FilesSafe
         /\ dir \in lag /\ dir.current \in Files /\ dir.current # 0
         /\ Newest \in Nat /\ Newest <= vs.next /\ vs.next \in Nat /\ vs.man \in Nat
         /\ vs.man < vs.next /\ vs.live \subseteq Files
         /\ \A d \in lag :
              /\ d.current # 0 /\ d.current \in Files /\ d.current \in d.mans
              /\ d.current < vs.next
              /\ \A n \in Listed(d.current) : n \in d.tables /\ tbls[n].synced /\ n < vs.next
<1>1. TypeOK /\ Handles /\ FilesSafe
  BY Zenon DEF FilesInvariant
<1>2. dir \in lag /\ vs.next \in Nat /\ vs.man \in Nat /\ vs.live \subseteq Files
  BY <1>1, Zenon DEF TypeOK, TypeDir, TypeOpen, VersionSets
<1>3. \A d \in lag : d.current # 0
  BY <1>1, Zenon DEF FilesSafe, Started
<1>4. Newest <= vs.next /\ vs.man < vs.next
  BY <1>1, Zenon DEF FilesSafe, NumbersInUse
<1>5. /\ Newest \in Nat
      /\ \A d \in lag : /\ d.current \in Files
                        /\ \A j \in Heads(d.current) : mans[d.current][j] \in Edits
  BY <1>1, <1>2, <1>3, NewestIsNumber, Zenon DEF FilesSafe
<1>6. ASSUME NEW d \in lag, NEW j \in Heads(d.current)
      PROVE  /\ d.current < vs.next
             /\ \A n \in LiveAt(mans[d.current], j) : n \in d.tables /\ tbls[n].synced /\ n < vs.next
  <2>1. mans[d.current][j].next \in Nat
    BY <1>5, <1>6, EditFields, Zenon
  <2>2. mans[d.current][j].next <= vs.next
    BY <2>1, <1>1, <1>2, <1>3, <1>4, <1>5, <1>6 DEF FilesSafe, NextGrows
  <2>3. /\ d.current < mans[d.current][j].next
        /\ \A n \in LiveAt(mans[d.current], j) :
             n \in d.tables /\ tbls[n].synced /\ n < mans[d.current][j].next
    BY <1>1, <1>3, <1>6, Zenon DEF FilesSafe, ImagesReadable
  <2>4. d.current \in Nat /\ \A n \in LiveAt(mans[d.current], j) : n \in Nat
    BY <1>1, <1>5, TypeFacts, Zenon DEF LiveAt
  <2> QED BY <2>1, <2>2, <2>3, <2>4, <1>2
<1>7. \A d \in lag : \E j \in Heads(d.current) : TRUE
  BY <1>1, <1>5, ManifestFacts, Zenon DEF FilesSafe
<1>8. \A d \in lag : d.current \in d.mans
  BY <1>1, <1>3, Zenon DEF FilesSafe, ImagesReadable
<1> QED BY <1>1, <1>2, <1>3, <1>4, <1>5, <1>6, <1>7, <1>8, Zenon DEF Listed

\* File numbers are numbers.
LEMMA NumberTypes ==
  ASSUME TypeOK
  PROVE  /\ \A n \in Files : n \in Nat
         /\ vs.next \in Nat /\ vs.man \in Nat /\ vs.live \subseteq Files /\ vs.open \in BOOLEAN
         /\ rec.add \subseteq Files /\ vs.live \cup pinned \cup PendingOutputs \subseteq Nat
         /\ la.edit \in Edits /\ la.edit.add \subseteq Files /\ la.edit.next \in Nat
         /\ fl \in Nat /\ la.new \in BOOLEAN
<1>1. Files \subseteq Nat /\ vs \in VersionSets /\ la \in Applies /\ rec \in Recoveries
  BY TypeFacts, Zenon
<1>2. rec.add \subseteq Files
  BY <1>1, Zenon DEF Recoveries
<1>3. pinned \subseteq Files /\ comp \in Compactions /\ fl \in Nat
  BY <1>1 DEF TypeOK, TypeBg
<1>4. PendingOutputs \subseteq Nat
  <2>1. comp.num \in {0} \cup Files
    BY <1>3, Zenon DEF Compactions
  <2>2. comp.num \in Nat
    BY <2>1, DurabilityAssumption DEF Files
  <2> QED BY <2>2, Zenon DEF PendingOutputs
<1>5. la.edit \in Edits /\ la.edit.add \subseteq Files /\ la.edit.next \in Nat /\ la.new \in BOOLEAN
  BY <1>1, ApplyUpdates, Zenon
<1> QED BY <1>1, <1>2, <1>3, <1>4, <1>5, VersionUpdates, Zenon

\* The MANIFEST that descriptor_log_ writes has whole edits only, as long as something may
\* be added to it.  When they are synced, or
\* the machine does not crash, a recovery reads all of them.
LEMMA OpenManifest ==
  ASSUME FilesInvariant, Dependable, vs.open, ~Halted
  PROVE  LET s == mans[vs.man] IN
         /\ vs.man \in Files /\ s \in Seq(Edits \cup {Torn}) /\ Len(s) \in Nat /\ Len(s) > 0
         /\ Len(s) \in 1..Len(s) /\ \A i \in 1..Len(s) : s[i] \in Edits /\ s[i] # Torn
         /\ Whole(s) = Len(s)
         /\ ~MachineCrashes \/ manSynced[vs.man] = Len(s) =>
              Heads(vs.man) = {Len(s)} /\ Listed(vs.man) = LiveAt(s, Len(s))
<1> DEFINE s == mans[vs.man]
<1>1. TypeOK /\ Handles /\ FilesSafe
  BY Zenon DEF FilesInvariant
<1>2. vs.man \in Files /\ s # <<>> /\ s[Len(s)] # Torn
  BY <1>1, Zenon DEF Handles, FilesSafe, ManifestFollows
<1>3. /\ s \in Seq(Edits \cup {Torn}) /\ Len(s) \in Nat
      /\ \A i \in 1..Whole(s) : s[i] \in Edits /\ s[i] # Torn
  BY <1>1, <1>2, ManifestFacts, Zenon DEF FilesSafe
<1> HIDE DEF s
<1>4. Len(s) # 0
  BY <1>2, <1>3, SeqFacts, Zenon
<1>5. Whole(s) = Len(s)
  BY <1>2, Zenon DEF Whole
<1>6. ASSUME ~MachineCrashes \/ manSynced[vs.man] = Len(s)
      PROVE  Heads(vs.man) = {Len(s)} /\ Listed(vs.man) = LiveAt(s, Len(s))
  <2>1. Heads(vs.man) = {Len(s)}
    BY <1>3, <1>5, <1>6 DEF Heads, s
  <2> QED BY <2>1, Zenon DEF Listed, LiveAt, s
<1> QED BY <1>2, <1>3, <1>4, <1>5, <1>6 DEF s

\* A step that leaves the edits of every CURRENT alone, and takes away no table on their
\* lists, leaves every disk readable.
LEMMA DiskFrame ==
  ASSUME FilesInvariant, Dependable, TypeOK', TornIsLast', run \in {"replay", "up"}, opt' = opt,
         lag' \subseteq lag \cup {dir'}, dir'.current = dir.current, dir.current \in dir'.mans,
         \A d \in lag : /\ mans'[d.current] = mans[d.current]
                        /\ manSynced[d.current] <= manSynced'[d.current]
                        /\ \A n \in Listed(d.current) : tbls'[n].synced,
         Listed(dir.current) \subseteq dir'.tables
  PROVE  /\ ImagesReadable' /\ NextGrows' /\ Newest' = Newest
         /\ \A e \in lag' : /\ e.current # 0 /\ \E d \in lag : e.current = d.current
                            /\ Listed(e.current)' \subseteq Listed(e.current)
<1>1. /\ TypeOK /\ FilesSafe /\ dir \in lag /\ Newest \in Nat
      /\ \A d \in lag : /\ d.current # 0 /\ d.current \in Files /\ d.current \in d.mans
                        /\ \A n \in Listed(d.current) : n \in d.tables
  BY OpenFacts, Zenon
<1>2. ASSUME NEW d \in lag, NEW j \in Heads(d.current)'
      PROVE  j \in Heads(d.current)
  <2>1. manSynced[d.current] \in Nat /\ Whole(mans[d.current]) \in Nat
    BY <1>1, ManifestFacts DEF FilesSafe
  <2>2. manSynced' \in [Files -> Nat]
    BY Zenon DEF TypeOK, TypeMans
  <2> QED BY <2>1, <2>2, <1>1, OptionsStay DEF Heads
<1>3. ASSUME NEW e \in lag'
      PROVE  \E d \in lag :
               /\ e.current = d.current /\ d.current \in e.mans
               /\ \A n \in Listed(d.current) : n \in e.tables /\ tbls'[n].synced
  <2>1. CASE e = dir'
    BY <2>1, <1>1, Zenon
  <2>2. CASE e \in lag
    BY <2>2, <1>1, Zenon
  <2> QED BY <2>1, <2>2, Zenon
<1>4. \A d \in lag : \A j \in Heads(d.current) : \A n \in LiveAt(mans[d.current], j) :
        n \in Listed(d.current)
  BY Zenon DEF Listed, LiveAt
<1>5. Newest' = Newest
  BY <1>1, Zenon DEF Newest
<1>6. ImagesReadable'
  BY <1>1, <1>2, <1>3, <1>4, ImagesFrame, Zenon DEF FilesSafe
<1>7. NextGrows'
  BY <1>1, <1>2, <1>3, <1>5, NextFrame DEF FilesSafe
<1>8. \A d \in lag : Listed(d.current)' \subseteq Listed(d.current)
  BY <1>2, Zenon DEF Listed
<1>9. \A e \in lag' : Listed(e.current)' \subseteq Listed(e.current)
  BY <1>3, <1>8, Zenon
<1> QED BY <1>1, <1>3, <1>5, <1>6, <1>7, <1>9, Zenon

\* MANIFEST files that are not written keep their incomplete records last.
LEMMA TornFrame ==
  ASSUME TornIsLast, opt' = opt, mans' = mans
  PROVE  TornIsLast'
  BY OptionsStay DEF TornIsLast



\* A changed directory is one more disk that a crash of the machine may leave; the sync of
\* a file makes it the only one.
LEMMA ChangedDir ==
  ASSUME Dependable, NEW d, ChangeDir(d), opt' = opt
  PROVE  dir' = d /\ lag' \subseteq lag \cup {dir'} /\ (~MachineCrashes' => lag' = {dir'})
  BY OptionsStay DEF ChangeDir
LEMMA SyncedDir ==
  ASSUME Dependable, NEW d
  PROVE  SyncFile(d) = {d}
  BY Zenon DEF SyncFile, Dependable

\* A step that changes no file that matters leaves every disk as readable as it was.
LEMMA DiskSame ==
  ASSUME TornIsLast, ImagesReadable, NextGrows, opt' = opt, dir' = dir, lag' = lag,
         mans' = mans, manSynced' = manSynced, tbls' = tbls
  PROVE  /\ TornIsLast' /\ ImagesReadable' /\ NextGrows' /\ Newest' = Newest
         /\ \A n : Listed(n)' = Listed(n)
<1>1. TornIsLast'
  BY TornFrame, Zenon
<1>2. \A n : Heads(n)' = Heads(n)
  BY OptionsStay DEF Heads
<1>3. \A n : Listed(n)' = Listed(n)
  BY <1>2, Zenon DEF Listed
<1>4. ImagesReadable'
  BY <1>2 DEF ImagesReadable
<1>5. Newest' = Newest
  BY Zenon DEF Newest
<1>6. NextGrows'
  BY <1>2, <1>5, Zenon DEF NextGrows
<1> QED BY <1>1, <1>3, <1>4, <1>5, <1>6, Zenon

-----------------------------------------------------------------------------
(* Logs.                                                                   *)

\* A new log takes a number, and nothing else.
LEMMA FilesCreateLog ==
  ASSUME FilesInvariant, Dependable, TypeOK', OpenLog \/ SwitchLog
  PROVE  FilesSafe'
<1>1. /\ run \in {"replay", "up"} /\ run' = run /\ CreateLog(vs.next) /\ opt' = opt /\ rec' = rec
      /\ mans' = mans /\ manSynced' = manSynced /\ tbls' = tbls /\ la' = la /\ pinned' = pinned
      /\ gc' = gc /\ fl' = fl /\ comp' = comp /\ bg_error' = bg_error /\ wr' = wr
      /\ run = "up" => gc = {} /\ ~has_imm
  BY Zenon DEF OpenLog, SwitchLog, MutexFree, bgVars, histVars
<1>2. /\ TypeOK /\ FilesSafe /\ dir \in lag /\ vs.next \in Nat
      /\ \A d \in lag : /\ d.current # 0 /\ d.current \in Files /\ d.current \in d.mans
                        /\ \A n \in Listed(d.current) : n \in d.tables /\ tbls[n].synced
  BY <1>1, OpenFacts, Zenon
<1>3. ChangeDir([dir EXCEPT !.logs = @ \cup {vs.next}]) /\ vs' = [vs EXCEPT !.next = @ + 1]
  BY <1>1, Zenon DEF CreateLog
<1>4. dir \in Dirs /\ vs \in VersionSets
  BY <1>2, TypeFacts, Zenon DEF TypeDir
<1>5. dir'.current = dir.current /\ dir'.mans = dir.mans /\ dir'.tables = dir.tables
  BY <1>1, <1>3, <1>4, ChangedDir DEF Dirs
<1>6. /\ vs'.next = vs.next + 1 /\ vs'.live = vs.live /\ vs'.man = vs.man /\ vs'.open = vs.open
  BY <1>3, <1>4, Zenon DEF VersionSets
<1>7. lag' \subseteq lag \cup {dir'} /\ (~MachineCrashes' => lag' = {dir'})
  BY <1>1, <1>3, ChangedDir, Zenon
<1>8. TornIsLast'
  BY <1>1, <1>2, TornFrame, Zenon DEF FilesSafe
<1>9. \A d \in lag : manSynced[d.current] <= manSynced'[d.current]
  BY <1>1, <1>2, TypeFacts
<1>10. /\ ImagesReadable' /\ NextGrows' /\ Newest' = Newest
       /\ \A e \in lag' : e.current # 0 /\ \E d \in lag : e.current = d.current
  BY <1>1, <1>2, <1>5, <1>7, <1>8, <1>9, DiskFrame, Zenon
<1>11. \A n \in Files : (\A d \in lag : n \in d.tables) => \A e \in lag' : n \in e.tables
  BY <1>2, <1>5, <1>7, Zenon
<1>12. Started'
  BY <1>1, <1>2, <1>7, <1>10, Zenon DEF FilesSafe, Started
<1>18. \A n \in Nat : (n < vs.next => n < vs'.next) /\ (n <= vs.next => n <= vs'.next)
  BY <1>2, <1>6, NumberTypes
<1>19. /\ Newest \in Nat /\ vs.man \in Nat /\ vs.live \cup pinned \cup PendingOutputs \subseteq Nat
       /\ rec.add \subseteq Files /\ Files \subseteq Nat /\ fl \in Nat /\ la.edit.next \in Nat
  BY <1>1, <1>2, NumberTypes, OpenFacts, Zenon DEF FilesSafe
<1>13. NumbersInUse'
  <2>1. PendingOutputs' = PendingOutputs
    BY <1>1, ZenonT(30) DEF PendingOutputs
  <2>2. Newest' <= vs'.next /\ vs'.man < vs'.next
    BY <1>1, <1>2, <1>6, <1>10, <1>18, <1>19, Zenon DEF FilesSafe, NumbersInUse
  <2>3. /\ \A n \in vs'.live \cup pinned' \cup PendingOutputs' : n \in dir'.tables /\ n < vs'.next
        /\ \A n \in vs'.live : tbls'[n].synced
    BY <1>1, <1>2, <1>5, <1>6, <1>18, <1>19, <2>1, Zenon DEF FilesSafe, NumbersInUse
  <2>4. run' = "replay" =>
          \A n \in rec'.add : n < vs'.next /\ tbls'[n].synced /\ \A d \in lag' : n \in d.tables
    BY <1>1, <1>2, <1>11, <1>18, <1>19, Zenon DEF FilesSafe, NumbersInUse
  <2> QED BY <2>2, <2>3, <2>4, Zenon DEF NumbersInUse
<1>14. ManifestFollows'
  BY <1>1, <1>2, <1>5, <1>6, <1>10, OptionsStay, HaltedStays, ZenonT(60) DEF FilesSafe, ManifestFollows, Replacing, Written
<1>15. ApplyingEdit'
  <2>1. la.at # "none" => la.edit.next <= vs'.next
    BY <1>2, <1>18, <1>19, Zenon DEF FilesSafe, ApplyingEdit
  <2>2. la.at # "none" => \A n \in la.edit.add : tbls[n].synced /\ \A e \in lag' : n \in e.tables
    BY <1>2, <1>11, NumberTypes, Zenon DEF FilesSafe, ApplyingEdit
  <2> QED BY <1>1, <1>2, <1>6, <1>10, <2>1, <2>2, ZenonT(60) DEF FilesSafe, ApplyingEdit, Written
<1>16. fl = 0 /\ gc = {}
  BY <1>1, <1>2, Zenon DEF FilesSafe, Started, BuildingTable
<1>17. BuildingTable' /\ CollectingFiles'
  BY <1>1, <1>16, Zenon DEF BuildingTable, CollectingFiles
<1> QED BY <1>8, <1>10, <1>12, <1>13, <1>14, <1>15, <1>17, Zenon DEF FilesSafe

\* A write, an iterator and a failed compaction change no file but the log.
LEMMA FilesQuiet ==
  ASSUME FilesInvariant, Dependable, TypeOK', Handles',
         (\E sync \in SyncOptions : AddRecord(sync)) \/ InsertInto \/ Pin \/ Unpin \/ CompactionFails
  PROVE  FilesSafe'
<1>1. /\ run = "up" /\ run' = run /\ rec' = rec /\ opt' = opt /\ dir' = dir /\ lag' = lag
      /\ mans' = mans /\ manSynced' = manSynced /\ tbls' = tbls /\ la' = la /\ gc = {} /\ gc' = gc
      /\ fl' = fl /\ has_imm' = has_imm /\ imm' = imm
      /\ (bg_error' = bg_error /\ comp' = comp) \/ (bg_error' /\ comp' = NoComp /\ la.at = "none" /\ comp.on)
      /\ pinned' \in {pinned, {}, vs.live} /\ (vs' = vs \/ vs' = [vs EXCEPT !.seq = wr.rec.seq])
  BY Zenon DEF AddRecord, InsertInto, Pin, Unpin, CompactionFails, MutexFree, BgIdle, bgVars, histVars,
         diskVars, memVars
<1>2. TypeOK /\ FilesSafe
  BY Zenon DEF FilesInvariant
<1>3. /\ TornIsLast' /\ ImagesReadable' /\ NextGrows' /\ Newest' = Newest
      /\ \A n : Listed(n)' = Listed(n)
  BY <1>1, <1>2, DiskSame, Zenon DEF FilesSafe
<1>4. vs'.live = vs.live /\ vs'.man = vs.man /\ vs'.next = vs.next /\ vs'.open = vs.open
  BY <1>1, <1>2, TypeFacts, Zenon DEF VersionSets
<1>5. PendingOutputs' \subseteq PendingOutputs
  BY <1>1 DEF PendingOutputs, NoComp
<1>6. Started'
  BY <1>1, <1>2, OptionsStay, Zenon DEF FilesSafe, Started
<1>7. NumbersInUse'
  BY <1>1, <1>2, <1>3, <1>4, <1>5, Zenon DEF FilesSafe, NumbersInUse
<1>8. ManifestFollows'
  <2>1. Halted => Halted'
    BY <1>1, HaltedStays, Zenon DEF Halted
  <2> QED BY <2>1, <1>1, <1>2, <1>4, OptionsStay, Zenon
          DEF FilesSafe, ManifestFollows, Replacing, Written
<1>9. ApplyingEdit'
  BY <1>1, <1>2, <1>3, <1>4, Zenon DEF FilesSafe, ApplyingEdit, Written
<1>10. BuildingTable'
  <2>1. comp'.on => comp.on
    BY <1>1 DEF NoComp
  <2> QED BY <2>1, <1>1, <1>2, <1>3, <1>4, <1>5, OptionsStay, Zenon DEF FilesSafe, BuildingTable
<1>11. CollectingFiles'
  BY <1>1, Zenon DEF CollectingFiles
<1> QED BY <1>3, <1>6, <1>7, <1>8, <1>9, <1>10, <1>11, Zenon DEF FilesSafe

\* The sync of a log leaves one disk of those a crash of the machine might have left.
LEMMA FilesSyncLog ==
  ASSUME FilesInvariant, Dependable, TypeOK', SyncLog
  PROVE  FilesSafe'
<1>1. /\ wr.at = "logged" /\ wr'.at # "logged" /\ lag' = SyncFile(dir) /\ dir' = dir /\ opt' = opt
      /\ mans' = mans /\ manSynced' = manSynced /\ tbls' = tbls /\ la' = la /\ gc' = gc
      /\ pinned' = pinned /\ fl' = fl /\ has_imm' = has_imm /\ imm' = imm /\ comp' = comp
      /\ bg_error' = bg_error /\ vs' = vs /\ run' = run /\ rec' = rec
  <2>1. wr \in WritesInProgress
    BY Zenon DEF FilesInvariant, TypeOK, TypeWrite
  <2> QED BY <2>1, Zenon DEF SyncLog, bgVars, histVars, memVars, WritesInProgress
<1>2. TypeOK /\ FilesSafe
  BY Zenon DEF FilesInvariant
<1>3. run = "up"
  BY <1>1, <1>2, Zenon DEF FilesSafe, Started
<1>4. /\ dir \in lag
      /\ \A d \in lag : /\ d.current # 0 /\ d.current \in Files /\ d.current \in d.mans
                        /\ \A n \in Listed(d.current) : n \in d.tables /\ tbls[n].synced
  BY <1>3, OpenFacts, Zenon
<1>5. lag' = {dir} /\ lag' \subseteq lag
  BY <1>1, <1>4, SyncedDir
<1>6. TornIsLast'
  BY <1>1, <1>2, TornFrame, Zenon DEF FilesSafe
<1>7. \A d \in lag : manSynced[d.current] <= manSynced'[d.current]
  BY <1>1, <1>2, <1>4, TypeFacts
<1>8. /\ ImagesReadable' /\ NextGrows' /\ Newest' = Newest
      /\ \A e \in lag' : e.current # 0 /\ Listed(e.current)' \subseteq Listed(e.current)
  BY <1>1, <1>3, <1>4, <1>5, <1>6, <1>7, DiskFrame, Zenon
<1>9. PendingOutputs' = PendingOutputs
  BY <1>1, Zenon DEF PendingOutputs
<1>10. Started'
  BY <1>1, <1>2, <1>3, <1>5, <1>8, Zenon DEF FilesSafe, Started
<1>11. NumbersInUse'
  BY <1>1, <1>2, <1>5, <1>8, <1>9, Zenon DEF FilesSafe, NumbersInUse
<1>12. ManifestFollows'
  BY <1>1, <1>2, <1>5, OptionsStay, HaltedStays, Zenon DEF FilesSafe, ManifestFollows, Replacing, Written
<1>13. ApplyingEdit'
  BY <1>1, <1>2, <1>5, <1>8, Zenon DEF FilesSafe, ApplyingEdit, Written
<1>14. BuildingTable'
  BY <1>1, <1>2, <1>5, <1>8, <1>9, OptionsStay, Zenon DEF FilesSafe, BuildingTable
<1>15. CollectingFiles'
  BY <1>1, <1>2, <1>9, OptionsStay, Zenon DEF FilesSafe, CollectingFiles
<1> QED BY <1>6, <1>8, <1>10, <1>11, <1>12, <1>13, <1>14, <1>15, Zenon DEF FilesSafe

-----------------------------------------------------------------------------
(* The background thread.                                                  *)

\* A new table takes a number that no version and no MANIFEST has.
LEMMA FilesCreateTable ==
  ASSUME FilesInvariant, Dependable, TypeOK',
         StartFlush \/ \E inputs \in SUBSET vs.live : StartCompaction(inputs)
  PROVE  FilesSafe'
<1>1. /\ run = "up" /\ run' = run /\ opt' = opt /\ rec' = rec /\ mans' = mans
      /\ manSynced' = manSynced /\ la.at = "none" /\ la' = la /\ pinned' = pinned /\ gc = {}
      /\ gc' = gc /\ bg_error' = bg_error /\ wr' = wr /\ has_imm' = has_imm /\ imm' = imm
      /\ vs' = [vs EXCEPT !.next = @ + 1]
      /\ \/ imm = {} /\ UNCHANGED <<dir, lag, tbls>>
         \/ CreateTable(vs.next)
      /\ \/ /\ fl' = vs.next /\ has_imm /\ comp' = comp /\ (imm # {} => CreateTable(vs.next))
            /\ comp.on => NestedFlush
         \/ fl' = 0 /\ comp'.num = vs.next /\ CreateTable(vs.next)
      /\ bg_error => comp.on
  <2>1. CASE StartFlush
    <3>1. \/ imm = {} /\ vs' = [vs EXCEPT !.next = @ + 1] /\ UNCHANGED <<dir, lag, tbls>>
          \/ imm # {} /\ CreateTable(vs.next) /\ vs' = [vs EXCEPT !.next = @ + 1]
      BY <2>1, Zenon DEF StartFlush, CreateTable
    <3> QED BY <2>1, <3>1, Zenon DEF StartFlush, MutexFree, BgIdle, histVars, memVars
  <2>2. CASE \E inputs \in SUBSET vs.live : StartCompaction(inputs)
    <3>1. PICK inputs : StartCompaction(inputs)
      BY <2>2, Zenon
    <3>2. comp'.num = vs.next /\ CreateTable(vs.next) /\ vs' = [vs EXCEPT !.next = @ + 1]
      BY <3>1, Zenon DEF StartCompaction, CreateTable
    <3> QED BY <3>1, <3>2, Zenon DEF StartCompaction, MutexFree, BgIdle, histVars, memVars
  <2> QED BY <2>1, <2>2, Zenon
<1>2. /\ TypeOK /\ FilesSafe /\ dir \in lag /\ vs.next \in Nat
      /\ \A d \in lag : /\ d.current # 0 /\ d.current \in Files /\ d.current \in d.mans
                        /\ \A n \in Listed(d.current) :
                             n \in d.tables /\ tbls[n].synced /\ n < vs.next
  BY <1>1, OpenFacts, Zenon
<1>3. dir \in Dirs /\ vs \in VersionSets /\ tbls \in [Files -> Tables]
  BY <1>2, TypeFacts, Zenon DEF TypeDir, TypeOK, TypeTables
<1>4. vs'.next = vs.next + 1 /\ vs'.live = vs.live /\ vs'.man = vs.man /\ vs'.open = vs.open
  BY <1>1, <1>3, Zenon DEF VersionSets
<1>5. /\ dir'.current = dir.current /\ dir'.mans = dir.mans /\ dir.tables \subseteq dir'.tables
      /\ CreateTable(vs.next) => vs.next \in dir'.tables
      /\ \A n \in Files : n # vs.next => tbls'[n] = tbls[n]
      /\ lag' \subseteq lag \cup {dir'} /\ (~MachineCrashes' => lag' = {dir'})
  <2>1. CASE imm = {} /\ UNCHANGED <<dir, lag, tbls>> /\ ~CreateTable(vs.next)
    BY <2>1, <1>1, <1>2, OptionsStay, Zenon DEF FilesSafe, Started
  <2>2. CASE CreateTable(vs.next)
    <3>1. ChangeDir([dir EXCEPT !.tables = @ \cup {vs.next}])
      BY <2>2, Zenon DEF CreateTable
    <3>2. \A n \in Files : n # vs.next => tbls'[n] = tbls[n]
      BY <2>2, <1>3, Zenon DEF CreateTable
    <3>3. dir' = [dir EXCEPT !.tables = @ \cup {vs.next}]
      BY <3>1, <1>1, ChangedDir, Zenon
    <3>4. /\ dir'.current = dir.current /\ dir'.mans = dir.mans
          /\ dir'.tables = dir.tables \cup {vs.next}
      BY <3>3, <1>3, Zenon DEF Dirs
    <3> QED BY <3>1, <3>2, <3>4, <1>1, ChangedDir, Zenon
  <2> QED BY <2>1, <2>2, <1>1, Zenon
<1>6. \A n \in Files : n < vs.next => tbls'[n] = tbls[n]
  BY <1>2, <1>5, NumberTypes
<1>7. \A d \in lag : \A n \in Listed(d.current) : tbls'[n].synced
  BY <1>2, <1>6, Zenon DEF Listed
<1>8. TornIsLast'
  BY <1>1, <1>2, TornFrame, Zenon DEF FilesSafe
<1>9. \A d \in lag : manSynced[d.current] <= manSynced'[d.current]
  BY <1>1, <1>2, TypeFacts
<1>10. /\ ImagesReadable' /\ NextGrows' /\ Newest' = Newest
       /\ \A e \in lag' : /\ e.current # 0 /\ \E d \in lag : e.current = d.current
                          /\ Listed(e.current)' \subseteq Listed(e.current)
  BY <1>1, <1>2, <1>5, <1>7, <1>8, <1>9, DiskFrame, Zenon
<1>11. Started'
  BY <1>1, <1>2, <1>5, <1>10, Zenon DEF FilesSafe, Started
<1>12. /\ \A n \in vs.live \cup pinned \cup PendingOutputs : n \in dir.tables /\ n < vs.next
       /\ \A n \in vs.live : tbls[n].synced
       /\ Newest \in Nat /\ Newest <= vs.next /\ vs.man < vs.next
  BY <1>1, <1>2, OpenFacts, Zenon DEF FilesSafe, NumbersInUse
<1>13. \A n \in PendingOutputs' : n \in PendingOutputs \/ (n = vs.next /\ n \in dir'.tables)
  BY <1>1, <1>5, Zenon DEF PendingOutputs
<1>14. NumbersInUse'
  <2>1. Newest' <= vs'.next /\ vs'.man < vs'.next
    BY <1>2, <1>4, <1>10, <1>12, NumberTypes
  <2>2. \A n \in vs'.live \cup pinned' \cup PendingOutputs' : n \in dir'.tables /\ n < vs'.next
    BY <1>1, <1>2, <1>4, <1>5, <1>12, <1>13, NumberTypes
  <2>3. \A n \in vs'.live : tbls'[n].synced
    BY <1>2, <1>4, <1>6, <1>12, NumberTypes, Zenon
  <2> QED BY <1>1, <2>1, <2>2, <2>3, Zenon DEF NumbersInUse
<1>15. ManifestFollows'
  <2>1. ~Halted
    BY <1>1, Zenon DEF Halted
  <2> QED BY <2>1, <1>1, <1>2, <1>4, <1>5, <1>10, OptionsStay, Zenon
          DEF FilesSafe, ManifestFollows, Replacing, Written
<1>16. ApplyingEdit' /\ CollectingFiles'
  BY <1>1, Zenon DEF ApplyingEdit, CollectingFiles
<1>17. BuildingTable'
  <2>1. CASE fl' = 0
    BY <2>1, Zenon DEF BuildingTable
  <2>2. CASE /\ fl' = vs.next /\ has_imm /\ comp' = comp /\ (imm # {} => CreateTable(vs.next))
             /\ comp.on => NestedFlush
    <3>1. PendingOutputs' = PendingOutputs
      BY <2>2, Zenon DEF PendingOutputs
    <3>2. fl' \notin vs'.live \cup pinned' \cup PendingOutputs'
      <4>1. \A n \in vs.live \cup pinned \cup PendingOutputs : n # vs.next
        <5>1. vs.next \in Nat
          BY <1>2, Zenon
        <5>2. \A n \in Nat : n < vs.next => n # vs.next
          BY ONLY <5>1
        <5> QED BY <5>2, <1>2, <1>12, NumberTypes, Zenon
      <4> QED BY <2>2, <3>1, <1>1, <1>4, <4>1, Zenon
    <3>3. \A e \in lag' : fl' \notin Listed(e.current)'
      BY <2>2, <1>2, <1>10
    <3>4. fl' < vs'.next /\ (imm' # {} => fl' \in dir'.tables)
      BY <2>2, <1>1, <1>2, <1>4, <1>5
    <3> QED BY <2>2, <3>2, <3>3, <3>4, <1>1, OptionsStay, Zenon DEF BuildingTable
  <2> QED BY <2>1, <2>2, <1>1, Zenon
<1> QED BY <1>8, <1>10, <1>11, <1>14, <1>15, <1>16, <1>17, Zenon DEF FilesSafe

\* BuildTable gives LogAndApply a table that is synced, with its name.
LEMMA FilesFinishTable ==
  ASSUME FilesInvariant, Dependable, TypeOK', FinishFlush \/ FinishCompaction
  PROVE  FilesSafe'
<1> DEFINE add == la'.edit.add
           num == IF la'.for = "flush" THEN fl ELSE comp.num
<1>1. /\ run = "up" /\ run' = run /\ opt' = opt /\ rec' = rec /\ mans' = mans /\ dir' = dir
      /\ manSynced' = manSynced /\ la.at = "none" /\ pinned' = pinned /\ gc = {} /\ gc' = gc
      /\ bg_error' = bg_error /\ wr' = wr /\ has_imm' = has_imm /\ imm' = imm /\ vs' = vs
      /\ fl' = fl /\ comp' = comp /\ (fl # 0 \/ comp.on)
  BY Zenon DEF FinishFlush, FinishCompaction, MutexFree, BgIdle, bgVars, histVars, memVars
<1>2. /\ TypeOK /\ FilesSafe /\ dir \in lag /\ vs.next \in Nat /\ vs.open
      /\ Newest \in Nat /\ Newest <= vs.next /\ vs.man < vs.next
      /\ \A d \in lag : /\ d.current # 0 /\ d.current \in Files /\ d.current \in d.mans
                        /\ \A n \in Listed(d.current) : n \in d.tables /\ tbls[n].synced
  BY <1>1, OpenFacts, Zenon DEF Handles
<1>3. tbls \in [Files -> Tables]
  BY <1>2, Zenon DEF TypeOK, TypeTables
<1>4. /\ la'.at = "add" /\ ~la'.new /\ la'.edit.meta /\ la'.edit.next = vs.next
      /\ la'.for # "open" /\ (la'.for = "flush" <=> fl # 0)
      /\ add \subseteq {num} /\ (add # {} => lag' = SyncFile(dir))
      /\ lag' \in {lag, SyncFile(dir)}
      /\ \/ add = {} /\ tbls' = tbls
         \/ \E t : t.synced /\ tbls' = [tbls EXCEPT ![num] = t]
      /\ num \in Files
      /\ num \in add => num \in dir.tables /\ num < vs.next
  <2>1. CASE FinishFlush
    <3>1. fl # 0 /\ la' = [at |-> "add", for |-> "flush", new |-> FALSE, edit |-> FlushEdit]
      BY <2>1, Zenon DEF FinishFlush
    <3>2. /\ FlushEdit.meta /\ FlushEdit.next = vs.next
          /\ FlushEdit.add = IF imm = {} THEN {} ELSE {fl}
      BY Zenon DEF FlushEdit, LoggedEdit
    <3>3. fl < vs.next /\ (imm # {} => fl \in dir.tables)
      BY <3>1, <1>1, <1>2, Zenon DEF FilesSafe, BuildingTable
    <3>4. \/ imm = {} /\ tbls' = tbls /\ lag' = lag
          \/ /\ imm # {} /\ lag' = SyncFile(dir)
             /\ tbls' = [tbls EXCEPT ![fl] = [recs |-> imm, synced |-> TRUE]]
      BY <2>1, Zenon DEF FinishFlush
    <3>5. [recs |-> imm, synced |-> TRUE].synced
      OBVIOUS
    <3>6. fl \in Files
      BY <3>1, <1>2, Zenon DEF TypeOK, TypeBg
    <3> QED BY <3>1, <3>2, <3>3, <3>4, <3>5, <3>6, Zenon
  <2>2. CASE FinishCompaction
    <3> DEFINE t == [recs |-> UNION {tbls[n].recs : n \in comp.inputs}, synced |-> TRUE]
    <3>1. /\ fl = 0 /\ comp.on /\ lag' = SyncFile(dir) /\ tbls' = [tbls EXCEPT ![comp.num] = t]
          /\ la' = [at |-> "add", for |-> "comp", new |-> FALSE, edit |-> CompactionEdit]
      BY <2>2, Zenon DEF FinishCompaction, BgIdle
    <3>2. /\ CompactionEdit.meta /\ CompactionEdit.next = vs.next
          /\ CompactionEdit.add = {comp.num}
      BY Zenon DEF CompactionEdit, LoggedEdit
    <3>3. comp.num < vs.next /\ comp.num \in dir.tables /\ comp.num \in Files
      BY <3>1, <1>1, <1>2, TypeFacts, Zenon DEF FilesSafe, NumbersInUse, PendingOutputs
    <3>4. t.synced
      OBVIOUS
    <3> HIDE DEF t
    <3> QED BY <3>1, <3>2, <3>3, <3>4, Zenon
  <2> QED BY <2>1, <2>2, Zenon
<1> HIDE DEF num, add
<1>5. \A n \in Files : (tbls[n].synced => tbls'[n].synced) /\ (n \in add => tbls'[n].synced)
  BY <1>3, <1>4, Zenon
<1>6. /\ lag' \subseteq lag /\ dir \in lag' /\ (~MachineCrashes' => lag' = {dir})
      /\ add # {} => lag' = {dir}
  BY <1>1, <1>2, <1>4, SyncedDir, OptionsStay DEF FilesSafe, Started
<1>7. add \subseteq Files /\ \A n \in add : n < vs.next /\ n \in dir.tables
  BY <1>4, Zenon
<1>8. TornIsLast'
  BY <1>1, <1>2, TornFrame, Zenon DEF FilesSafe
<1>9. \A d \in lag : manSynced[d.current] <= manSynced'[d.current]
  BY <1>1, <1>2, TypeFacts
<1>10. /\ ImagesReadable' /\ NextGrows' /\ Newest' = Newest
       /\ \A e \in lag' : e.current # 0
  <2>1. \A d \in lag : \A n \in Listed(d.current) : tbls'[n].synced
    BY <1>2, <1>5, Zenon DEF Listed
  <2> QED BY <1>1, <1>2, <1>6, <1>8, <1>9, <2>1, DiskFrame, Zenon
<1>11. Started'
  BY <1>1, <1>2, <1>6, <1>10, Zenon DEF FilesSafe, Started
<1>12. NumbersInUse'
  <2>1. PendingOutputs' = PendingOutputs
    BY <1>1, Zenon DEF PendingOutputs
  <2> QED BY <1>1, <1>2, <1>5, <1>10, <2>1, NumberTypes, Zenon DEF FilesSafe, NumbersInUse
<1>13. ManifestFollows'
  <2>1. ~Halted
    BY <1>1, Zenon DEF Halted
  <2> QED BY <2>1, <1>1, <1>2, <1>4, OptionsStay, ZenonT(60)
          DEF FilesSafe, ManifestFollows, Replacing, Written
<1>14. ApplyingEdit'
  <2>1. \A n \in vs.live : n < vs.next
    BY <1>1, <1>2, Zenon DEF FilesSafe, NumbersInUse
  <2>2. \A n \in la'.edit.add : tbls'[n].synced /\ \A e \in lag' : n \in e.tables
    BY <1>5, <1>6, <1>7, Zenon DEF add
  <2>3. \A n \in vs'.live \cup la'.edit.add : n < la'.edit.next
    BY <2>1, <1>1, <1>4, <1>7, Zenon DEF add
  <2> QED BY <1>1, <1>2, <1>4, <1>10, <2>2, <2>3 DEF ApplyingEdit, Written
<1>15. BuildingTable' /\ CollectingFiles'
  BY <1>1, <1>2, <1>4, OptionsStay, Zenon DEF FilesSafe, BuildingTable, CollectingFiles
<1> QED BY <1>8, <1>10, <1>11, <1>12, <1>13, <1>14, <1>15, Zenon DEF FilesSafe

\* BuildTable removes a table of which no MANIFEST knows.
LEMMA FilesFlushFails ==
  ASSUME FilesInvariant, Dependable, TypeOK', FlushFails
  PROVE  FilesSafe'
<1>1. /\ run = "up" /\ run' = run /\ opt' = opt /\ rec' = rec /\ mans' = mans
      /\ manSynced' = manSynced /\ la.at = "none" /\ la' = la /\ pinned' = pinned /\ gc = {}
      /\ gc' = gc /\ bg_error' /\ wr' = wr /\ vs' = vs /\ fl # 0 /\ fl' = 0 /\ comp' = comp
      /\ tbls' = tbls /\ ChangeDir([dir EXCEPT !.tables = @ \ {fl}])
  BY Zenon DEF FlushFails, MutexFree, histVars, memVars
<1>2. /\ TypeOK /\ FilesSafe /\ dir \in lag
      /\ \A d \in lag : /\ d.current # 0 /\ d.current \in Files /\ d.current \in d.mans
                        /\ \A n \in Listed(d.current) : n \in d.tables /\ tbls[n].synced
  BY <1>1, OpenFacts, Zenon
<1>3. dir \in Dirs
  BY <1>2, Zenon DEF TypeOK, TypeDir
<1>4. /\ dir'.current = dir.current /\ dir'.mans = dir.mans /\ dir'.tables = dir.tables \ {fl}
      /\ lag' \subseteq lag \cup {dir'} /\ (~MachineCrashes' => lag' = {dir'})
  BY <1>1, <1>3, ChangedDir DEF Dirs
<1>5. /\ fl \notin vs.live \cup pinned \cup PendingOutputs
      /\ \A d \in lag : fl \notin Listed(d.current)
  BY <1>1, <1>2, Zenon DEF FilesSafe, BuildingTable
<1>6. TornIsLast'
  BY <1>1, <1>2, TornFrame, Zenon DEF FilesSafe
<1>7. \A d \in lag : manSynced[d.current] <= manSynced'[d.current]
  BY <1>1, <1>2, TypeFacts
<1>8. /\ ImagesReadable' /\ NextGrows' /\ Newest' = Newest
      /\ \A e \in lag' : e.current # 0 /\ \E d \in lag : e.current = d.current
  BY <1>1, <1>2, <1>4, <1>5, <1>6, <1>7, DiskFrame, Zenon
<1>9. Started'
  BY <1>1, <1>2, <1>4, <1>8, Zenon DEF FilesSafe, Started
<1>10. NumbersInUse'
  <2>1. PendingOutputs' = PendingOutputs
    BY <1>1, Zenon DEF PendingOutputs
  <2> QED BY <1>1, <1>2, <1>4, <1>5, <1>8, <2>1, Zenon DEF FilesSafe, NumbersInUse
<1>11. ManifestFollows'
  <2>1. ~Halted
    BY <1>1, Zenon DEF Halted
  <2> QED BY <2>1, <1>1, <1>2, <1>4, <1>8, OptionsStay, Zenon
          DEF FilesSafe, ManifestFollows, Replacing, Written
<1>12. ApplyingEdit' /\ BuildingTable' /\ CollectingFiles'
  BY <1>1, Zenon DEF ApplyingEdit, BuildingTable, CollectingFiles
<1> QED BY <1>6, <1>8, <1>9, <1>10, <1>11, <1>12, Zenon DEF FilesSafe

\* DeleteObsoleteFiles removes no file that a crash would ask for.
LEMMA FilesUnlink ==
  ASSUME FilesInvariant, Dependable, TypeOK', NEW f \in gc, Unlink(f)
  PROVE  FilesSafe'
<1>1. TypeOK /\ FilesSafe /\ Handles
  BY Zenon DEF FilesInvariant
<1>2. /\ run' = run /\ opt' = opt /\ rec' = rec /\ mans' = mans
      /\ manSynced' = manSynced /\ la' = la /\ pinned' = pinned /\ gc' \subseteq gc
      /\ bg_error' = bg_error /\ wr' = wr /\ vs' = vs /\ fl' = fl /\ comp' = comp /\ tbls' = tbls
      /\ has_imm' = has_imm /\ imm' = imm
  BY Zenon DEF Unlink, histVars, memVars, bgVars
<1>3. la.at = "none" /\ ~bg_error /\ fl = 0 /\ run = "up" /\ vs.open
  BY <1>1, Zenon DEF FilesSafe, CollectingFiles, Started, Handles
<1>4. /\ dir \in lag
      /\ \A d \in lag : /\ d.current # 0 /\ d.current \in Files /\ d.current \in d.mans
                        /\ \A n \in Listed(d.current) : n \in d.tables /\ tbls[n].synced
  BY <1>3, OpenFacts, Zenon
<1>5. dir.current = vs.man /\ LiveAt(mans[vs.man], Len(mans[vs.man])) = vs.live
  BY <1>1, <1>3, Zenon DEF FilesSafe, ManifestFollows, Replacing, Written
<1>6. Listed(dir.current) = vs.live
  <2>1. ~MachineCrashes \/ manSynced[vs.man] = Len(mans[vs.man])
    BY <1>1, Zenon DEF FilesSafe, CollectingFiles
  <2> QED BY <2>1, <1>3, <1>5, OpenManifest, Zenon DEF Halted
<1>7. /\ dir'.current = dir.current /\ vs.man \in dir'.mans
      /\ \A n \in vs.live \cup pinned \cup PendingOutputs : n \in dir.tables => n \in dir'.tables
      /\ lag' \subseteq lag \cup {dir'} /\ (~MachineCrashes' => lag' = {dir'})
  <2>1. PICK k \in {"log", "man", "table"}, n \in Files : f = <<k, n>>
    BY <1>1 DEF TypeOK, TypeBg
  <2>2. f[1] = k /\ f[2] = n
    BY <2>1, Zenon
  <2>3. dir \in Dirs /\ vs.man \in dir.mans
    BY <1>1, <1>4, <1>5, Zenon DEF TypeOK, TypeDir
  <2>4. CASE k = "log"
    <3>1. ChangeDir([dir EXCEPT !.logs = @ \ {n}])
      BY <2>2, <2>4, Zenon DEF Unlink
    <3> QED BY <3>1, <2>3, <1>2, ChangedDir DEF Dirs
  <2>5. CASE k = "man"
    <3>1. ChangeDir([dir EXCEPT !.mans = @ \ {n}])
      BY <2>2, <2>5, Zenon DEF Unlink
    <3>2. n # vs.man
      BY <2>1, <2>5, <1>1, Zenon DEF FilesSafe, CollectingFiles
    <3> QED BY <3>1, <3>2, <2>3, <1>2, ChangedDir DEF Dirs
  <2>6. CASE k = "table"
    <3>1. ChangeDir([dir EXCEPT !.tables = @ \ {n}])
      BY <2>2, <2>6, Zenon DEF Unlink
    <3>2. n \notin vs.live \cup pinned \cup PendingOutputs
      BY <2>1, <2>6, <1>1, Zenon DEF FilesSafe, CollectingFiles
    <3> QED BY <3>1, <3>2, <2>3, <1>2, ChangedDir DEF Dirs
  <2> QED BY <2>1, <2>4, <2>5, <2>6, Zenon
<1>8. TornIsLast'
  BY <1>1, <1>2, TornFrame, Zenon DEF FilesSafe
<1>9. \A d \in lag : manSynced[d.current] <= manSynced'[d.current]
  BY <1>1, <1>2, <1>4, TypeFacts
<1>10. /\ ImagesReadable' /\ NextGrows' /\ Newest' = Newest
       /\ \A e \in lag' : e.current # 0
  BY <1>2, <1>3, <1>4, <1>5, <1>6, <1>7, <1>8, <1>9, DiskFrame, Zenon
<1>11. PendingOutputs' = PendingOutputs
  BY <1>2, Zenon DEF PendingOutputs
<1>12. Started'
  BY <1>1, <1>2, <1>3, <1>7, <1>10, Zenon DEF FilesSafe, Started
<1>13. NumbersInUse'
  BY <1>1, <1>2, <1>3, <1>7, <1>10, <1>11, Zenon DEF FilesSafe, NumbersInUse
<1>14. ManifestFollows'
  BY <1>1, <1>2, <1>3, <1>7, OptionsStay, HaltedStays, Zenon DEF FilesSafe, ManifestFollows, Replacing, Written
<1>15. ApplyingEdit' /\ BuildingTable'
  BY <1>2, <1>3, Zenon DEF ApplyingEdit, BuildingTable
<1>16. CollectingFiles'
  BY <1>1, <1>2, <1>11, OptionsStay, Zenon DEF FilesSafe, CollectingFiles
<1> QED BY <1>8, <1>10, <1>12, <1>13, <1>14, <1>15, <1>16, Zenon DEF FilesSafe

=============================================================================
