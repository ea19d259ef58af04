------------------------- MODULE DurabilityProofs ---------------------------
(***************************************************************************)
(* What recovery reads, for which the least and the greatest of a set of   *)
(* numbers must exist, and the theorems about the files.                   *)
(***************************************************************************)
EXTENDS DurabilityFilesProofs, WellFoundedInduction

\* Every nonempty set of naturals has a least element, which Min returns.
LEMMA LeastExists ==
  ASSUME NEW S \in SUBSET Nat, S # {}
  PROVE  Min(S) \in S /\ \A x \in S : Min(S) <= x
<1>1. \E x \in S : \A y \in S : ~(<<y, x>> \in OpToRel(<, Nat))
  BY NatLessThanWellFounded, WFMin, Zenon
<1>2. PICK x \in S : \A y \in S : ~(<<y, x>> \in OpToRel(<, Nat))
  BY <1>1, Zenon
<1>3. \A y \in S : ~(y < x)
  BY <1>2, Zenon DEF OpToRel
<1>4. \A y \in S : x <= y
  BY <1>3
<1> QED BY <1>4, Zenon DEF Min

\* Every nonempty bounded set of naturals has a greatest element, which Max returns.
LEMMA GreatestExists ==
  ASSUME NEW b \in Nat, NEW S \in SUBSET (0..b), S # {}
  PROVE  Max(S) \in S /\ \A x \in S : Max(S) >= x
<1> DEFINE U == {u \in Nat : \A x \in S : u >= x}
<1>1. U \in SUBSET Nat /\ b \in U
  OBVIOUS
<1>2. Min(U) \in U /\ \A u \in U : Min(U) <= u
  BY <1>1, LeastExists, Zenon
<1>3. Min(U) \in S
  <2>1. SUFFICES ASSUME Min(U) \notin S PROVE FALSE
    BY Zenon
  <2>2. PICK x \in S : TRUE
    BY Zenon
  <2>3. Min(U) # 0
    BY <2>1, <2>2, <1>2
  <2>4. Min(U) - 1 \in U
    BY <2>1, <2>3, <1>2
  <2> QED BY <2>4, <1>2
<1>4. \E x \in S : \A y \in S : x >= y
  BY <1>2, <1>3, Zenon
<1> QED BY <1>4, Zenon DEF Max

\* log::Reader returns the records before the first incomplete one.
LEMMA IntactIsPrefix ==
  ASSUME NEW E, NEW s \in Seq(E \cup {Torn})
  PROVE  /\ Intact(s) \in Seq(E)
         /\ Len(Intact(s)) <= Len(s)
         /\ \A i \in 1..Len(Intact(s)) : Intact(s)[i] = s[i]
<1> DEFINE bad == {i \in DOMAIN s : s[i] = Torn}
<1>1. DOMAIN s = 1..Len(s) /\ Len(s) \in Nat /\ \A i \in 1..Len(s) : s[i] \in E \cup {Torn}
  BY SeqFacts, Zenon
<1>2. CASE bad = {}
  <2>1. \A i \in 1..Len(s) : s[i] \in E
    BY <1>1, <1>2, Zenon
  <2>2. s \in Seq(E)
    BY <2>1, SeqOf, Zenon
  <2>4. Intact(s) = s
    BY <1>2, Zenon DEF Intact
  <2> QED BY <2>2, <2>4, <1>1
<1>3. CASE bad # {}
  <2>1. bad \in SUBSET Nat
    BY <1>1
  <2>2. Min(bad) \in bad /\ \A i \in bad : Min(bad) <= i
    BY <2>1, <1>3, LeastExists, Zenon
  <2>3. \A i \in 1..Min(bad) - 1 : s[i] \in E
    <3> HIDE DEF bad
    <3> SUFFICES ASSUME NEW i \in 1..Min(bad) - 1 PROVE s[i] \in E
      OBVIOUS
    <3>1. Min(bad) \in 1..Len(s)
      BY <2>2, <1>1, Zenon DEF bad
    <3>2. i \in 1..Len(s) /\ i \notin bad
      BY <2>2, <3>1
    <3> QED BY <3>2, <1>1, Zenon DEF bad
  <2>4. Min(bad) \in 1..Len(s)
    BY <2>2, <1>1, Zenon
  <2>5. Intact(s) = SubSeq(s, 1, Min(bad) - 1)
    BY <1>3, Zenon DEF Intact
  <2> HIDE DEF bad
  <2>6. /\ SubSeq(s, 1, Min(bad) - 1) \in Seq(E)
        /\ Len(SubSeq(s, 1, Min(bad) - 1)) = Min(bad) - 1
        /\ \A i \in 1..Min(bad) - 1 : SubSeq(s, 1, Min(bad) - 1)[i] = s[i]
    <3>1. Min(bad) - 1 \in 0..Len(s)
      BY <2>4, <1>1
    <3> QED BY <3>1, <2>3, PrefixFacts
  <2> QED BY <2>4, <2>5, <2>6, <1>1
<1> QED BY <1>2, <1>3, Zenon

\* The last edit with the numbers is one of the edits, and the later ones have none.
LEMMA LastMetaIsLast ==
  ASSUME NEW es \in Seq(Edits), \E i \in DOMAIN es : es[i].meta
  PROVE  \E i \in 1..Len(es) : /\ LastMeta(es) = es[i] /\ es[i] \in Edits /\ es[i].meta
                               /\ \A k \in 1..Len(es) : es[k].meta => k <= i
<1> DEFINE M == {i \in DOMAIN es : es[i].meta}
<1>1. DOMAIN es = 1..Len(es) /\ Len(es) \in Nat /\ \A i \in 1..Len(es) : es[i] \in Edits
  BY SeqFacts, Zenon
<1>2. M \in SUBSET (0..Len(es)) /\ M # {}
  BY <1>1
<1>3. Max(M) \in M /\ \A i \in M : Max(M) >= i
  BY <1>1, <1>2, GreatestExists, Zenon
<1>4. Max(M) \in 1..Len(es) /\ es[Max(M)].meta
  BY <1>1, <1>3, Zenon
<1>5. \A k \in 1..Len(es) : es[k].meta => k <= Max(M)
  BY <1>1, <1>3, <1>4, Zenon
<1>6. LastMeta(es) = es[Max(M)]
  BY Zenon DEF LastMeta
<1> QED BY <1>1, <1>4, <1>5, <1>6, Zenon

\* The tables that RecoverLogFile writes: as many as the records fill, numbered from
\* next_file_number_.
LEMMA ChunksCount ==
  ASSUME NEW s, Len(s) \in Nat, MemRecords \in Nat
  PROVE  Chunks(s) \in Nat
  BY DEF Chunks

\* MaxSeq of a log is a sequence number that was issued.
LEMMA MaxSeqIsIssued ==
  ASSUME writes \in Nat, NEW s \in Seq(Issued)
  PROVE  MaxSeq(s) \in 0..writes /\ \A i \in 1..Len(s) : s[i].seq <= MaxSeq(s)
<1> DEFINE M == {0} \cup {s[i].seq : i \in DOMAIN s}
<1>1. DOMAIN s = 1..Len(s) /\ \A i \in 1..Len(s) : s[i] \in Issued
  BY SeqFacts, Zenon
<1>2. \A i \in 1..Len(s) : s[i].seq \in 0..writes
  BY <1>1, Zenon DEF Issued
<1>3. M \in SUBSET (0..writes) /\ M # {}
  BY <1>1, <1>2
<1>4. Max(M) \in M /\ \A i \in M : Max(M) >= i
  BY <1>3, GreatestExists, Zenon
<1>5. MaxSeq(s) = Max(M)
  BY Zenon DEF MaxSeq
<1> HIDE DEF M
<1>6. Max(M) \in 0..writes
  BY <1>3, <1>4, Zenon
<1>7. \A i \in 1..Len(s) : s[i].seq \in M
  BY <1>1, Zenon DEF M
<1> QED BY <1>2, <1>4, <1>5, <1>6, <1>7, Zenon

\* What RecoverLogFile reads of the oldest log, and the tables it makes of it.
LEMMA ReplayFacts ==
  ASSUME TypeOK, rec.todo # {}
  PROVE  LET n == Min(rec.todo)
             s == Intact(logs[n])
             made == IF ReusesLog(n, s) THEN 0 ELSE Chunks(s)
             new == vs.next .. vs.next + made - 1
         IN  /\ n \in rec.todo /\ n \in Files /\ (\A m \in rec.todo : n <= m)
             /\ s \in Seq(Issued) /\ Len(s) \in Nat /\ DOMAIN s = 1..Len(s)
             /\ \A i \in 1..Len(s) : s[i] \in Issued
             /\ MaxSeq(s) \in 0..writes
             /\ made \in Nat
             /\ \A f \in new : vs.next <= f /\ f < vs.next + made
<1> DEFINE n == Min(rec.todo)
           s == Intact(logs[n])
           made == IF ReusesLog(n, s) THEN 0 ELSE Chunks(s)
           new == vs.next .. vs.next + made - 1
<1>1. n \in rec.todo /\ n \in Files /\ \A m \in rec.todo : n <= m
  <2>1. rec.todo \in SUBSET Nat /\ rec.todo \subseteq Files
    BY TypeFacts, Zenon DEF Recoveries
  <2> QED BY <2>1, LeastExists, Zenon
<1>2. s \in Seq(Issued)
  <2>1. logs[n] \in Seq(Issued \cup {Torn})
    BY <1>1, TypeFacts, Zenon
  <2> QED BY <2>1, IntactIsPrefix, Zenon
<1>3. Len(s) \in Nat /\ DOMAIN s = 1..Len(s) /\ \A i \in 1..Len(s) : s[i] \in Issued
  BY <1>2, SeqFacts, Zenon
<1>4. MaxSeq(s) \in 0..writes
  <2> HIDE DEF s
  <2>1. writes \in Nat
    BY TypeFacts, Zenon
  <2> QED BY <1>2, <2>1, MaxSeqIsIssued, Zenon
<1>5. Chunks(s) \in Nat /\ vs.next \in Nat
  <2> HIDE DEF s
  <2>1. vs.next \in Nat /\ MemRecords \in Nat
    BY TypeFacts, Zenon DEF VersionSets
  <2> QED BY <1>3, <2>1, ChunksCount, Zenon
<1>6. made \in Nat
  BY <1>5, Zenon
<1>7. \A f \in new : vs.next <= f /\ f < vs.next + made
  <2> HIDE DEF made
  <2> QED BY <1>5, <1>6
<1> QED BY <1>1, <1>2, <1>3, <1>4, <1>6, <1>7, Zenon

\* VersionSet::Recover.
LEMMA TypeRecover ==
  ASSUME TypeOK, RecoverManifest
  PROVE  TypeOK'
<1> USE DEF diskVars, memVars, bgVars, histVars
<1>1. writes' = writes
  BY Zenon DEF RecoverManifest
<1>2. VersionSets' = VersionSets
  BY <1>1, TypesStay, Zenon
<1> DEFINE es   == Intact(mans[dir.current])
           meta == LastMeta(es)
<1>3. dir.current \in Files /\ es \in Seq(Edits)
  BY TypeFacts, IntactIsPrefix, Zenon DEF RecoverManifest
<1>4. TypeOpen'
  <2>1. CASE Unreadable(es) \/ Missing(LiveIn(es)) # {}
    BY <2>1, <1>2, Zenon DEF RecoverManifest, TypeOK, TypeOpen
  <2>2. CASE ~(Unreadable(es) \/ Missing(LiveIn(es)) # {})
    <3>1. meta \in Edits
      <4>1. \E i \in DOMAIN es : es[i].meta
        BY <2>2, Zenon DEF Unreadable
      <4> HIDE DEF es
      <4> QED BY <4>1, <1>3, LastMetaIsLast, Zenon
    <3>2. meta.next \in Nat /\ meta.log \in Nat /\ meta.seq \in 0..writes
      BY <3>1, Zenon DEF Edits
    <3>3. LiveIn(es) \subseteq Files
      BY Zenon DEF LiveIn
    <3>4. dir.logs \subseteq Files /\ dir.current \in Nat
      BY <1>3, TypeFacts, Zenon
    <3> DEFINE m == IF ReuseLogs THEN dir.current ELSE meta.next
               t == {n \in dir.logs : n >= meta.log}
    <3>5. /\ run' = "replay"
          /\ vs' = [live |-> LiveIn(es), log |-> meta.log, next |-> meta.next + 1,
                    seq |-> meta.seq, open |-> ReuseLogs, man |-> m]
          /\ rec' = [todo |-> t, add |-> {}, save |-> ~ReuseLogs]
      BY <2>2, Zenon DEF RecoverManifest
    <3>6. m \in Nat /\ t \subseteq Files /\ ReuseLogs \in BOOLEAN
      BY <3>2, <3>4, TypeFacts, Zenon
    <3> HIDE DEF es, meta, m, t
    <3>7. vs' \in VersionSets
      BY <3>2, <3>3, <3>5, <3>6 DEF VersionSets
    <3>8. rec' \in Recoveries
      BY <3>5, <3>6, Zenon DEF Recoveries
    <3> QED BY <3>5, <3>7, <3>8, <1>2, Zenon DEF TypeOpen
  <2> QED BY <2>1, <2>2, Zenon
<1>5. /\ TypeHist' /\ TypeDir' /\ TypeLogs' /\ TypeMans' /\ TypeTables' /\ TypeMem'
      /\ TypeWrite' /\ TypeApply' /\ TypeBg'
  BY <1>1, TypeFrame, Zenon DEF RecoverManifest
<1> QED BY <1>4, <1>5, Zenon DEF TypeOK

\* RecoverLogFile.
LEMMA TypeReplay ==
  ASSUME TypeOK, RecoverLogFile
  PROVE  TypeOK'
<1> USE DEF diskVars, memVars, bgVars, histVars
<1>1. writes' = writes
  BY Zenon DEF RecoverLogFile
<1>2. /\ Issued' = Issued /\ VersionSets' = VersionSets /\ Tables' = Tables
  BY <1>1, TypesStay, Zenon
<1> DEFINE n == Min(rec.todo)
           s == Intact(logs[n])
           made == IF ReusesLog(n, s) THEN 0 ELSE Chunks(s)
           new == vs.next .. vs.next + made - 1
<1>3. rec.todo # {}
  BY Zenon DEF RecoverLogFile
<1>4. /\ n \in Files /\ DOMAIN s = 1..Len(s) /\ \A i \in 1..Len(s) : s[i] \in Issued
      /\ MaxSeq(s) \in 0..writes /\ made \in Nat
  BY <1>3, ReplayFacts, Zenon
<1>5. /\ new \subseteq Files
      /\ tbls' = [f \in Files |-> IF f \in new
                                  THEN [recs |-> Chunk(s, f - vs.next + 1), synced |-> TRUE]
                                  ELSE tbls[f]]
      /\ dir' = [dir EXCEPT !.tables = @ \cup new]
      /\ lag' = IF new = {} THEN lag ELSE SyncFile(dir')
      /\ vs' = [vs EXCEPT !.next = AtLeast(vs.next + made, n + 1),
                          !.seq = AtLeast(@, MaxSeq(s))]
      /\ rec' = [todo |-> rec.todo \ {n}, add |-> rec.add \cup new,
                 save |-> rec.save \/ new # {}]
      /\ run' = run
  BY Zenon DEF RecoverLogFile
<1>6. IF ReusesLog(n, s) THEN mem' = {s[i] : i \in DOMAIN s} /\ logno' = n
                         ELSE UNCHANGED <<mem, logno>>
  BY Zenon DEF RecoverLogFile
<1> HIDE DEF n, s, made, new
<1>7. TypeDir'
  <2>1. dir' \in Dirs
    BY <1>4, <1>5, TypeFacts, DirUpdates, Zenon
  <2>2. new = {} => dir' = dir
    BY <1>5, TypeFacts, Zenon DEF TypeDir, Dirs
  <2> QED BY <2>1, <2>2, <1>5, TypeFacts, Zenon DEF SyncFile, TypeDir
<1>8. TypeTables'
  <2>1. \A k : Chunk(s, k) \subseteq Issued
    BY <1>4, Zenon DEF Chunk
  <2>2. \A f \in Files : [recs |-> Chunk(s, f - vs.next + 1), synced |-> TRUE] \in Tables
    BY <2>1, Zenon DEF Tables
  <2> QED BY <2>2, <1>5, <1>2, Zenon DEF TypeTables, TypeOK
<1>9. TypeOpen'
  <2>1. vs.next \in Nat /\ n + 1 \in Nat /\ vs.seq \in 0..writes /\ vs \in VersionSets
    BY <1>4, TypeFacts DEF VersionSets
  <2>2. AtLeast(vs.next + made, n + 1) \in Nat
    BY <2>1, <1>4 DEF AtLeast
  <2>3. AtLeast(vs.seq, MaxSeq(s)) \in 0..writes
    BY <2>1, <1>4, Zenon DEF AtLeast
  <2>4. vs' \in VersionSets
    BY <2>1, <2>2, <2>3, <1>5, VersionUpdates, Zenon
  <2>5. rec' \in Recoveries
    BY <1>5, TypeFacts, Zenon DEF Recoveries
  <2> QED BY <2>4, <2>5, <1>5, <1>2, Zenon DEF TypeOpen, TypeOK
<1>10. TypeMem'
  <2>1. imm' = imm /\ has_imm' = has_imm
    BY Zenon DEF RecoverLogFile
  <2>2. {s[i] : i \in DOMAIN s} \subseteq Issued
    BY <1>4, Zenon
  <2> QED BY <2>1, <2>2, <1>4, <1>6, <1>2, Zenon DEF TypeMem, TypeOK
<1>11. TypeHist' /\ TypeLogs' /\ TypeMans' /\ TypeWrite' /\ TypeApply' /\ TypeBg'
  BY <1>1, TypeFrame, Zenon DEF RecoverLogFile
<1> QED BY <1>7, <1>8, <1>9, <1>10, <1>11, Zenon DEF TypeOK

\* RecoverLogFile writes tables with numbers of their own, and syncs them.
LEMMA FilesReplay ==
  ASSUME FilesInvariant, Dependable, TypeOK', RecoverLogFile
  PROVE  FilesSafe'
<1>1. TypeOK /\ FilesSafe /\ Handles
  BY Zenon DEF FilesInvariant
<1> DEFINE n == Min(rec.todo)
           s == Intact(logs[n])
           made == IF ReusesLog(n, s) THEN 0 ELSE Chunks(s)
           new == vs.next .. vs.next + made - 1
<1>2. /\ run = "replay" /\ run' = run /\ rec.todo # {} /\ opt' = opt /\ mans' = mans
      /\ manSynced' = manSynced /\ wr' = wr /\ pinned' = pinned /\ la' = la
      /\ bg_error' = bg_error /\ fl' = fl /\ comp' = comp /\ gc' = gc
      /\ new \subseteq Files
      /\ tbls' = [f \in Files |-> IF f \in new
                                  THEN [recs |-> Chunk(s, f - vs.next + 1), synced |-> TRUE]
                                  ELSE tbls[f]]
      /\ dir' = [dir EXCEPT !.tables = @ \cup new]
      /\ lag' = (IF new = {} THEN lag ELSE SyncFile(dir'))
      /\ vs' = [vs EXCEPT !.next = AtLeast(vs.next + made, n + 1),
                          !.seq = AtLeast(@, MaxSeq(s))]
      /\ rec'.add = rec.add \cup new
  BY Zenon DEF RecoverLogFile, bgVars, histVars
<1>3. /\ n \in Files /\ made \in Nat
      /\ \A f \in new : vs.next <= f /\ f < vs.next + made
  BY <1>1, <1>2, ReplayFacts, Zenon
<1> HIDE DEF n, s, made, new
<1>4. /\ dir \in lag /\ vs.next \in Nat
      /\ \A d \in lag : /\ d.current # 0 /\ d.current \in Files /\ d.current \in d.mans
                        /\ \A m \in Listed(d.current) :
                             m \in d.tables /\ tbls[m].synced /\ m < vs.next
  BY <1>2, OpenFacts, Zenon
<1>5. vs \in VersionSets /\ dir \in Dirs /\ n \in Nat
  BY <1>1, <1>3, TypeFacts, Zenon DEF TypeDir
<1>6. /\ vs'.live = vs.live /\ vs'.man = vs.man /\ vs'.open = vs.open
      /\ vs'.next = AtLeast(vs.next + made, n + 1)
  BY <1>2, <1>5, Zenon DEF VersionSets
<1>7. /\ vs'.next \in Nat /\ vs.next <= vs'.next /\ \A f \in new : f < vs'.next /\ ~(f < vs.next)
  <2>1. \A f \in new : f \in Nat
    BY <1>1, <1>2, NumberTypes, Zenon
  <2>2. vs'.next \in Nat /\ vs.next + made <= vs'.next
    BY <1>3, <1>4, <1>5, <1>6 DEF AtLeast
  <2> QED BY <2>1, <2>2, <1>3, <1>4
<1>7a. \A m \in Nat : (m < vs.next => m < vs'.next) /\ (m <= vs.next => m <= vs'.next)
  BY <1>4, <1>7
<1>8. /\ \A f \in Files : f \notin new => tbls'[f] = tbls[f]
      /\ \A f \in new : tbls'[f].synced
  BY <1>2, Zenon
<1>9. \A f \in Files : f < vs.next => tbls'[f] = tbls[f]
  BY <1>7, <1>8, Zenon
<1>10. dir'.current = dir.current /\ dir'.mans = dir.mans /\ dir'.tables = dir.tables \cup new
  BY <1>2, <1>5, Zenon DEF Dirs
<1>11. /\ lag' \subseteq lag \cup {dir'} /\ (~MachineCrashes' => lag' = {dir'})
       /\ \A e \in lag' : new \subseteq e.tables /\ (e \in lag \/ dir.tables \subseteq e.tables)
  <2>1. CASE new = {}
    <3>1. dir' = dir
      BY <2>1, <1>2, <1>5, Zenon DEF Dirs
    <3> QED BY <2>1, <3>1, <1>1, <1>2, OptionsStay, ZenonT(60) DEF FilesSafe, Started
  <2>2. CASE new # {}
    <3>1. lag' = {dir'}
      BY <2>2, <1>2, SyncedDir, Zenon
    <3> QED BY <3>1, <1>10, Zenon
  <2> QED BY <2>1, <2>2, Zenon
<1>12. TornIsLast'
  BY <1>1, <1>2, TornFrame, Zenon DEF FilesSafe
<1>13. \A d \in lag : manSynced[d.current] <= manSynced'[d.current]
  BY <1>1, <1>2, <1>4, TypeFacts
<1>14. \A d \in lag : \A m \in Listed(d.current) : tbls'[m].synced
  BY <1>4, <1>9, Zenon DEF Listed
<1>15. /\ ImagesReadable' /\ NextGrows' /\ Newest' = Newest
       /\ \A e \in lag' : e.current # 0 /\ \E d \in lag : e.current = d.current
  BY <1>2, <1>4, <1>10, <1>11, <1>12, <1>13, <1>14, DiskFrame, ZenonT(60)
<1>16. Started'
  BY <1>1, <1>2, <1>11, <1>15, ZenonT(60) DEF FilesSafe, Started
<1>17. \A m \in Files : (\A d \in lag : m \in d.tables) => \A e \in lag' : m \in e.tables
  BY <1>4, <1>11, Zenon
<1>18. NumbersInUse'
  <2>1. PendingOutputs' = PendingOutputs
    BY <1>2, Zenon DEF PendingOutputs
  <2>2. /\ Newest <= vs.next /\ vs.man < vs.next
        /\ \A m \in vs.live \cup pinned \cup PendingOutputs : m \in dir.tables /\ m < vs.next
        /\ \A m \in vs.live : tbls[m].synced
        /\ \A m \in rec.add : m < vs.next /\ tbls[m].synced /\ \A d \in lag : m \in d.tables
    BY <1>1, <1>2, Zenon DEF FilesSafe, NumbersInUse
  <2>3. Newest \in Nat /\ vs.man \in Nat
    BY <1>2, OpenFacts, Zenon
  <2>4. Newest' <= vs'.next /\ vs'.man < vs'.next
    BY <2>2, <2>3, <1>6, <1>7a, <1>15, Zenon
  <2>5. \A m \in vs'.live \cup pinned' \cup PendingOutputs' : m \in dir'.tables /\ m < vs'.next
    BY <2>1, <2>2, <1>1, <1>2, <1>6, <1>7a, <1>10, NumberTypes, ZenonT(60)
  <2>6. \A m \in vs'.live : tbls'[m].synced
    BY <2>2, <1>1, <1>6, <1>9, NumberTypes, ZenonT(60)
  <2>7. \A m \in rec.add : m < vs'.next /\ tbls'[m].synced /\ \A e \in lag' : m \in e.tables
    BY <2>2, <1>1, <1>7a, <1>9, <1>17, NumberTypes, ZenonT(60)
  <2>8. \A m \in new : m < vs'.next /\ tbls'[m].synced /\ \A e \in lag' : m \in e.tables
    BY <1>7, <1>8, <1>11, Zenon
  <2> QED BY <2>4, <2>5, <2>6, <2>7, <2>8, <1>2, ZenonT(60) DEF NumbersInUse
<1>19. ManifestFollows'
  BY <1>1, <1>2, <1>6, <1>10, <1>15, OptionsStay, HaltedStays, ZenonT(60)
  DEF FilesSafe, ManifestFollows, Replacing, Written
<1>20. ApplyingEdit'
  <2>1. ASSUME la.at # "none"
        PROVE  \A m \in la.edit.add : tbls'[m].synced /\ \A e \in lag' : m \in e.tables
    <3>1. \A m \in la.edit.add : /\ m < la.edit.next /\ tbls[m].synced /\ m \in Files
                                 /\ \A d \in lag : m \in d.tables
      BY <2>1, <1>1, NumberTypes, ZenonT(60) DEF FilesSafe, ApplyingEdit
    <3>2. la.edit.next <= vs.next
      BY <2>1, <1>1, Zenon DEF FilesSafe, ApplyingEdit
    <3>3. la.edit.next \in Nat /\ \A m \in la.edit.add : m \in Nat /\ m < la.edit.next
      BY <3>1, <1>1, NumberTypes, Zenon
    <3>4. \A m \in la.edit.add : m < vs.next
      BY <3>2, <3>3, <1>4
    <3> QED BY <3>1, <3>4, <1>9, <1>17, Zenon
  <2>2. la.at # "none" => la.edit.next <= vs'.next
    <3>1. la.at # "none" => la.edit.next <= vs.next
      BY <1>1, Zenon DEF FilesSafe, ApplyingEdit
    <3> QED BY <3>1, <1>1, <1>7a, NumberTypes, Zenon
  <2> QED BY <2>1, <2>2, <1>1, <1>2, <1>6, <1>15, ZenonT(60) DEF FilesSafe, ApplyingEdit, Written
<1>21. BuildingTable' /\ CollectingFiles'
  BY <1>1, <1>2, Zenon DEF FilesSafe, Started, BuildingTable, CollectingFiles
<1> QED BY <1>12, <1>15, <1>16, <1>18, <1>19, <1>20, <1>21, ZenonT(60) DEF FilesSafe

-----------------------------------------------------------------------------
(* The theorems.                                                           *)

\* Every variable keeps its type.
LEMMA TypeStep ==
  ASSUME TypeOK, Handles, [Next]_vars
  PROVE  TypeOK'
<1>1. CASE UNCHANGED vars
  BY <1>1, TypeFrame, Zenon DEF vars, diskVars, memVars, bgVars, histVars, TypeOK
<1>2. CASE OpenStep
  BY <1>2, TypeNewDB, TypeRecover, TypeReplay, TypeOpenEnds, ZenonT(60) DEF OpenStep
<1>3. CASE ApplyStep
  BY <1>3, TypeLog, TypeInstall, Zenon DEF ApplyStep
<1>4. CASE WriteStep
  BY <1>4, TypeAddRecord, TypeFinishWrite, Zenon DEF WriteStep
<1>5. CASE BackgroundStep \/ Pin \/ Unpin
  BY <1>5, TypeFlush, TypeCompact, Zenon DEF BackgroundStep
<1> QED BY <1>1, <1>2, <1>3, <1>4, <1>5, TypeCrash, Zenon DEF Next

\* In every scenario and for every bound, each variable keeps its type: what DB::Open
\* reads as a MANIFEST or as a log is one, and no sequence number that it finds exceeds
\* the count of writes.
THEOREM TypeCorrect == Spec => []TypeOK
<1>1. Init => TypeOK /\ Handles
  BY TypeInit DEF Init, Handles, NoApply, NoVs, NoComp
<1>2. TypeOK /\ Handles /\ [Next]_vars => (TypeOK /\ Handles)'
  BY TypeStep, HandlesStep, Zenon
<1> QED BY <1>1, <1>2, PTL DEF Spec

\* Every step of DB::Open, of LogAndApply, of a write, of the background thread, and every
\* crash keeps the files safe.
LEMMA FilesStep ==
  ASSUME FilesInvariant, [Next]_vars
  PROVE  FilesInvariant'
<1>1. TypeOK' /\ Handles'
  BY TypeStep, HandlesStep, Zenon DEF FilesInvariant
<1>2. opt' = opt
  <2>1. CASE UNCHANGED vars
    BY <2>1, Zenon DEF vars, histVars
  <2>2. CASE OpenStep
    BY <2>2, Zenon DEF OpenStep, NewDB, NewDBCurrent, RecoverManifest, RecoverLogFile, OpenLog, OpenSave,
                OpenWithoutSave, histVars
  <2>3. CASE ApplyStep
    BY <2>3, Zenon DEF ApplyStep, NewManifest, AddEdit, SyncManifest, SetCurrent, InstallOpen,
                InstallFlush, InstallCompaction, OpenFails, ApplyFails, histVars
  <2>4. CASE WriteStep
    BY <2>4, Zenon DEF WriteStep, AddRecord, SyncLog, InsertInto, SwitchLog, histVars
  <2>5. CASE BackgroundStep \/ Pin \/ Unpin
    BY <2>5, Zenon DEF BackgroundStep, StartFlush, FinishFlush, FlushFails, StartCompaction,
                FinishCompaction, CompactionFails, Unlink, Pin, Unpin, histVars
  <2>6. CASE Crash
    BY <2>6, Zenon DEF Crash, ProcessCrash, CrashInAddRecord, MachineCrash
  <2> QED BY <2>1, <2>2, <2>3, <2>4, <2>5, <2>6, Zenon DEF Next
<1>3. ASSUME Dependable
      PROVE  FilesSafe'
  <2>1. CASE UNCHANGED vars
    <3>1. FilesSafe
      BY <1>3, Zenon DEF FilesInvariant
    <3>2. /\ TornIsLast' /\ ImagesReadable' /\ NextGrows' /\ Newest' = Newest
          /\ \A n : Listed(n)' = Listed(n)
      BY <2>1, <3>1, DiskSame, Zenon DEF FilesSafe, vars, diskVars, histVars
    <3>3. Started'
      BY <2>1, <3>1, OptionsStay, ZenonT(60) DEF FilesSafe, Started, vars, diskVars, histVars, bgVars
    <3>4. PendingOutputs' = PendingOutputs
      BY <2>1, Zenon DEF PendingOutputs, vars, bgVars
    <3>5. NumbersInUse'
      BY <2>1, <3>1, <3>2, <3>4, ZenonT(60) DEF FilesSafe, NumbersInUse, vars, diskVars
    <3>6. ManifestFollows'
      BY <2>1, <3>1, OptionsStay, HaltedStays, ZenonT(60)
      DEF FilesSafe, ManifestFollows, Replacing, Written, vars, diskVars, bgVars, histVars
    <3>7. ApplyingEdit'
      BY <2>1, <3>1, <3>2, ZenonT(60) DEF FilesSafe, ApplyingEdit, Written, vars, diskVars, bgVars
    <3>8. BuildingTable'
      BY <2>1, <3>1, <3>2, <3>4, OptionsStay, ZenonT(60)
      DEF FilesSafe, BuildingTable, vars, diskVars, bgVars, memVars, histVars
    <3>9. CollectingFiles'
      BY <2>1, <3>1, <3>4, OptionsStay, ZenonT(60)
      DEF FilesSafe, CollectingFiles, vars, diskVars, bgVars, histVars
    <3> QED BY <3>2, <3>3, <3>5, <3>6, <3>7, <3>8, <3>9, ZenonT(60) DEF FilesSafe
  <2>2. CASE OpenStep
    BY <2>2, <1>1, <1>3, FilesNewDB, FilesNewDBCurrent, FilesRecover, FilesReplay, FilesCreateLog,
       FilesOpenEnds, ZenonT(60) DEF OpenStep
  <2>3. CASE ApplyStep
    BY <2>3, <1>1, <1>3, FilesNewManifest, FilesAddEdit, FilesSyncManifest, FilesSetCurrent,
       FilesInstall, FilesOpenFails, FilesApplyFails, ZenonT(60) DEF ApplyStep
  <2>4. CASE WriteStep
    BY <2>4, <1>1, <1>3, FilesQuiet, FilesSyncLog, FilesCreateLog, ZenonT(60) DEF WriteStep
  <2>5. CASE BackgroundStep \/ Pin \/ Unpin
    BY <2>5, <1>1, <1>3, FilesQuiet, FilesCreateTable, FilesFinishTable, FilesFlushFails,
       FilesUnlink, ZenonT(60) DEF BackgroundStep
  <2>6. CASE Crash
    BY <2>6, <1>1, <1>3, FilesProcessCrash, FilesMachineCrash, ZenonT(60) DEF Crash
  <2> QED BY <2>1, <2>2, <2>3, <2>4, <2>5, <2>6, ZenonT(60) DEF Next
<1> QED BY <1>1, <1>2, <1>3, OptionsStay DEF FilesInvariant

\* What every disk a crash may leave has, and which files DeleteObsoleteFiles may take:
\* the inductive invariant of the files, for any number of writes, files and crashes.
THEOREM FilesInvariantHolds == Spec => []FilesInvariant
<1>1. Init => FilesInvariant
  <2>1. Init => TypeOK /\ Handles
    BY TypeInit DEF Init, Handles, NoApply, NoVs, NoComp
  <2> QED BY <2>1, FilesInit, ZenonT(60) DEF FilesInvariant
<1>2. FilesInvariant /\ [Next]_vars => FilesInvariant'
  BY FilesStep, Zenon
<1> QED BY <1>1, <1>2, PTL DEF Spec

\* DB::Open never fails after a crash, in any dependable scenario: CURRENT names a
\* MANIFEST that VersionSet::Recover can read, and DBImpl::Recover misses no table.
THEOREM OpenAlwaysSucceeds == Spec => [](Dependable => OpenSucceeds)
<1>1. FilesInvariant => (Dependable => OpenSucceeds)
  BY ZenonT(60) DEF FilesInvariant, FilesSafe, Started, OpenSucceeds
<1> QED BY <1>1, FilesInvariantHolds, PTL

\* DeleteObsoleteFiles never removes a table of the current version, of a version that an
\* iterator holds, or of a compaction, and the tables of the version are synced.
THEOREM LiveFilesAlwaysExist == Spec => [](Dependable => LiveFilesExist)
<1>1. FilesInvariant => (Dependable => LiveFilesExist)
  BY Zenon DEF FilesInvariant, FilesSafe, NumbersInUse, LiveFilesExist
<1> QED BY <1>1, FilesInvariantHolds, PTL

=============================================================================
