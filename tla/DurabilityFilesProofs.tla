----------------------- MODULE DurabilityFilesProofs ------------------------
(***************************************************************************)
(* The files a crash may leave, step by step: in a dependable scenario     *)
(* every MANIFEST that CURRENT may name after a crash can be read, and its *)
(* tables are there.                                                       *)
(***************************************************************************)
EXTENDS DurabilityTypeProofs

-----------------------------------------------------------------------------
(* LogAndApply.                                                            *)

\* What DeleteObsoleteFiles collects is in no version and not the MANIFEST in use.
LEMMA CollectedFacts ==
  ASSUME NEW v, NEW pend, v.man \in Nat, TypeOK
  PROVE  \A n \in Files :
           /\ <<"table", n>> \in Obsolete(v, pend) => n \notin v.live \cup pinned \cup pend
           /\ <<"man", n>> \in Obsolete(v, pend) => n # v.man
<1> SUFFICES ASSUME NEW n \in Files
             PROVE  /\ <<"table", n>> \in Obsolete(v, pend) => n \notin v.live \cup pinned \cup pend
                    /\ <<"man", n>> \in Obsolete(v, pend) => n # v.man
  OBVIOUS
<1>1. n \in Nat
  BY NumberTypes, Zenon
<1>2. ASSUME <<"table", n>> \in Obsolete(v, pend)
      PROVE  n \in dir.tables \ (v.live \cup pinned \cup pend)
  BY <1>2, Zenon DEF Obsolete
<1>3. ASSUME <<"man", n>> \in Obsolete(v, pend)
      PROVE  n \in dir.mans /\ n < v.man
  BY <1>3, Zenon DEF Obsolete
<1> QED BY <1>1, <1>2, <1>3

\* LogAndApply installs the version that the MANIFEST of CURRENT now has, and
\* DeleteObsoleteFiles collects what is not in it.
LEMMA FilesInstall ==
  ASSUME FilesInvariant, Dependable, TypeOK', InstallOpen \/ InstallFlush \/ InstallCompaction
  PROVE  FilesSafe'
<1>1. TypeOK /\ FilesSafe /\ Handles
  BY Zenon DEF FilesInvariant
<1>2. /\ la.at = "install" /\ opt' = opt /\ dir' = dir /\ lag' = lag /\ mans' = mans
      /\ manSynced' = manSynced /\ tbls' = tbls /\ vs' = Applied /\ la' = NoApply /\ wr' = wr
      /\ pinned' = pinned /\ bg_error' = bg_error
  BY Zenon DEF InstallOpen, InstallFlush, InstallCompaction, diskVars, bgVars, histVars
<1>3. /\ vs.open /\ run \in {"replay", "up"} /\ (la.for = "open" <=> run = "replay") /\ ~Replacing
      /\ (la.for # "open" => (la.for = "flush" <=> fl # 0)) /\ la.edit.next <= vs.next /\ gc = {}
      /\ \A n \in la.edit.add : n < la.edit.next /\ tbls[n].synced /\ \A d \in lag : n \in d.tables
      /\ manSynced[vs.man] = Len(mans[vs.man])
  BY <1>1, <1>2, Zenon DEF FilesSafe, ApplyingEdit, Handles, Replacing
<1>4. /\ run' = "up" /\ PendingOutputs' \subseteq PendingOutputs /\ fl' = 0
      /\ \E pend : PendingOutputs' \subseteq pend /\ gc' \subseteq Obsolete(Applied, pend)
      /\ gc' # {} => ~bg_error
  <2>1. CASE InstallOpen
    <3>1. fl = 0 /\ ~comp.on /\ ~bg_error
      BY <2>1, <1>1, <1>3, Zenon DEF InstallOpen, FilesSafe, Started
    <3>2. PendingOutputs' = {} /\ PendingOutputs = {}
      BY <2>1, <3>1, Zenon DEF InstallOpen, bgVars, PendingOutputs
    <3> QED BY <2>1, <3>1, <3>2, Zenon DEF InstallOpen, bgVars
  <2>2. CASE InstallFlush
    <3>1. PendingOutputs' = PendingOutputs
      BY <2>2, Zenon DEF InstallFlush, PendingOutputs
    <3>2. run' = "up" /\ fl' = 0 /\ gc' = Collected(Applied, PendingOutputs)
      BY <2>2, <1>3, Zenon DEF InstallFlush
    <3> QED BY <3>1, <3>2, Zenon DEF Collected
  <2>3. CASE InstallCompaction
    <3>1. PendingOutputs' = {}
      BY <2>3, Zenon DEF InstallCompaction, PendingOutputs, NoComp
    <3>2. run' = "up" /\ fl' = 0 /\ gc' = Collected(Applied, {})
      BY <2>3, <1>3, Zenon DEF InstallCompaction
    <3> QED BY <3>1, <3>2, Zenon DEF Collected
  <2> QED BY <2>1, <2>2, <2>3, Zenon
<1>5. /\ vs'.live = (vs.live \ la.edit.del) \cup la.edit.add /\ vs'.man = vs.man
      /\ vs'.next = vs.next /\ vs'.open = vs.open
  BY <1>1, <1>2, TypeFacts, Zenon DEF Applied, VersionSets
<1>6. TornIsLast' /\ ImagesReadable' /\ NextGrows' /\ Newest' = Newest
  BY <1>1, <1>2, DiskSame, Zenon DEF FilesSafe
<1>7. la'.at = "none"
  BY <1>2, Zenon DEF NoApply
<1>8. Started'
  BY <1>1, <1>2, <1>3, <1>4, OptionsStay, Zenon DEF FilesSafe, Started
<1>9. NumbersInUse'
  <2>1. /\ Newest <= vs.next /\ vs.man < vs.next
        /\ \A n \in vs.live \cup pinned \cup PendingOutputs : n \in dir.tables /\ n < vs.next
        /\ \A n \in vs.live : tbls[n].synced
    BY <1>1, <1>3, Zenon DEF FilesSafe, NumbersInUse
  <2>2. dir \in lag
    BY <1>1, Zenon DEF TypeOK, TypeDir
  <2>3. \A n \in la.edit.add : n \in dir.tables /\ n < vs.next /\ tbls[n].synced
    BY <2>2, <1>1, <1>3, NumberTypes
  <2>4. \A n \in vs'.live \cup pinned' \cup PendingOutputs' : n \in dir'.tables /\ n < vs'.next
    BY <2>1, <2>3, <1>2, <1>4, <1>5, Zenon
  <2>5. \A n \in vs'.live : tbls'[n].synced
    BY <2>1, <2>3, <1>2, <1>5, Zenon
  <2>6. Newest' <= vs'.next /\ vs'.man < vs'.next
    BY <2>1, <1>5, <1>6, Zenon
  <2> QED BY <1>4, <2>4, <2>5, <2>6, Zenon DEF NumbersInUse
<1>10. ManifestFollows'
  <2>1. /\ dir.current = vs.man /\ mans[vs.man] # <<>> /\ mans[vs.man][Len(mans[vs.man])] # Torn
        /\ ~bg_error => LiveAt(mans[vs.man], Len(mans[vs.man])) = vs'.live
    BY <1>1, <1>2, <1>3, <1>5, Zenon DEF FilesSafe, ManifestFollows, Written, Halted
  <2> QED BY <2>1, <1>2, <1>4, <1>5, <1>7, Zenon DEF ManifestFollows, Replacing, Written
<1>11. ApplyingEdit' /\ BuildingTable'
  BY <1>4, <1>7, Zenon DEF ApplyingEdit, BuildingTable
<1>12. CollectingFiles'
  <2>1. PICK pend : PendingOutputs' \subseteq pend /\ gc' \subseteq Obsolete(Applied, pend)
    BY <1>4, Zenon
  <2>2. Applied.man \in Nat /\ Applied = vs'
    BY <1>1, <1>2, <1>5, NumberTypes, Zenon
  <2>3. \A n \in Files : /\ <<"table", n>> \in gc' => n \notin vs'.live \cup pinned \cup pend
                         /\ <<"man", n>> \in gc' => n # vs'.man
    BY <2>1, <2>2, <1>1, CollectedFacts, Zenon
  <2>4. \A n \in Files : /\ <<"table", n>> \in gc' => n \notin vs'.live \cup pinned' \cup PendingOutputs'
                         /\ <<"man", n>> \in gc' => n # vs'.man
    BY <2>1, <2>3, <1>2, Zenon
  <2> QED BY <2>4, <1>2, <1>3, <1>4, <1>5, <1>7, Zenon DEF CollectingFiles
<1> QED BY <1>6, <1>8, <1>9, <1>10, <1>11, <1>12, Zenon DEF FilesSafe

\* DB::Open passes the tables of the logs to LogAndApply, or is done.
LEMMA FilesOpenEnds ==
  ASSUME FilesInvariant, Dependable, TypeOK', OpenSave \/ OpenWithoutSave
  PROVE  FilesSafe'
<1>1. TypeOK /\ FilesSafe /\ Handles
  BY Zenon DEF FilesInvariant
<1>2. /\ run = "replay" /\ opt' = opt /\ dir' = dir /\ lag' = lag /\ mans' = mans
      /\ manSynced' = manSynced /\ tbls' = tbls /\ vs' = vs /\ wr' = wr /\ pinned' = pinned
      /\ bg_error' = bg_error /\ fl' = fl /\ comp' = comp /\ rec' = rec /\ run' \in {"replay", "up"}
      /\ la.at = "none"
  BY <1>1, Zenon DEF OpenSave, OpenWithoutSave, diskVars, bgVars, histVars, Handles
<1>3. /\ fl = 0 /\ ~comp.on /\ pinned = {} /\ gc = {} /\ ~bg_error
  BY <1>1, <1>2, Zenon DEF FilesSafe, Started
<1>4. TornIsLast' /\ ImagesReadable' /\ NextGrows' /\ Newest' = Newest
  BY <1>1, <1>2, DiskSame, Zenon DEF FilesSafe
<1>5. PendingOutputs' = PendingOutputs /\ PendingOutputs = {}
  BY <1>2, <1>3, Zenon DEF PendingOutputs
<1>6. NumbersInUse'
  BY <1>1, <1>2, <1>4, <1>5, Zenon DEF FilesSafe, NumbersInUse
<1>7. BuildingTable'
  BY <1>2, <1>3, Zenon DEF BuildingTable
<1>8. /\ Newest \in Nat /\ Newest <= vs.next /\ vs.man < vs.next /\ vs.next \in Nat
      /\ vs.open \in BOOLEAN
  BY <1>1, <1>2, OpenFacts, NumberTypes, Zenon
<1>11. ~Halted
  BY <1>3, Zenon DEF Halted
<1>9. CASE OpenSave
  <2>1. run' = "replay" /\ gc' = gc
    BY <1>2, <1>9, Zenon DEF OpenSave
  <2>2. /\ la'.at = (IF vs.open THEN "add" ELSE "new") /\ la'.for = "open" /\ la'.new = ~vs.open
        /\ la'.edit = LoggedEdit(rec.add, {}, logno)
    BY <1>9, Zenon DEF OpenSave
  <2>3. la'.edit.add = rec.add /\ la'.edit.meta /\ la'.edit.next = vs.next
    BY <2>2 DEF LoggedEdit
  <2>4. Started'
    BY <1>1, <1>2, <2>1, OptionsStay, Zenon DEF FilesSafe, Started
  <2>5. ManifestFollows'
    BY <1>1, <1>2, <1>8, <1>11, <2>1, <2>2, Zenon DEF FilesSafe, ManifestFollows, Replacing, Written
  <2>6. /\ \A n \in vs.live \cup rec.add : n < vs.next
        /\ \A n \in rec.add : tbls[n].synced /\ \A d \in lag : n \in d.tables
    BY <1>1, <1>2, Zenon DEF FilesSafe, NumbersInUse
  <2>7. ApplyingEdit'
    <3>1. /\ la'.at = "new" <=> ~vs'.open
          /\ la'.at \in {"new", "current"} => la'.new
          /\ la'.at \in {"add", "new"}
      BY <1>2, <1>8, <2>2, Zenon
    <3>2. \A n \in vs'.live \cup la'.edit.add : n < la'.edit.next
      BY <1>2, <2>3, <2>6, Zenon
    <3>3. \A n \in la'.edit.add : tbls'[n].synced /\ \A d \in lag' : n \in d.tables
      BY <1>2, <2>3, <2>6, Zenon
    <3>4. la'.edit.next <= vs'.next /\ Newest' <= la'.edit.next /\ vs'.man < la'.edit.next
      BY <1>2, <1>4, <1>8, <2>3
    <3> QED BY <1>2, <1>3, <2>1, <2>2, <2>3, <3>1, <3>2, <3>3, <3>4, Zenon DEF ApplyingEdit, Written
  <2>8. CollectingFiles'
    BY <1>3, <2>1 DEF CollectingFiles
  <2> QED BY <1>4, <1>6, <1>7, <2>4, <2>5, <2>7, <2>8, Zenon DEF FilesSafe
<1>10. CASE OpenWithoutSave
  <2>1. run' = "up" /\ gc' = Obsolete(vs, {}) /\ la' = la /\ ~rec.save
    BY <1>10, Zenon DEF OpenWithoutSave
  <2>2. vs.open /\ ~MachineCrashes
    BY <1>1, <1>2, <2>1, Zenon DEF Handles, FilesSafe, ManifestFollows, Dependable
  <2>3. Started'
    BY <1>1, <1>2, <2>1, OptionsStay, Zenon DEF FilesSafe, Started
  <2>4. ManifestFollows'
    BY <1>1, <1>2, <1>11, <2>1, <2>2, Zenon DEF FilesSafe, ManifestFollows, Replacing, Written
  <2>5. ApplyingEdit'
    BY <1>2, <2>1, Zenon DEF ApplyingEdit
  <2>6. vs.man \in Nat
    BY <1>1, NumberTypes, Zenon
  <2>7. CollectingFiles'
    BY <1>1, <1>2, <1>3, <1>5, <2>1, <2>2, <2>6, CollectedFacts, OptionsStay, Zenon DEF CollectingFiles
  <2> QED BY <1>4, <1>6, <1>7, <2>3, <2>4, <2>5, <2>7, Zenon DEF FilesSafe
<1> QED BY <1>9, <1>10, Zenon

\* A snapshot lists the tables of the version.
LEMMA SnapshotLists ==
  ASSUME NEW live \in SUBSET Files, writes \in Nat
  PROVE  LET s == <<Snapshot(live)>> IN
         /\ Len(s) = 1 /\ s # <<>> /\ s[1] \in Edits /\ s[1] # Torn /\ LiveAt(s, 1) = live
<1> DEFINE s == <<Snapshot(live)>>
<1>1. Len(s) = 1 /\ s[1] = Snapshot(live) /\ s # <<>>
  OBVIOUS
<1>2. Snapshot(live) \in Edits /\ Snapshot(live) # Torn
  BY ConstantTypes, TornIsNoEdit, Zenon
<1>3. Snapshot(live).add = live
  BY Zenon DEF Snapshot
<1> HIDE DEF s
<1>4. LiveAt(s, 0) = {}
  BY DEF LiveAt
<1>5. LiveAt(s, 1) = (LiveAt(s, 0) \ s[1].del) \cup s[1].add
  <2>1. 0 \in Nat /\ 0 + 1 = 1
    OBVIOUS
  <2>2. s[0 + 1].add \subseteq Files
    BY <2>1, <1>1, <1>3, Zenon
  <2>3. LiveAt(s, 0 + 1) = (LiveAt(s, 0) \ s[0 + 1].del) \cup s[0 + 1].add
    BY <2>1, <2>2, LiveAtNext, Zenon
  <2> QED BY <2>1, <2>3, Zenon
<1>6. LiveAt(s, 1) = live
  BY <1>1, <1>3, <1>4, <1>5, Zenon
<1> QED BY <1>1, <1>2, <1>6, Zenon DEF s

\* LogAndApply creates a MANIFEST that no disk's CURRENT names yet.
LEMMA FilesNewManifest ==
  ASSUME FilesInvariant, Dependable, TypeOK', NewManifest
  PROVE  FilesSafe'
<1>1. TypeOK /\ FilesSafe /\ Handles
  BY Zenon DEF FilesInvariant
<1> DEFINE s == <<Snapshot(vs.live)>>
<1>2. /\ la.at = "new" /\ vs.man \in Files /\ opt' = opt /\ tbls' = tbls /\ wr' = wr
      /\ pinned' = pinned /\ bg_error' = bg_error /\ fl' = fl /\ comp' = comp /\ rec' = rec
      /\ run' = run /\ gc' = gc /\ mans' = [mans EXCEPT ![vs.man] = s]
      /\ manSynced' = [manSynced EXCEPT ![vs.man] = 0]
      /\ ChangeDir([dir EXCEPT !.mans = @ \cup {vs.man}])
      /\ vs' = [vs EXCEPT !.open = TRUE] /\ la' = [la EXCEPT !.at = "add"]
  BY Zenon DEF NewManifest, bgVars, histVars
<1>3. ~vs.open /\ la.new /\ la.for = "open" /\ run = "replay" /\ gc = {}
  BY <1>1, <1>2, Zenon DEF FilesSafe, ApplyingEdit
<1>4. /\ dir \in lag
      /\ \A d \in lag : /\ d.current # 0 /\ d.current \in Files /\ d.current \in d.mans
                        /\ \A n \in Listed(d.current) : n \in d.tables /\ tbls[n].synced
  BY <1>3, OpenFacts, Zenon
<1>5. dir \in Dirs /\ vs \in VersionSets /\ la \in Applies /\ vs.live \subseteq Files /\ writes \in Nat
  BY <1>1, TypeFacts, NumberTypes, Zenon DEF TypeDir
<1>6. /\ vs'.next = vs.next /\ vs'.live = vs.live /\ vs'.man = vs.man /\ vs'.open
      /\ la'.at = "add" /\ la'.edit = la.edit /\ la'.for = la.for /\ la'.new = la.new
  BY <1>2, <1>5, Zenon DEF VersionSets, Applies
<1>7. /\ dir'.current = dir.current /\ dir'.mans = dir.mans \cup {vs.man} /\ dir'.tables = dir.tables
      /\ lag' \subseteq lag \cup {dir'} /\ (~MachineCrashes' => lag' = {dir'})
  BY <1>2, <1>5, ChangedDir DEF Dirs
<1>8. \A d \in lag : d.current # vs.man
  BY <1>1, <1>3, Zenon DEF FilesSafe, ManifestFollows
<1>9. Len(s) = 1 /\ s # <<>> /\ s[1] \in Edits /\ s[1] # Torn /\ LiveAt(s, 1) = vs.live
  BY <1>5, SnapshotLists, Zenon
<1> HIDE DEF s
<1>10. /\ mans'[vs.man] = s
       /\ \A n \in Files : n # vs.man => mans'[n] = mans[n] /\ manSynced'[n] = manSynced[n]
  BY <1>1, <1>2, Zenon DEF TypeOK, TypeMans
<1>11. TornIsLast'
  <2> SUFFICES ASSUME NEW n \in Files, NEW i \in 1..Len(mans'[n]), mans'[n][i] = Torn
               PROVE  i = Len(mans'[n]) /\ TornRecords'
    BY Zenon DEF TornIsLast
  <2>1. n # vs.man
    BY <1>9, <1>10
  <2> QED BY <2>1, <1>1, <1>2, <1>10, OptionsStay DEF FilesSafe, TornIsLast
<1>12. \A d \in lag : /\ mans'[d.current] = mans[d.current]
                      /\ manSynced[d.current] <= manSynced'[d.current]
  BY <1>1, <1>4, <1>8, <1>10, TypeFacts
<1>13. /\ ImagesReadable' /\ NextGrows' /\ Newest' = Newest
       /\ \A e \in lag' : e.current # 0 /\ \E d \in lag : e.current = d.current
  BY <1>2, <1>3, <1>4, <1>7, <1>11, <1>12, DiskFrame, Zenon
<1>14. Started'
  BY <1>1, <1>2, <1>3, <1>7, <1>13, Zenon DEF FilesSafe, Started
<1>15. \A n \in Files : (\A d \in lag : n \in d.tables) => \A e \in lag' : n \in e.tables
  BY <1>4, <1>7, Zenon
<1>16. NumbersInUse'
  <2>1. PendingOutputs' = PendingOutputs
    BY <1>2, Zenon DEF PendingOutputs
  <2> QED
    BY <1>1, <1>2, <1>6, <1>7, <1>13, <1>15, <2>1, NumberTypes, Zenon DEF FilesSafe, NumbersInUse
<1>17. ManifestFollows'
  <2>1. ~Written' /\ Replacing'
    BY <1>3, <1>6, Zenon DEF Written, Replacing
  <2>2. /\ vs'.man \in dir'.mans /\ mans'[vs'.man] # <<>>
        /\ mans'[vs'.man][Len(mans'[vs'.man])] # Torn
        /\ LiveAt(mans'[vs'.man], Len(mans'[vs'.man])) = vs'.live
    BY <1>6, <1>7, <1>9, <1>10, Zenon
  <2> QED BY <2>1, <2>2, <1>6, <1>8, <1>13, Zenon DEF ManifestFollows
<1>18. ApplyingEdit'
  BY <1>1, <1>2, <1>3, <1>6, <1>13, <1>15, NumberTypes, Zenon DEF FilesSafe, ApplyingEdit, Written
<1>19. BuildingTable' /\ CollectingFiles'
  BY <1>1, <1>2, <1>3, Zenon DEF FilesSafe, Started, BuildingTable, CollectingFiles
<1> QED BY <1>11, <1>13, <1>14, <1>16, <1>17, <1>18, <1>19, Zenon DEF FilesSafe

\* The sync of the MANIFEST makes its edits the only ones a recovery may read.
LEMMA FilesSyncManifest ==
  ASSUME FilesInvariant, Dependable, TypeOK', SyncManifest
  PROVE  FilesSafe'
<1>1. TypeOK /\ FilesSafe /\ Handles
  BY Zenon DEF FilesInvariant
<1>2. /\ la.at = "sync" /\ opt' = opt /\ tbls' = tbls /\ wr' = wr /\ dir' = dir /\ lag' = {dir}
      /\ pinned' = pinned /\ bg_error' = bg_error /\ fl' = fl /\ comp' = comp /\ rec' = rec
      /\ run' = run /\ gc' = gc /\ mans' = mans /\ vs' = vs /\ has_imm' = has_imm
      /\ manSynced' = [manSynced EXCEPT ![vs.man] = Len(mans[vs.man])]
      /\ la' = [la EXCEPT !.at = IF la.new THEN "current" ELSE "install"]
  BY Zenon DEF SyncManifest, bgVars, histVars, memVars, ManifestSynced
<1>3. run \in {"replay", "up"} /\ vs.open /\ vs.man \in Files
  BY <1>1, <1>2, Zenon DEF Handles
<1>4. /\ dir \in lag
      /\ \A d \in lag : /\ d.current # 0 /\ d.current \in Files /\ d.current \in d.mans
                        /\ \A n \in Listed(d.current) : n \in d.tables /\ tbls[n].synced
  BY <1>3, OpenFacts, Zenon
<1>5. /\ la'.edit = la.edit /\ la'.for = la.for /\ la'.new = la.new
      /\ la'.at = IF la.new THEN "current" ELSE "install"
  BY <1>1, <1>2, TypeFacts, Zenon DEF Applies
<1>6. TornIsLast'
  BY <1>1, <1>2, TornFrame, Zenon DEF FilesSafe
<1>7. /\ manSynced'[vs.man] = Len(mans[vs.man])
      /\ \A d \in lag : manSynced[d.current] <= manSynced'[d.current]
  BY <1>1, <1>2, <1>3, <1>4 DEF TypeOK, TypeMans
<1>8. /\ ImagesReadable' /\ NextGrows' /\ Newest' = Newest
      /\ \A e \in lag' : e.current # 0 /\ \E d \in lag : e.current = d.current
  BY <1>2, <1>3, <1>4, <1>6, <1>7, DiskFrame, Zenon
<1>9. Started'
  BY <1>1, <1>2, <1>3, <1>8, Zenon DEF FilesSafe, Started
<1>10. NumbersInUse'
  <2>1. PendingOutputs' = PendingOutputs
    BY <1>2, Zenon DEF PendingOutputs
  <2> QED BY <1>1, <1>2, <1>4, <1>8, <2>1, Zenon DEF FilesSafe, NumbersInUse
<1>11. ManifestFollows'
  <2>1. Written' /\ Written /\ (Replacing' <=> Replacing)
    BY <1>1, <1>2, <1>5, NumberTypes, Zenon DEF Written, Replacing
  <2>2. ~Halted
    BY <1>2, Zenon DEF Halted
  <2> QED BY <2>1, <2>2, <1>1, <1>2, <1>3, <1>4, <1>5 DEF FilesSafe, ManifestFollows
<1>12. ApplyingEdit'
  BY <1>1, <1>2, <1>3, <1>4, <1>5, <1>7, <1>8 DEF FilesSafe, ApplyingEdit, Written
<1>13. gc = {}
  BY <1>1, <1>2, Zenon DEF FilesSafe, ApplyingEdit
<1>14. BuildingTable' /\ CollectingFiles'
  BY <1>1, <1>2, <1>5, <1>13, OptionsStay DEF FilesSafe, BuildingTable, CollectingFiles
<1> QED BY <1>6, <1>8, <1>9, <1>10, <1>11, <1>12, <1>14, Zenon DEF FilesSafe

\* CURRENT moves to a MANIFEST whose edits are synced and whose tables are there.
LEMMA FilesSetCurrent ==
  ASSUME FilesInvariant, Dependable, TypeOK', SetCurrent
  PROVE  FilesSafe'
<1> DEFINE s == mans[vs.man]
<1>1. TypeOK /\ FilesSafe /\ Handles
  BY Zenon DEF FilesInvariant
<1>2. /\ la.at = "current" /\ opt' = opt /\ tbls' = tbls /\ wr' = wr /\ SetCurrentFile(vs.man)
      /\ pinned' = pinned /\ bg_error' = bg_error /\ fl' = fl /\ comp' = comp /\ rec' = rec
      /\ run' = run /\ gc' = gc /\ mans' = mans /\ manSynced' = manSynced /\ vs' = vs
      /\ la' = [la EXCEPT !.at = "install"]
  BY Zenon DEF SetCurrent, bgVars, histVars
<1>3. /\ la.new /\ la.for = "open" /\ run = "replay" /\ gc = {} /\ vs.open /\ vs.man \in Files
      /\ la.edit.meta /\ Newest <= la.edit.next /\ vs.man < la.edit.next /\ la.edit.next <= vs.next
      /\ \A n \in vs.live \cup la.edit.add : n < la.edit.next
      /\ \A n \in la.edit.add : tbls[n].synced /\ \A d \in lag : n \in d.tables
      /\ s[Len(s)] = la.edit /\ manSynced[vs.man] = Len(s)
  BY <1>1, <1>2, Zenon DEF FilesSafe, ApplyingEdit, Handles, Written
<1>4. fl = 0 /\ ~bg_error /\ ~comp.on
  BY <1>1, <1>3, Zenon DEF FilesSafe, Started
<1>5. /\ vs.man \in dir.mans /\ s # <<>> /\ s[Len(s)] # Torn
      /\ LiveAt(s, Len(s)) = (vs.live \ la.edit.del) \cup la.edit.add
  BY <1>1, <1>2, <1>3, <1>4, Zenon DEF FilesSafe, ManifestFollows, Replacing, Written, Halted
<1>6. /\ dir \in lag /\ Newest \in Nat /\ la.edit.next \in Nat /\ dir.current \in Files
      /\ dir.current # 0
  BY <1>1, <1>3, OpenFacts, NumberTypes, Zenon
<1>7. la'.edit = la.edit /\ la'.for = la.for /\ la'.new = la.new /\ la'.at = "install"
  BY <1>1, <1>2, TypeFacts, Zenon DEF Applies
<1>8. /\ dir'.current = vs.man /\ dir'.mans = dir.mans /\ dir'.tables = dir.tables
      /\ lag' \subseteq {dir, dir'} /\ (~MachineCrashes' => lag' = {dir'})
  <2>1. dir' = [dir EXCEPT !.current = vs.man] /\ lag' \subseteq {dir, dir'}
    BY <1>2, SyncedDir, Zenon DEF SetCurrentFile
  <2>2. ~MachineCrashes' => lag' = {dir'}
    BY <1>2, OptionsStay DEF SetCurrentFile
  <2>3. dir \in Dirs
    BY <1>1, Zenon DEF TypeOK, TypeDir
  <2> QED BY <2>1, <2>2, <2>3, <1>3, Zenon DEF Dirs
<1>9. TornIsLast'
  BY <1>1, <1>2, TornFrame, Zenon DEF FilesSafe
<1>10. \A n : Heads(n)' = Heads(n)
  BY <1>2, OptionsStay DEF Heads
<1>11. Heads(vs.man) = {Len(s)} /\ Len(s) > 0 /\ Whole(s) = Len(s)
  BY <1>3, <1>4, OpenManifest, Zenon DEF Halted
<1>12. Newest' = la.edit.next
  BY <1>2, <1>3, <1>8, <1>11, Zenon DEF Newest
<1>13. \A n \in LiveAt(s, Len(s)) : n \in dir.tables /\ tbls[n].synced /\ n < la.edit.next
  BY <1>1, <1>3, <1>5, <1>6, Zenon DEF FilesSafe, NumbersInUse
<1>14. ImagesReadable'
  <2> SUFFICES ASSUME NEW e \in lag', e.current # 0
               PROVE  /\ e.current \in e.mans
                      /\ \A j \in Heads(e.current) :
                         /\ j > 0 /\ mans[e.current][j].meta /\ e.current < mans[e.current][j].next
                         /\ \A n \in LiveAt(mans[e.current], j) :
                              n \in e.tables /\ tbls[n].synced /\ n < mans[e.current][j].next
    BY <1>2, <1>10, Zenon DEF ImagesReadable
  <2>1. CASE e = dir
    BY <2>1, <1>1, <1>6, Zenon DEF FilesSafe, ImagesReadable
  <2>2. CASE e = dir'
    BY <2>2, <1>3, <1>5, <1>8, <1>11, <1>13, Zenon
  <2> QED BY <2>1, <2>2, <1>8, Zenon
<1>15. NextGrows'
  <2> SUFFICES ASSUME NEW e \in lag', e.current # 0, NEW j \in Heads(e.current)
               PROVE  mans[e.current][j].next <= la.edit.next
    BY <1>2, <1>10, <1>12, Zenon DEF NextGrows
  <2>1. CASE e = dir
    <3>1. mans[e.current][j].next <= Newest
      BY <2>1, <1>1, <1>6, Zenon DEF FilesSafe, NextGrows
    <3>2. mans[e.current][j].next \in Nat
      BY <2>1, <1>1, <1>6, NewestIsNumber, EditFields, Zenon DEF FilesSafe
    <3> QED BY <3>1, <3>2, <1>3, <1>6
  <2>2. CASE e = dir'
    <3>1. mans[e.current][j] = la.edit
      BY <2>2, <1>3, <1>8, <1>11, Zenon
    <3>2. la.edit.next <= la.edit.next
      BY <1>6
    <3> QED BY <3>1, <3>2, Zenon
  <2> QED BY <2>1, <2>2, <1>8, Zenon
<1>16. \A e \in lag' : e.current # 0 /\ e.tables = dir.tables
  <2>1. vs.man # 0
    BY <1>3 DEF Files
  <2> QED BY <2>1, <1>6, <1>8, Zenon
<1>17. Started'
  BY <1>1, <1>2, <1>3, <1>8, <1>16, Zenon DEF FilesSafe, Started
<1>18. NumbersInUse'
  <2>1. PendingOutputs' = PendingOutputs
    BY <1>2, Zenon DEF PendingOutputs
  <2> QED BY <1>1, <1>2, <1>3, <1>6, <1>8, <1>12, <1>16, <2>1, Zenon DEF FilesSafe, NumbersInUse
<1>19. ManifestFollows'
  <2>1. ~Replacing' /\ Written'
    BY <1>7, Zenon DEF Replacing, Written
  <2> QED BY <2>1, <1>2, <1>3, <1>5, <1>7, <1>8, Zenon DEF ManifestFollows
<1>20. ApplyingEdit'
  BY <1>1, <1>2, <1>3, <1>6, <1>7, <1>12, <1>16 DEF FilesSafe, ApplyingEdit, Written
<1>21. BuildingTable' /\ CollectingFiles'
  BY <1>2, <1>3, <1>4, Zenon DEF BuildingTable, CollectingFiles
<1> QED BY <1>9, <1>14, <1>15, <1>17, <1>18, <1>19, <1>20, <1>21, Zenon DEF FilesSafe

\* A record appended to the MANIFEST leaves an incomplete one last, if any.
LEMMA TornAppend ==
  ASSUME FilesInvariant, Dependable, vs.open, ~Halted, opt' = opt, NEW e \in Edits \cup {Torn},
         e = Torn => TornRecords, mans' = [mans EXCEPT ![vs.man] = Append(@, e)]
  PROVE  /\ TornIsLast' /\ vs.man \in Files /\ mans'[vs.man] = Append(mans[vs.man], e)
         /\ \A n \in Files : n # vs.man => mans'[n] = mans[n]
<1>1. TypeOK /\ FilesSafe
  BY Zenon DEF FilesInvariant
<1>2. /\ vs.man \in Files /\ mans[vs.man] \in Seq(Edits \cup {Torn}) /\ Len(mans[vs.man]) \in Nat
      /\ \A i \in 1..Len(mans[vs.man]) : mans[vs.man][i] # Torn
  BY OpenManifest, Zenon
<1>3. /\ mans'[vs.man] = Append(mans[vs.man], e)
      /\ \A n \in Files : n # vs.man => mans'[n] = mans[n]
  BY <1>1, <1>2, Zenon DEF TypeOK, TypeMans
<1>4. /\ Len(mans'[vs.man]) = Len(mans[vs.man]) + 1
      /\ mans'[vs.man][Len(mans[vs.man]) + 1] = e
      /\ \A i \in 1..Len(mans[vs.man]) : mans'[vs.man][i] = mans[vs.man][i]
  BY <1>2, <1>3, AppendEdit
<1>5. ASSUME NEW n \in Files, NEW i \in 1..Len(mans'[n]), mans'[n][i] = Torn
      PROVE  i = Len(mans'[n]) /\ TornRecords'
  <2>1. CASE n = vs.man
    <3>1. i = Len(mans[vs.man]) + 1
      BY <2>1, <1>2, <1>4, <1>5
    <3> QED BY <2>1, <3>1, <1>4, <1>5, OptionsStay, Zenon
  <2>2. CASE n # vs.man
    BY <2>2, <1>1, <1>3, <1>5, OptionsStay, Zenon DEF FilesSafe, TornIsLast
  <2> QED BY <2>1, <2>2, Zenon
<1>6. TornIsLast'
  BY <1>5, Zenon DEF TornIsLast
<1> QED BY <1>2, <1>3, <1>6, Zenon

\* An edit in the MANIFEST of CURRENT: every disk stays readable, with the tables of the
\* edit or without them.
LEMMA AppendToCurrent ==
  ASSUME FilesInvariant, Dependable, TypeOK', la.at = "add", ~la.new, opt' = opt, dir' = dir,
         lag' = lag, tbls' = tbls, manSynced' = manSynced,
         mans' = [mans EXCEPT ![vs.man] = Append(@, la.edit)]
  PROVE  ImagesReadable' /\ NextGrows' /\ Newest' = la.edit.next
<1>1. TypeOK /\ FilesSafe /\ Handles
  BY Zenon DEF FilesInvariant
<1>2. run \in {"replay", "up"} /\ vs.open /\ ~Halted
  BY <1>1, Zenon DEF Handles, Halted
<1>3. PICK c \in Files : c = vs.man /\ c = dir.current
  BY <1>1, <1>2, Zenon DEF Handles, FilesSafe, ManifestFollows, Replacing
<1> DEFINE s == mans[c]
           t == mans'[c]
           L == Len(s)
<1>4. /\ la.edit.meta /\ Newest <= la.edit.next /\ c < la.edit.next
      /\ \A n \in la.edit.add :
           n < la.edit.next /\ tbls[n].synced /\ \A d \in lag : n \in d.tables
  BY <1>1, <1>3, Zenon DEF FilesSafe, ApplyingEdit
<1>5. la.edit \in Edits /\ la.edit # Torn /\ la.edit.next \in Nat
  BY <1>1, NumberTypes, TornIsNoEdit, Zenon
<1>6. /\ Newest \in Nat /\ dir \in lag
      /\ \A d \in lag : d.current # 0 /\ d.current \in Files /\ d.current \in d.mans
  BY <1>2, OpenFacts, Zenon
<1>7. /\ c \in Files /\ s \in Seq(Edits \cup {Torn}) /\ L \in Nat /\ Whole(s) = L /\ L > 0
      /\ \A i \in 1..L : s[i] \in Edits /\ s[i] # Torn
  BY <1>2, <1>3, OpenManifest, Zenon
<1>8. t = Append(s, la.edit) /\ \A n \in Files : n # c => mans'[n] = mans[n]
  BY <1>2, <1>3, <1>5, TornAppend, Zenon
<1>9. /\ t[L + 1] = la.edit /\ \A i \in 1..L : t[i] = s[i]
      /\ Whole(t) = L + 1 /\ LiveAt(t, L + 1) = (LiveAt(s, L) \ la.edit.del) \cup la.edit.add
  <2> HIDE DEF s, t
  <2> QED BY <1>5, <1>7, <1>8, AppendEdit DEF L
<1>10. L \in Heads(c) /\ Newest = s[L].next
  BY <1>1, <1>3, <1>7, ManifestFacts, Zenon DEF FilesSafe, Newest
<1>11. Newest' = la.edit.next
  BY <1>3, <1>9, Zenon DEF Newest
<1>12. \A n \in Files : n # c => Heads(n)' = Heads(n)
  BY <1>8, OptionsStay DEF Heads
<1>13. \A j \in Heads(c)' : j = L + 1 \/ (j \in Heads(c) /\ j \in 0..L)
  <2>1. \A j \in Heads(c)' : /\ j \in 0..Whole(t)
                             /\ j = Whole(t) \/ (MachineCrashes /\ manSynced[c] <= j)
    BY OptionsStay, Zenon DEF Heads
  <2>2. \A j \in 0..L : MachineCrashes /\ manSynced[c] <= j => j \in Heads(c)
    BY <1>7, Zenon DEF Heads
  <2>3. \A j \in 0..L + 1 : j \in 0..L \/ j = L + 1
    BY <1>7
  <2> HIDE DEF t, s, L
  <2> QED BY <2>1, <2>2, <2>3, <1>9, Zenon
<1> HIDE DEF t, s, L
<1>14. ASSUME NEW d \in lag, d.current = c
       PROVE  \A n \in LiveAt(s, L) : n \in d.tables /\ tbls[n].synced /\ n < la.edit.next
  <2>1. \A n \in LiveAt(s, L) : n \in d.tables /\ tbls[n].synced /\ n < s[L].next
    BY <1>1, <1>6, <1>10, <1>14, Zenon DEF FilesSafe, ImagesReadable, s
  <2>2. \A n \in LiveAt(s, L) : n \in Nat
    BY <1>1, NumberTypes, Zenon DEF LiveAt
  <2> QED BY <2>1, <2>2, <1>4, <1>5, <1>6, <1>10
<1>15. ASSUME NEW d \in lag, NEW j \in Heads(d.current)'
       PROVE  /\ j > 0 /\ mans'[d.current][j].meta /\ d.current < mans'[d.current][j].next
              /\ mans'[d.current][j].next <= la.edit.next
              /\ \A n \in LiveAt(mans'[d.current], j) :
                   n \in d.tables /\ tbls[n].synced /\ n < mans'[d.current][j].next
  <2>1. CASE d.current = c /\ j = L + 1
    <3>1. mans'[d.current] = t /\ t[j] = la.edit
      BY <2>1, <1>9, Zenon DEF t
    <3>2. \A n \in LiveAt(t, j) : n \in d.tables /\ tbls[n].synced /\ n < la.edit.next
      BY <2>1, <1>4, <1>9, <1>14, Zenon
    <3>3. j > 0 /\ d.current < la.edit.next
      BY <2>1, <1>4, <1>7
    <3>4. /\ mans'[d.current][j] = la.edit
          /\ LiveAt(mans'[d.current], j) = LiveAt(t, j)
      BY <3>1, Zenon
    <3>5. la.edit.next <= la.edit.next
      BY <1>5
    <3> QED BY <3>2, <3>3, <3>4, <3>5, <1>4, Zenon
  <2>2. CASE j \in Heads(d.current) /\ (d.current = c => j \in 0..L)
    <3>1. /\ j > 0 /\ mans[d.current][j].meta /\ d.current < mans[d.current][j].next
          /\ \A n \in LiveAt(mans[d.current], j) :
               n \in d.tables /\ tbls[n].synced /\ n < mans[d.current][j].next
      BY <2>2, <1>1, <1>6, Zenon DEF FilesSafe, ImagesReadable
    <3>2. mans[d.current][j].next <= Newest
      BY <2>2, <1>1, <1>6, Zenon DEF FilesSafe, NextGrows
    <3>3. j \in Nat /\ mans[d.current][j] \in Edits
      BY <2>2, <1>1, <1>6, NewestIsNumber DEF FilesSafe
    <3>4. \A k \in 1..j : mans'[d.current][k] = mans[d.current][k]
      <4>1. CASE d.current = c
        <5>1. \A k \in 1..j : k \in 1..L
          BY <4>1, <2>2, <3>3, <1>7
        <5>2. mans'[d.current] = t /\ mans[d.current] = s
          BY <4>1, Zenon DEF s, t
        <5> QED BY <5>1, <5>2, <1>9, Zenon
      <4>2. CASE d.current # c
        BY <4>2, <1>6, <1>8, Zenon
      <4> QED BY <4>1, <4>2, Zenon
    <3>5. LiveAt(mans'[d.current], j) = LiveAt(mans[d.current], j)
      BY <3>3, <3>4, LiveAtSame, ZenonT(60)
    <3>6. mans'[d.current][j] = mans[d.current][j]
      <4>1. j \in 1..j
        BY <3>1, <3>3
      <4> QED BY <4>1, <3>4, Zenon
    <3>7. mans[d.current][j].next \in Nat
      BY <3>3, EditFields, Zenon
    <3>8. mans[d.current][j].next <= la.edit.next
      BY <3>2, <3>7, <1>4, <1>5, <1>6
    <3> QED BY <3>1, <3>5, <3>6, <3>8, Zenon
  <2> QED BY <2>1, <2>2, <1>6, <1>12, <1>13, Zenon
<1>16. ImagesReadable'
  BY <1>6, <1>15, Zenon DEF ImagesReadable
<1>17. NextGrows'
  BY <1>11, <1>15, Zenon DEF NextGrows
<1> QED BY <1>11, <1>16, <1>17, Zenon

\* LogAndApply writes an edit, to the MANIFEST of CURRENT or to one no CURRENT names.
LEMMA AppendImages ==
  ASSUME FilesInvariant, Dependable, TypeOK', la.at = "add", opt' = opt, dir' = dir,
         lag' = lag, tbls' = tbls, manSynced' = manSynced,
         mans' = [mans EXCEPT ![vs.man] = Append(@, la.edit)]
  PROVE  /\ TornIsLast' /\ ImagesReadable' /\ NextGrows' /\ Newest' <= la.edit.next
         /\ Newest' \in Nat
<1>1. TypeOK /\ FilesSafe /\ Handles
  BY Zenon DEF FilesInvariant
<1>2. run \in {"replay", "up"} /\ vs.open /\ ~Halted
  BY <1>1, Zenon DEF Handles, Halted
<1>3. la.edit \in Edits /\ la.edit # Torn /\ la.edit.next \in Nat
  BY <1>1, NumberTypes, TornIsNoEdit, Zenon
<1>4. TornIsLast' /\ vs.man \in Files /\ \A n \in Files : n # vs.man => mans'[n] = mans[n]
  BY <1>2, <1>3, TornAppend, Zenon
<1>5. CASE la.new
  <2>1. Newest <= la.edit.next /\ \A d \in lag : d.current # vs.man
    BY <1>1, <1>5, Zenon DEF FilesSafe, ApplyingEdit, ManifestFollows, Replacing
  <2>2. /\ dir \in lag /\ Newest \in Nat
        /\ \A d \in lag : /\ d.current \in Files /\ d.current \in d.mans
                          /\ \A n \in Listed(d.current) : n \in d.tables /\ tbls[n].synced
    BY <1>2, OpenFacts, Zenon
  <2>3. \A d \in lag : /\ mans'[d.current] = mans[d.current]
                       /\ manSynced[d.current] <= manSynced'[d.current]
    BY <2>1, <2>2, <1>1, <1>4, TypeFacts
  <2>4. ImagesReadable' /\ NextGrows' /\ Newest' = Newest
    BY <2>2, <2>3, <1>2, <1>4, DiskFrame, Zenon
  <2> QED BY <2>1, <2>2, <2>4, <1>4, Zenon
<1>6. CASE ~la.new
  BY <1>3, <1>4, <1>6, AppendToCurrent
<1> QED BY <1>5, <1>6, Zenon

LEMMA FilesAddEdit ==
  ASSUME FilesInvariant, Dependable, TypeOK', AddEdit
  PROVE  FilesSafe'
<1>1. TypeOK /\ FilesSafe /\ Handles
  BY Zenon DEF FilesInvariant
<1>2. /\ la.at = "add" /\ opt' = opt /\ dir' = dir /\ lag' = lag /\ tbls' = tbls /\ wr' = wr
      /\ pinned' = pinned /\ bg_error' = bg_error /\ fl' = fl /\ comp' = comp /\ rec' = rec
      /\ run' = run /\ gc' = gc /\ manSynced' = manSynced /\ vs' = vs /\ has_imm' = has_imm
      /\ mans' = [mans EXCEPT ![vs.man] = Append(@, la.edit)] /\ la' = [la EXCEPT !.at = "sync"]
  BY Zenon DEF AddEdit, bgVars, histVars, memVars
<1>3. run \in {"replay", "up"} /\ vs.open /\ ~Halted
  BY <1>1, <1>2, Zenon DEF Handles, Halted
<1>4. la.edit \in Edits /\ la.edit # Torn /\ la.edit.next \in Nat
  BY <1>1, NumberTypes, TornIsNoEdit, Zenon
<1>5. la'.edit = la.edit /\ la'.for = la.for /\ la'.new = la.new /\ la'.at = "sync"
  BY <1>1, <1>2, TypeFacts, Zenon DEF Applies
<1>6. /\ TornIsLast' /\ ImagesReadable' /\ NextGrows' /\ Newest' <= la.edit.next
      /\ Newest' \in Nat
  BY <1>2, AppendImages, Zenon
<1>7. Newest' <= vs.next /\ gc = {}
  BY <1>1, <1>2, <1>4, <1>6, NumberTypes DEF FilesSafe, ApplyingEdit
<1>8. Started'
  BY <1>1, <1>2, <1>3, OptionsStay, Zenon DEF FilesSafe, Started
<1>9. NumbersInUse'
  <2>1. PendingOutputs' = PendingOutputs
    BY <1>2, Zenon DEF PendingOutputs
  <2> QED BY <1>1, <1>2, <1>7, <2>1, Zenon DEF FilesSafe, NumbersInUse
<1>10. /\ mans'[vs.man] # <<>> /\ mans'[vs.man][Len(mans'[vs.man])] = la.edit
       /\ LiveAt(mans'[vs.man], Len(mans'[vs.man])) =
            (LiveAt(mans[vs.man], Len(mans[vs.man])) \ la.edit.del) \cup la.edit.add
  <2> DEFINE s == mans[vs.man]
             t == mans'[vs.man]
  <2>1. /\ s \in Seq(Edits \cup {Torn}) /\ Len(s) \in Nat /\ \A i \in 1..Len(s) : s[i] # Torn
    BY <1>3, OpenManifest, Zenon
  <2>2. t = Append(s, la.edit)
    BY <1>2, <1>3, <1>4, TornAppend, Zenon
  <2> HIDE DEF s, t
  <2>3. /\ Len(t) = Len(s) + 1 /\ t[Len(s) + 1] = la.edit
        /\ LiveAt(t, Len(s) + 1) = (LiveAt(s, Len(s)) \ la.edit.del) \cup la.edit.add
    BY <2>1, <2>2, <1>4, AppendEdit, Zenon
  <2>4. t # <<>>
    BY <2>1, <2>3, SeqFacts
  <2> QED BY <2>3, <2>4, Zenon DEF s, t
<1>11. ManifestFollows'
  <2>1. ~Written /\ Written' /\ (Replacing' <=> Replacing)
    BY <1>1, <1>2, <1>5, NumberTypes, Zenon DEF Written, Replacing
  <2>2. /\ Replacing => vs.man \in dir.mans /\ \A d \in lag : d.current # vs.man
        /\ ~Replacing => dir.current = vs.man
        /\ ~bg_error => LiveAt(mans[vs.man], Len(mans[vs.man])) = vs.live
    BY <2>1, <1>1, <1>3, Zenon DEF FilesSafe, ManifestFollows
  <2> QED BY <2>1, <2>2, <1>2, <1>3, <1>4, <1>5, <1>10, Zenon DEF ManifestFollows
<1>12. ApplyingEdit'
  BY <1>1, <1>2, <1>3, <1>5, <1>6, <1>10 DEF FilesSafe, ApplyingEdit, Written
<1>13. BuildingTable' /\ CollectingFiles'
  BY <1>1, <1>2, <1>5, <1>7, OptionsStay, Zenon DEF FilesSafe, BuildingTable, CollectingFiles
<1> QED BY <1>6, <1>8, <1>9, <1>11, <1>12, <1>13, Zenon DEF FilesSafe

\* Half an edit at the end of the MANIFEST changes nothing that a recovery reads.
LEMMA TornImages ==
  ASSUME FilesInvariant, Dependable, TypeOK', la.at = "add", TornRecords, opt' = opt, dir' = dir,
         lag' = lag, tbls' = tbls, manSynced' = manSynced,
         mans' = [mans EXCEPT ![vs.man] = Append(@, Torn)]
  PROVE  /\ TornIsLast' /\ ImagesReadable' /\ NextGrows' /\ Newest' = Newest
         /\ mans'[vs.man] # <<>>
<1>0. TypeOK /\ FilesSafe /\ Handles
  BY Zenon DEF FilesInvariant
<1>1. run \in {"replay", "up"} /\ vs.open /\ ~Halted
  BY <1>0, Zenon DEF Handles, Halted
<1>2. PICK c \in Files : c = vs.man
  BY <1>0, <1>1, Zenon DEF Handles
<1> DEFINE s == mans[c]
           t == mans'[c]
<1>3. TornIsLast' /\ t = Append(s, Torn) /\ \A n \in Files : n # c => mans'[n] = mans[n]
  BY <1>1, <1>2, TornAppend, ZenonT(60)
<1>4. /\ s \in Seq(Edits \cup {Torn}) /\ Len(s) \in Nat /\ Whole(s) = Len(s)
      /\ \A i \in 1..Len(s) : s[i] # Torn
  BY <1>1, <1>2, OpenManifest, Zenon
<1>5. Whole(t) = Whole(s) /\ \A i \in 1..Whole(s) : t[i] = s[i]
  <2> HIDE DEF s, t
  <2> QED BY <1>3, <1>4, AppendEdit, Zenon
<1>6. \A n \in Files : /\ Whole(mans'[n]) = Whole(mans[n])
                       /\ \A i \in 1..Whole(mans[n]) : mans'[n][i] = mans[n][i]
  BY <1>3, <1>5, Zenon
<1>7. \A n \in Files : Heads(n)' = Heads(n)
  BY <1>6, OptionsStay DEF Heads
<1>8. \A d \in lag : d.current # 0 /\ d.current \in Files
  BY <1>1, OpenFacts, Zenon
<1>9. \A d \in lag : \A j \in Heads(d.current)' :
        /\ j \in Heads(d.current) /\ \A k \in 1..j : mans'[d.current][k] = mans[d.current][k]
  <2> SUFFICES ASSUME NEW d \in lag, NEW j \in Heads(d.current)', NEW k \in 1..j
               PROVE  mans'[d.current][k] = mans[d.current][k]
    BY <1>7, <1>8, Zenon
  <2>1. j \in 0..Whole(mans[d.current]) /\ Whole(mans[d.current]) \in Nat
    BY <1>0, <1>7, <1>8, ManifestFacts DEF FilesSafe
  <2>2. k \in 1..Whole(mans[d.current])
    BY <2>1
  <2> QED BY <2>2, <1>6, <1>8, Zenon
<1>10. Newest' = Newest /\ Newest \in Nat /\ dir \in lag
  <2>1. /\ Newest \in Nat /\ dir \in lag
    BY <1>1, OpenFacts, Zenon
  <2>2. Whole(mans[dir.current]) \in 1..Whole(mans[dir.current])
    BY <2>1, <1>8, <1>0, NewestIsNumber, ManifestFacts, Zenon DEF FilesSafe
  <2>3. /\ Whole(mans'[dir.current]) = Whole(mans[dir.current])
        /\ mans'[dir.current][Whole(mans[dir.current])] = mans[dir.current][Whole(mans[dir.current])]
    BY <2>1, <2>2, <1>6, <1>8, Zenon
  <2> QED BY <2>1, <2>3, Zenon DEF Newest
<1>11. ImagesReadable'
  BY <1>3, <1>8, <1>9, <1>0, ImagesFrame, Zenon DEF FilesSafe
<1>12. NextGrows'
  <2>1. Newest' \in Nat /\ Newest \in Nat /\ Newest <= Newest'
    BY <1>10
  <2> QED BY <2>1, <1>3, <1>8, <1>9, <1>0, NextFrame, ZenonT(60) DEF FilesSafe
<1>13. mans'[vs.man] # <<>>
  <2> HIDE DEF s, t
  <2>1. Len(t) = Len(s) + 1
    BY <1>3, <1>4, AppendEdit, Zenon
  <2>2. t # <<>>
    BY <2>1, <1>4, SeqFacts
  <2> QED BY <2>2, <1>2, Zenon DEF t
<1> QED BY <1>3, <1>10, <1>11, <1>12, <1>13, Zenon

\* A MANIFEST write that failed: the edit is there or not, or half of it is there and the
\* background thread has stopped.
LEMMA FilesApplyFails ==
  ASSUME FilesInvariant, Dependable, TypeOK', ApplyFails
  PROVE  FilesSafe'
<1>1. TypeOK /\ FilesSafe /\ Handles
  BY Zenon DEF FilesInvariant
<1>2. /\ la.at \in {"add", "sync"} /\ la.for # "open" /\ opt' = opt /\ dir' = dir /\ lag' = lag
      /\ tbls' = tbls /\ wr' = wr /\ pinned' = pinned /\ bg_error' /\ fl' = 0 /\ rec' = rec
      /\ run' = run /\ gc' = gc /\ manSynced' = manSynced /\ vs' = vs /\ la' = NoApply
      /\ comp' = (IF la.for = "comp" THEN NoComp ELSE comp) /\ EnvErrors
  BY Zenon DEF ApplyFails, histVars, memVars
<1>3. run = "up" /\ vs.open /\ ~la.new /\ gc = {} /\ la.edit.next <= vs.next /\ ~Halted
  BY <1>1, <1>2, Zenon DEF Handles, FilesSafe, ApplyingEdit, Halted
<1>4. \/ mans' = mans
      \/ la.at = "add" /\ mans' = [mans EXCEPT ![vs.man] = Append(@, la.edit)]
      \/ la.at = "add" /\ TornRecords /\ mans' = [mans EXCEPT ![vs.man] = Append(@, Torn)]
  BY Zenon DEF ApplyFails, EditMayBeThere, EditWholeOrAbsent
<1>12. TornRecords => Halted'
  <2>1. fl # 0 => ~comp.on \/ NestedFlush
    BY <1>1, Zenon DEF FilesSafe, BuildingTable
  <2>2. la.for = "comp" \/ fl # 0
    BY <1>1, <1>2, TypeFacts, Zenon DEF Applies, FilesSafe, ApplyingEdit
  <2>3. TornRecords => ~NestedFlush
    BY <1>2, Zenon DEF Dependable
  <2> QED BY <2>1, <2>2, <2>3, <1>2, Zenon DEF Halted, NoApply, NoComp
<1>5. la.edit \in Edits /\ la.edit # Torn /\ la.edit.next \in Nat /\ vs.next \in Nat
  BY <1>1, NumberTypes, TornIsNoEdit, Zenon
<1>6. /\ TornIsLast' /\ ImagesReadable' /\ NextGrows' /\ Newest' <= vs.next
      /\ mans'[vs.man] # <<>> /\ (mans'[vs.man][Len(mans'[vs.man])] = Torn => Halted')
  <2>1. CASE mans' = mans
    <3>1. TornIsLast' /\ ImagesReadable' /\ NextGrows' /\ Newest' = Newest
      BY <2>1, <1>1, <1>2, DiskSame, Zenon DEF FilesSafe
    <3>2. mans[vs.man] # <<>> /\ mans[vs.man][Len(mans[vs.man])] # Torn /\ Newest <= vs.next
      BY <1>1, <1>3, Zenon DEF FilesSafe, ManifestFollows, NumbersInUse
    <3> QED BY <2>1, <3>1, <3>2, Zenon
  <2>2. CASE la.at = "add" /\ mans' = [mans EXCEPT ![vs.man] = Append(@, la.edit)]
    <3> DEFINE s == mans[vs.man]
               t == mans'[vs.man]
    <3>1. /\ TornIsLast' /\ ImagesReadable' /\ NextGrows' /\ Newest' <= la.edit.next
          /\ Newest' \in Nat
      BY <2>2, <1>2, AppendImages, Zenon
    <3>2. /\ s \in Seq(Edits \cup {Torn}) /\ Len(s) \in Nat /\ \A i \in 1..Len(s) : s[i] # Torn
      BY <1>3, OpenManifest, Zenon
    <3>3. t = Append(s, la.edit)
      BY <2>2, <1>2, <1>3, <1>5, TornAppend, Zenon
    <3> HIDE DEF s, t
    <3>4. Len(t) = Len(s) + 1 /\ t[Len(s) + 1] = la.edit
      BY <3>2, <3>3, <1>5, AppendEdit, Zenon
    <3>5. t # <<>>
      BY <3>2, <3>4, SeqFacts
    <3> QED BY <3>1, <3>4, <3>5, <1>3, <1>5 DEF t
  <2>3. CASE la.at = "add" /\ TornRecords /\ mans' = [mans EXCEPT ![vs.man] = Append(@, Torn)]
    <3>1. /\ TornIsLast' /\ ImagesReadable' /\ NextGrows' /\ Newest' = Newest
          /\ mans'[vs.man] # <<>>
      BY <2>3, <1>2, TornImages, Zenon
    <3>2. Newest <= vs.next
      BY <1>1, <1>3, Zenon DEF FilesSafe, NumbersInUse
    <3> QED BY <2>3, <3>1, <3>2, <1>12, Zenon
  <2> QED BY <2>1, <2>2, <2>3, <1>4, Zenon
<1>7. la'.at = "none"
  BY <1>2, Zenon DEF NoApply
<1>8. Started'
  BY <1>1, <1>2, <1>3, OptionsStay, Zenon DEF FilesSafe, Started
<1>9. NumbersInUse'
  <2>1. PendingOutputs' \subseteq PendingOutputs
    BY <1>2 DEF PendingOutputs, NoComp
  <2> QED BY <1>1, <1>2, <1>3, <1>6, <2>1, Zenon DEF FilesSafe, NumbersInUse
<1>10. ManifestFollows'
  <2>1. dir.current = vs.man
    BY <1>1, <1>3, Zenon DEF FilesSafe, ManifestFollows, Replacing
  <2> QED BY <2>1, <1>2, <1>3, <1>6, <1>7, Zenon DEF ManifestFollows, Replacing
<1>11. ApplyingEdit' /\ BuildingTable' /\ CollectingFiles'
  BY <1>2, <1>3, <1>7, Zenon DEF ApplyingEdit, BuildingTable, CollectingFiles
<1> QED BY <1>6, <1>8, <1>9, <1>10, <1>11, Zenon DEF FilesSafe

-----------------------------------------------------------------------------
(* The process goes away.                                                  *)

\* Nothing but the disk is left of a stopped process.
LEMMA ResetFrame ==
  ASSUME Reset, ~MachineCrashes' => lag' = {dir'}, (\E d \in lag' : d.current = 0) => Fresh',
         TornIsLast', ImagesReadable', NextGrows'
  PROVE  FilesSafe'
<1>1. /\ run' = "down" /\ ~vs'.open /\ la'.at = "none" /\ fl' = 0 /\ ~comp'.on /\ pinned' = {}
      /\ gc' = {} /\ ~bg_error' /\ wr'.at = "idle"
  BY Zenon DEF Reset, NoVs, NoApply, NoComp, NoWrite
<1>2. Started'
  BY <1>1, Zenon DEF Started
<1>3. NumbersInUse' /\ ManifestFollows' /\ ApplyingEdit' /\ BuildingTable' /\ CollectingFiles'
  BY <1>1, Zenon DEF NumbersInUse, ManifestFollows, Replacing, ApplyingEdit, BuildingTable, CollectingFiles
<1> QED BY <1>2, <1>3, Zenon DEF FilesSafe

LEMMA FilesOpenFails ==
  ASSUME FilesInvariant, Dependable, TypeOK', OpenFails
  PROVE  FilesSafe'
<1>1. TypeOK /\ FilesSafe /\ Handles
  BY Zenon DEF FilesInvariant
<1>2. /\ la.at \in {"new", "add", "sync", "current"} /\ la.for = "open" /\ opt' = opt /\ tbls' = tbls /\ manSynced' = manSynced
      /\ Reset /\ IF la.new THEN ChangeDir([dir EXCEPT !.mans = @ \ {vs.man}])
                            ELSE UNCHANGED <<dir, lag>>
  BY Zenon DEF OpenFails, histVars
<1>3. run = "replay" /\ (la.at = "new" <=> ~vs.open) /\ ~Halted
  BY <1>1, <1>2, Zenon DEF FilesSafe, ApplyingEdit, Halted
<1>4. \/ mans' = mans
      \/ la.at = "add" /\ mans' = [mans EXCEPT ![vs.man] = Append(@, la.edit)]
      \/ la.at = "add" /\ TornRecords /\ mans' = [mans EXCEPT ![vs.man] = Append(@, Torn)]
  BY Zenon DEF OpenFails, EditMayBeThere, EditWholeOrAbsent
<1>5. la.edit \in Edits /\ la.edit # Torn
  BY <1>1, NumberTypes, TornIsNoEdit, Zenon
<1>6. /\ TornIsLast' /\ \A n \in Files : n # vs.man => mans'[n] = mans[n]
  <2>1. CASE mans' = mans
    BY <2>1, <1>1, <1>2, TornFrame, Zenon DEF FilesSafe
  <2>2. CASE la.at = "add" /\ mans' = [mans EXCEPT ![vs.man] = Append(@, la.edit)]
    BY <2>2, <1>2, <1>3, <1>5, TornAppend, Zenon
  <2>3. CASE la.at = "add" /\ TornRecords /\ mans' = [mans EXCEPT ![vs.man] = Append(@, Torn)]
    BY <2>3, <1>2, <1>3, TornAppend, Zenon
  <2> QED BY <2>1, <2>2, <2>3, <1>4, Zenon
<1>7. /\ dir \in lag
      /\ \A d \in lag : /\ d.current # 0 /\ d.current \in Files /\ d.current \in d.mans
                        /\ \A n \in Listed(d.current) : n \in d.tables /\ tbls[n].synced
  BY <1>3, OpenFacts, Zenon
<1>8. CASE la.new
  <2>1. \A d \in lag : d.current # vs.man
    BY <1>1, <1>2, <1>3, <1>8, Zenon DEF FilesSafe, ManifestFollows, Replacing
  <2>2. dir \in Dirs
    BY <1>1, Zenon DEF TypeOK, TypeDir
  <2>3. /\ dir'.current = dir.current /\ dir'.mans = dir.mans \ {vs.man} /\ dir'.tables = dir.tables
        /\ lag' \subseteq lag \cup {dir'} /\ (~MachineCrashes' => lag' = {dir'})
    BY <1>2, <1>8, <2>2, ChangedDir DEF Dirs
  <2>4. \A d \in lag : /\ mans'[d.current] = mans[d.current]
                       /\ manSynced[d.current] <= manSynced'[d.current]
    <3>1. \A d \in lag : manSynced[d.current] \in Nat
      BY <1>1, <1>7, Zenon DEF TypeOK, TypeMans
    <3>2. \A i \in Nat : i <= i
      OBVIOUS
    <3> QED BY <2>1, <3>1, <3>2, <1>2, <1>6, <1>7, Zenon
  <2>5. ImagesReadable' /\ NextGrows' /\ \A e \in lag' : e.current # 0
    BY <2>1, <2>3, <2>4, <1>2, <1>3, <1>6, <1>7, DiskFrame
  <2> QED BY <2>3, <2>5, <1>2, <1>6, ResetFrame
<1>9. CASE ~la.new
  <2>1. dir' = dir /\ lag' = lag
    BY <1>2, <1>9, Zenon
  <2>2. ImagesReadable' /\ NextGrows'
    <3>1. CASE mans' = mans
      BY <3>1, <2>1, <1>1, <1>2, DiskSame DEF FilesSafe
    <3>2. CASE la.at = "add" /\ mans' = [mans EXCEPT ![vs.man] = Append(@, la.edit)]
      BY <3>2, <2>1, <1>2, AppendImages, Zenon
    <3>3. CASE la.at = "add" /\ TornRecords /\ mans' = [mans EXCEPT ![vs.man] = Append(@, Torn)]
      BY <3>3, <2>1, <1>2, TornImages, Zenon
    <3> QED BY <3>1, <3>2, <3>3, <1>4, Zenon
  <2>3. ~MachineCrashes' => lag' = {dir'}
    BY <2>1, <1>1, <1>2, OptionsStay DEF FilesSafe, Started
  <2> QED BY <2>1, <2>2, <2>3, <1>2, <1>6, <1>7, ResetFrame
<1> QED BY <1>8, <1>9, Zenon

\* A process that stops leaves the disk as it is, or with half an edit at the end of the
\* MANIFEST, which log::Reader skips.
LEMMA FilesProcessCrash ==
  ASSUME FilesInvariant, Dependable, TypeOK', ProcessCrash \/ CrashInAddRecord
  PROVE  FilesSafe'
<1>1. TypeOK /\ FilesSafe /\ Handles
  BY Zenon DEF FilesInvariant
<1>2. /\ Reset /\ opt' = opt /\ dir' = dir /\ lag' = lag /\ tbls' = tbls /\ manSynced' = manSynced
      /\ \/ mans' = mans
         \/ /\ la.at = "add" /\ TornRecords
            /\ mans' = [mans EXCEPT ![vs.man] = Append(@, Torn)]
  BY Zenon DEF ProcessCrash, CrashInAddRecord, diskVars
<1>3. /\ ~MachineCrashes' => lag' = {dir'}
      /\ (\E d \in lag' : d.current = 0) => Fresh'
  BY <1>1, <1>2, OptionsStay DEF FilesSafe, Started
<1>4. CASE mans' = mans
  <2>1. TornIsLast' /\ ImagesReadable' /\ NextGrows'
    BY <1>1, <1>2, <1>4, DiskSame, Zenon DEF FilesSafe
  <2> QED BY <2>1, <1>2, <1>3, ResetFrame
<1>5. CASE la.at = "add" /\ TornRecords /\ mans' = [mans EXCEPT ![vs.man] = Append(@, Torn)]
  BY <1>2, <1>3, <1>5, TornImages, ResetFrame, ZenonT(60)
<1> QED BY <1>2, <1>4, <1>5, Zenon

\* What a crash of the machine leaves of a MANIFEST: one of its heads.
LEMMA CutManifest ==
  ASSUME TypeOK, TornIsLast, MachineCrashes, NEW n \in Files,
         NEW t \in Seq(Edits \cup {Torn}), t \in Cuts(mans[n], manSynced[n]) \/ t = mans[n]
  PROVE  /\ \A i \in 1..Len(t) : t[i] = Torn => i = Len(t) /\ TornRecords
         /\ Len(t) \in Nat /\ Whole(t) \in Heads(n) /\ Whole(t) <= Len(t)
         /\ \A i \in 1..Whole(t) : t[i] = mans[n][i]
<1> DEFINE s == mans[n]
<1>1. /\ s \in Seq(Edits \cup {Torn}) /\ Len(s) \in Nat /\ manSynced[n] \in Nat
      /\ manSynced[n] <= Len(s) /\ Whole(s) \in 0..Len(s) /\ Len(s) - 1 <= Whole(s)
      /\ \A i \in 1..Whole(s) : s[i] # Torn
  BY ManifestFacts, Zenon
<1>2. \A i \in 1..Len(s) : s[i] = Torn => i = Len(s) /\ TornRecords
  BY Zenon DEF TornIsLast
<1>3. \A j \in 0..Whole(s) : j = Whole(s) \/ manSynced[n] <= j => j \in Heads(n)
  BY Zenon DEF Heads
<1> HIDE DEF s
<1>4. PICK i \in manSynced[n]..Len(s) :
        /\ \A k \in 1..i : t[k] = s[k]
        /\ \/ Len(t) = i
           \/ i < Len(s) /\ TornRecords /\ Len(t) = i + 1 /\ t[i + 1] = Torn
  <2>1. CASE t \in Cuts(s, manSynced[n])
    <3>1. PartOf(t, s, manSynced[n])
      BY <2>1, <1>1, CutIsPrefix, Zenon
    <3> QED BY <3>1, Zenon DEF PartOf
  <2>2. CASE t = s
    BY <2>2, <1>1
  <2> QED BY <2>1, <2>2, Zenon DEF s
<1>5. i \in Nat /\ manSynced[n] <= i /\ i <= Len(s) /\ Len(t) \in Nat /\ (t # <<>> <=> Len(t) # 0)
  BY <1>1, <1>4, SeqFacts
<1>6. \A k \in 1..Len(t) : t[k] = Torn => k = Len(t) /\ TornRecords
  <2> SUFFICES ASSUME NEW k \in 1..Len(t), t[k] = Torn
               PROVE  k = Len(t) /\ TornRecords
    OBVIOUS
  <2>1. CASE k \in 1..i
    <3>1. k \in 1..Len(s) /\ s[k] = Torn
      BY <2>1, <1>4, <1>5
    <3>2. k = Len(s) /\ TornRecords
      BY <3>1, <1>2, Zenon
    <3> QED BY <3>2, <2>1, <1>4, <1>5
  <2>2. CASE k \notin 1..i
    BY <2>2, <1>4, <1>5
  <2> QED BY <2>1, <2>2, Zenon
<1>7. /\ Whole(t) \in Heads(n) /\ Whole(t) <= Len(t) /\ \A k \in 1..Whole(t) : t[k] = s[k]
  <2>1. CASE t # <<>> /\ t[Len(t)] = Torn
    <3>1. Whole(t) = Len(t) - 1
      BY <2>1, Zenon DEF Whole
    <3>2. CASE Len(t) = i
      <4>1. i \in 1..i /\ i \in 1..Len(s)
        BY <2>1, <3>2, <1>5
      <4>2. s[i] = Torn
        BY <4>1, <2>1, <3>2, <1>4
      <4>3. i = Len(s)
        BY <4>1, <4>2, <1>2, Zenon
      <4>4. Whole(s) # Len(s)
        BY <4>1, <4>2, <4>3, <1>1, Zenon
      <4>5. Whole(s) = i - 1 /\ i - 1 \in 0..Whole(s) /\ i - 1 <= i /\ 1..(i - 1) \subseteq 1..i
        BY <4>1, <4>3, <4>4, <1>1, <1>5
      <4> QED BY <4>5, <3>1, <3>2, <1>3, <1>4, Zenon
    <3>3. CASE i < Len(s) /\ Len(t) = i + 1
      <4>1. i \in 0..Whole(s)
        BY <3>3, <1>1, <1>5
      <4>2. Len(t) - 1 = i /\ i <= Len(t)
        BY <3>3, <1>5
      <4> QED BY <4>1, <4>2, <3>1, <1>3, <1>4, <1>5, Zenon
    <3> QED BY <3>2, <3>3, <1>4
  <2>2. CASE ~(t # <<>> /\ t[Len(t)] = Torn)
    <3>1. Whole(t) = Len(t)
      BY <2>2, Zenon DEF Whole
    <3>2. Len(t) = i
      BY <2>2, <1>4, <1>5
    <3>3. i \in 0..Whole(s)
      <4>1. CASE i = 0
        BY <4>1, <1>1
      <4>2. CASE i # 0
        <5>1. i \in 1..i /\ s[i] # Torn
          BY <4>2, <2>2, <3>2, <1>4, <1>5
        <5>2. Whole(s) = Len(s) - 1 => s[Len(s)] = Torn
          BY <1>1 DEF Whole
        <5> QED BY <5>1, <5>2, <1>1, <1>5
      <4> QED BY <4>1, <4>2, Zenon
    <3>4. i <= Len(t)
      BY <3>2, <1>5
    <3> QED BY <3>1, <3>2, <3>3, <3>4, <1>3, <1>4, <1>5, Zenon
  <2> QED BY <2>1, <2>2, Zenon
<1> QED BY <1>5, <1>6, <1>7, Zenon DEF s

\* A crash of the machine leaves one of the disks it may leave, with one of the heads of
\* its MANIFEST.
LEMMA FilesMachineCrash ==
  ASSUME FilesInvariant, Dependable, TypeOK', MachineCrash
  PROVE  FilesSafe'
<1>1. TypeOK /\ FilesSafe
  BY Zenon DEF FilesInvariant
<1>2. /\ MachineCrashes /\ Reset /\ opt' = opt
      /\ manSynced' = [n \in Files |-> Len(mans'[n])]
      /\ tbls' = [n \in Files |-> IF tbls[n].synced THEN tbls[n] ELSE NoTable]
  BY Zenon DEF MachineCrash
<1>3. PICK d \in lag :
        /\ dir' = d /\ lag' = {d}
        /\ \A n \in Files : mans'[n] \in Cuts(mans[n], manSynced[n]) \/ mans'[n] = mans[n]
  BY <1>1, MachineCrashCuts, Zenon
<1>4. mans' \in [Files -> Seq(Edits \cup {Torn})]
  <2>1. writes' = writes
    BY Zenon DEF MachineCrash
  <2>2. Edits' = Edits
    BY <2>1, TypesStay, Zenon
  <2> QED BY <2>2, Zenon DEF TypeOK, TypeMans
<1>5. \A n \in Files :
        /\ \A i \in 1..Len(mans'[n]) : mans'[n][i] = Torn => i = Len(mans'[n]) /\ TornRecords
        /\ Len(mans'[n]) \in Nat /\ Whole(mans'[n]) \in Heads(n)
        /\ Whole(mans'[n]) <= Len(mans'[n])
        /\ \A i \in 1..Whole(mans'[n]) : mans'[n][i] = mans[n][i]
  <2> SUFFICES ASSUME NEW n \in Files
               PROVE  /\ \A i \in 1..Len(mans'[n]) :
                           mans'[n][i] = Torn => i = Len(mans'[n]) /\ TornRecords
                      /\ Len(mans'[n]) \in Nat /\ Whole(mans'[n]) \in Heads(n)
                      /\ Whole(mans'[n]) <= Len(mans'[n])
                      /\ \A i \in 1..Whole(mans'[n]) : mans'[n][i] = mans[n][i]
    OBVIOUS
  <2>1. /\ mans'[n] \in Seq(Edits \cup {Torn})
        /\ mans'[n] \in Cuts(mans[n], manSynced[n]) \/ mans'[n] = mans[n]
    BY <1>3, <1>4, Zenon
  <2>2. TornIsLast
    BY <1>1, <1>2, Zenon DEF FilesSafe
  <2> QED BY <2>1, <2>2, <1>1, <1>2, CutManifest, Zenon
<1>6. TornIsLast'
  BY <1>2, <1>5, OptionsStay DEF TornIsLast
<1>7. d.current # 0 /\ d.current \in Files
  BY <1>1, <1>2 DEF FilesSafe, Started, Dependable, TypeOK, TypeDir, Dirs
<1>8. PICK c \in Files : c = d.current
  BY <1>7, Zenon
<1>9. Heads(c)' = {Whole(mans'[c])} /\ Whole(mans'[c]) \in Heads(c)
  <2>1. manSynced'[c] = Len(mans'[c]) /\ Whole(mans'[c]) \in Nat
    BY <1>1, <1>2, <1>5, ManifestFacts DEF FilesSafe
  <2> QED BY <2>1, <1>5 DEF Heads
<1>10. \A n \in LiveAt(mans[c], Whole(mans'[c])) : tbls[n].synced => tbls'[n].synced
  BY <1>2, Zenon DEF LiveAt
<1>11. ImagesReadable'
  <2>1. \A e \in lag' : e = d
    BY <1>3, Zenon
  <2>2. \A j \in Heads(c)' : /\ j \in Heads(c) /\ \A k \in 1..j : mans'[c][k] = mans[c][k]
                            /\ \A n \in LiveAt(mans[c], j) : tbls[n].synced => tbls'[n].synced
    BY <1>5, <1>9, <1>10, Zenon
  <2>3. TornIsLast /\ ImagesReadable
    BY <1>1, Zenon DEF FilesSafe
  <2> QED BY <2>1, <2>2, <2>3, <1>1, <1>6, <1>8, ImagesFrame, ZenonT(60)
<1>12. NextGrows'
  <2>1. Whole(mans'[c]) > 0
    BY <1>1, <1>7, <1>8, <1>9, Zenon DEF FilesSafe, ImagesReadable
  <2>2. Whole(mans'[c]) \in 1..Whole(mans[c]) /\ Whole(mans'[c]) \in 1..Whole(mans'[c])
    BY <2>1, <1>1, <1>9, ManifestFacts DEF FilesSafe
  <2>3. mans'[c][Whole(mans'[c])] \in Edits
    BY <2>2, <1>1, <1>5, ManifestFacts DEF FilesSafe
  <2>4. mans'[c][Whole(mans'[c])].next \in Nat
    BY <2>3, EditFields, Zenon
  <2> QED BY <2>4, <1>3, <1>8, <1>9 DEF NextGrows, Newest
<1> QED BY <1>2, <1>3, <1>6, <1>7, <1>11, <1>12, OptionsStay, ResetFrame, ZenonT(60)

-----------------------------------------------------------------------------
(* DB::Open.                                                               *)

\* The MANIFEST that NewDB writes.
LEMMA NewDBManifest ==
  ASSUME writes \in Nat
  PROVE  LET s == <<NewDBEdit>> IN
         /\ Len(s) = 1 /\ Whole(s) = 1 /\ s[1] = NewDBEdit /\ s[1] # Torn /\ LiveAt(s, 1) = {}
<1> DEFINE s == <<NewDBEdit>>
<1>1. Len(s) = 1 /\ s[1] = NewDBEdit /\ s # <<>>
  OBVIOUS
<1>2. NewDBEdit # Torn /\ NewDBEdit.add = {}
  BY ConstantTypes, TornIsNoEdit, Zenon DEF NewDBEdit
<1> HIDE DEF s
<1>3. Whole(s) = 1
  BY <1>1, <1>2, Zenon DEF Whole
<1>4. \A i \in 1..1 : s[i].add = {}
  BY <1>1, <1>2
<1>5. LiveAt(s, 1) = {}
  BY <1>4, Zenon DEF LiveAt
<1> QED BY <1>1, <1>2, <1>3, <1>5, Zenon DEF s

\* A new database has no CURRENT until its MANIFEST is there.
LEMMA FilesNewDB ==
  ASSUME FilesInvariant, Dependable, TypeOK', NewDB
  PROVE  FilesSafe'
<1>1. TypeOK /\ FilesSafe /\ Handles
  BY Zenon DEF FilesInvariant
<1>2. /\ run = "down" /\ dir.current = 0 /\ run' = "newdb" /\ opt' = opt /\ wr' = wr /\ vs' = vs
      /\ pinned' = pinned /\ bg_error' = bg_error /\ fl' = fl /\ comp' = comp /\ la' = la
      /\ gc' = gc /\ mans' = [mans EXCEPT ![1] = <<NewDBEdit>>]
      /\ ChangeDir([dir EXCEPT !.mans = @ \cup {1}])
  BY Zenon DEF NewDB, bgVars, histVars
<1>3. dir \in Dirs /\ dir \in lag /\ 1 \in Files /\ writes \in Nat
  BY <1>1, TypeFacts, Zenon DEF TypeOK, TypeDir
<1>4. Fresh /\ ~MachineCrashes
  BY <1>1, <1>2, <1>3 DEF FilesSafe, Started, Dependable
<1>5. lag' = {dir'} /\ dir'.current = 0 /\ 1 \in dir'.mans
  BY <1>2, <1>3, <1>4, OptionsStay, ChangedDir DEF Dirs
<1>6. /\ mans'[1] = <<NewDBEdit>> /\ \A n \in Files : n # 1 => mans'[n] = mans[n]
  BY <1>1, <1>2, <1>3, Zenon DEF TypeOK, TypeMans
<1>7. TornIsLast'
  <2> SUFFICES ASSUME NEW n \in Files, NEW i \in 1..Len(mans'[n]), mans'[n][i] = Torn
               PROVE  i = Len(mans'[n]) /\ TornRecords'
    BY Zenon DEF TornIsLast
  <2>1. CASE n = 1
    <3>1. Len(mans'[n]) = 1 /\ mans'[n][1] # Torn
      BY <2>1, <1>3, <1>6, NewDBManifest, ZenonT(60)
    <3> QED BY <3>1
  <2>2. CASE n # 1
    BY <2>2, <1>1, <1>2, <1>6, OptionsStay DEF FilesSafe, TornIsLast
  <2> QED BY <2>1, <2>2, Zenon
<1>8. ImagesReadable' /\ NextGrows'
  BY <1>5, Zenon DEF ImagesReadable, NextGrows
<1>9. la.at = "none" /\ ~vs.open /\ fl = 0 /\ gc = {}
  BY <1>1, <1>2, Zenon DEF Handles, FilesSafe, Started
<1>10. Started'
  BY <1>1, <1>2, <1>4, <1>5, <1>6, OptionsStay, ZenonT(60) DEF FilesSafe, Started
<1>11. NumbersInUse' /\ ManifestFollows' /\ ApplyingEdit' /\ BuildingTable' /\ CollectingFiles'
  BY <1>2, <1>9, Zenon
  DEF NumbersInUse, ManifestFollows, Replacing, ApplyingEdit, BuildingTable, CollectingFiles
<1> QED BY <1>7, <1>8, <1>10, <1>11, ZenonT(60) DEF FilesSafe

\* Its CURRENT names a MANIFEST that lists no table.
LEMMA FilesNewDBCurrent ==
  ASSUME FilesInvariant, Dependable, TypeOK', NewDBCurrent
  PROVE  FilesSafe'
<1>1. TypeOK /\ FilesSafe /\ Handles
  BY Zenon DEF FilesInvariant
<1>2. /\ run = "newdb" /\ run' = "down" /\ opt' = opt /\ wr' = wr /\ vs' = vs /\ la' = la
      /\ pinned' = pinned /\ bg_error' = bg_error /\ fl' = fl /\ comp' = comp /\ mans' = mans
      /\ gc' = gc /\ SetCurrentFile(1)
  BY Zenon DEF NewDBCurrent, bgVars, histVars
<1>3. dir \in Dirs /\ dir \in lag /\ 1 \in Files /\ writes \in Nat
  BY <1>1, TypeFacts, Zenon DEF TypeOK, TypeDir
<1>4. dir.current = 0 /\ 1 \in dir.mans /\ mans[1] = <<NewDBEdit>>
  BY <1>1, <1>2, ZenonT(60) DEF FilesSafe, Started
<1>5. Fresh /\ ~MachineCrashes
  BY <1>1, <1>3, <1>4 DEF FilesSafe, Started, Dependable
<1>6. lag' = {dir'} /\ dir'.current = 1 /\ 1 \in dir'.mans
  <2>1. lag' = {dir'} /\ dir' = [dir EXCEPT !.current = 1]
    BY <1>2, <1>5, Zenon DEF SetCurrentFile
  <2> QED BY <2>1, <1>3, <1>4 DEF Dirs
<1>7. TornIsLast'
  BY <1>1, <1>2, TornFrame, Zenon DEF FilesSafe
<1> DEFINE s == mans'[1]
<1>8. Whole(s) = 1 /\ s[1] = NewDBEdit /\ LiveAt(s, 1) = {}
  BY <1>2, <1>3, <1>4, NewDBManifest, ZenonT(60)
<1>9. \A j \in Heads(1)' : j = 1
  BY <1>2, <1>5, <1>8, OptionsStay DEF Heads
<1>10. NewDBEdit.meta /\ NewDBEdit.next = 2
  BY Zenon DEF NewDBEdit
<1> HIDE DEF s
<1>11. ImagesReadable'
  <2> SUFFICES \A j \in Heads(1)' : /\ j > 0 /\ s[j].meta /\ 1 < s[j].next
                                    /\ LiveAt(s, j) = {}
    BY <1>6 DEF ImagesReadable, s
  <2> QED BY <1>8, <1>9, <1>10
<1>12. NextGrows'
  <2>1. Newest' = 2
    BY <1>6, <1>8, <1>10, Zenon DEF Newest, s
  <2> QED BY <2>1, <1>6, <1>8, <1>9, <1>10 DEF NextGrows, s
<1>13. la.at = "none" /\ ~vs.open /\ fl = 0 /\ gc = {}
  BY <1>1, <1>2, Zenon DEF Handles, FilesSafe, Started
<1>14. Started'
  BY <1>1, <1>2, <1>5, <1>6, OptionsStay, ZenonT(60) DEF FilesSafe, Started
<1>15. NumbersInUse' /\ ManifestFollows' /\ ApplyingEdit' /\ BuildingTable' /\ CollectingFiles'
  BY <1>2, <1>13, Zenon
  DEF NumbersInUse, ManifestFollows, Replacing, ApplyingEdit, BuildingTable, CollectingFiles
<1> QED BY <1>7, <1>11, <1>12, <1>14, <1>15, ZenonT(60) DEF FilesSafe

\* VersionSet::Recover finds a MANIFEST it can read, and DBImpl::Recover all its tables.
LEMMA FilesRecover ==
  ASSUME FilesInvariant, Dependable, TypeOK', RecoverManifest
  PROVE  FilesSafe'
<1>1. TypeOK /\ FilesSafe /\ Handles
  BY Zenon DEF FilesInvariant
<1> DEFINE c == dir.current
           s == mans[c]
           w == Whole(s)
<1>2. /\ run = "down" /\ c # 0 /\ opt' = opt /\ dir' = dir /\ lag' = lag /\ mans' = mans
      /\ manSynced' = manSynced /\ tbls' = tbls /\ wr' = wr /\ pinned' = pinned /\ la' = la
      /\ bg_error' = bg_error /\ fl' = fl /\ comp' = comp /\ gc' = gc
  BY Zenon DEF RecoverManifest, diskVars, bgVars, histVars
<1>3. c \in Files /\ dir \in lag
  BY <1>1, <1>2, Zenon DEF TypeOK, TypeDir, Dirs
<1>4. /\ s \in Seq(Edits \cup {Torn}) /\ Len(s) \in Nat /\ w \in 0..Len(s) /\ w \in Heads(c)
      /\ \A i \in 1..w : s[i] \in Edits
  BY <1>1, <1>3, ManifestFacts DEF FilesSafe
<1>5. \A i \in 1..Len(s) : s[i] = Torn => i = Len(s) /\ TornRecords
  BY <1>1, <1>3, Zenon DEF FilesSafe, TornIsLast
<1>6. /\ w > 0 /\ s[w].meta /\ c < s[w].next /\ c \in dir.mans
      /\ \A n \in LiveAt(s, w) : n \in dir.tables /\ tbls[n].synced /\ n < s[w].next
  BY <1>1, <1>2, <1>3, <1>4, ZenonT(60) DEF FilesSafe, ImagesReadable
<1>7. /\ LiveIn(Intact(s)) = LiveAt(s, w) /\ ~Corrupt(s)
      /\ \E i \in DOMAIN Intact(s) : Intact(s)[i].meta
      /\ LastMeta(Intact(s)) = s[w]
  BY <1>4, <1>5, <1>6, LiveIsRead, Zenon
<1>8. ~Unreadable(Intact(s)) /\ Missing(LiveAt(s, w)) = {}
  BY <1>6, <1>7, Zenon DEF Unreadable, Missing
<1>9. /\ run' = "replay" /\ vs'.live = LiveAt(s, w) /\ vs'.next = s[w].next + 1
      /\ vs'.open = ReuseLogs /\ vs'.man = (IF ReuseLogs THEN c ELSE s[w].next)
      /\ rec'.add = {}
  <2>1. /\ run' = "replay"
        /\ vs' = [live |-> LiveAt(s, w), log |-> s[w].log, next |-> s[w].next + 1,
                  seq |-> s[w].seq, open |-> ReuseLogs,
                  man |-> IF ReuseLogs THEN c ELSE s[w].next]
        /\ rec' = [todo |-> {n \in dir.logs : n >= s[w].log}, add |-> {}, save |-> ~ReuseLogs]
    BY <1>7, <1>8, Zenon DEF RecoverManifest
  <2> QED BY ONLY <2>1
<1>10. s[w].next \in Nat /\ c \in Nat /\ Newest = s[w].next /\ ReuseLogs \in BOOLEAN
  BY <1>1, <1>3, <1>4, <1>6, EditFields, TypeFacts DEF Newest
<1> HIDE DEF c, s, w
<1>11. TornIsLast' /\ ImagesReadable' /\ NextGrows' /\ Newest' = Newest
  BY <1>1, <1>2, DiskSame, Zenon DEF FilesSafe
<1>12. \A d \in lag : d.current # 0
  BY <1>1, <1>2, <1>3, Zenon DEF FilesSafe, Started, Dependable, c
<1>13. Started'
  BY <1>1, <1>2, <1>9, <1>12, OptionsStay, ZenonT(60) DEF FilesSafe, Started
<1>14. /\ fl = 0 /\ ~comp.on /\ pinned = {} /\ gc = {} /\ ~bg_error /\ la.at = "none"
  BY <1>1, <1>2, Zenon DEF FilesSafe, Started, Handles
<1>15. NumbersInUse'
  <2>1. PendingOutputs' = {}
    BY <1>2, <1>14, Zenon DEF PendingOutputs
  <2>2. \A n \in LiveAt(s, w) : n \in dir.tables /\ tbls[n].synced /\ n < s[w].next + 1
    <3>1. \A n \in LiveAt(s, w) : n \in Nat
      BY <1>1, NumberTypes, Zenon DEF LiveAt
    <3> QED BY <3>1, <1>6, <1>10
  <2>3. Newest' <= vs'.next /\ vs'.man < vs'.next
    BY <1>6, <1>9, <1>10, <1>11
  <2> QED BY <1>2, <1>9, <1>14, <2>1, <2>2, <2>3, ZenonT(60) DEF NumbersInUse
<1>16. ManifestFollows'
  <2>1. CASE ~ReuseLogs
    <3>1. \A d \in lag : d.current # s[w].next
      <4> SUFFICES ASSUME NEW d \in lag
                   PROVE  d.current < s[w].next /\ d.current \in Nat
        BY <1>10
      <4>1. d.current \in Files
        BY <1>1, <1>12 DEF TypeOK, TypeDir, Dirs
      <4>2. PICK j \in Heads(d.current) : TRUE
        BY <4>1, <1>1, ManifestFacts, ZenonT(60) DEF FilesSafe
      <4>3. d.current < mans[d.current][j].next /\ mans[d.current][j].next <= Newest
        BY <1>1, <1>12, ZenonT(60) DEF FilesSafe, ImagesReadable, NextGrows
      <4>4. mans[d.current][j].next \in Nat /\ d.current \in Nat
        BY <4>1, <1>1, <1>2, <1>12, NewestIsNumber, EditFields, NumberTypes, ZenonT(60) DEF FilesSafe, c
      <4> QED BY <4>3, <4>4, <1>10
    <3> QED BY <2>1, <3>1, <1>2, <1>9, <1>14, ZenonT(60) DEF ManifestFollows, Replacing
  <2>2. CASE ReuseLogs
    <3>1. \A i \in 1..Len(s) : s[i] # Torn
      BY <2>2, <1>5, Zenon DEF Dependable
    <3>2. Len(s) \in 1..Len(s) /\ s # <<>>
      BY <1>4, <1>6, SeqFacts
    <3>3. w = Len(s) /\ s[Len(s)] # Torn
      BY <3>1, <3>2, Zenon DEF w, Whole
    <3>4. mans'[vs'.man] = s /\ dir'.current = vs'.man
      BY <2>2, <1>2, <1>9, Zenon DEF s, c
    <3>5. ~Replacing' /\ ~Written' /\ la'.at = "none"
      BY <1>2, <1>14, Zenon DEF Replacing, Written
    <3>6. ReuseLogs' /\ vs'.open
      BY <2>2, <1>2, <1>9, OptionsStay, Zenon
    <3> QED BY <3>2, <3>3, <3>4, <3>5, <3>6, <1>9, ZenonT(60) DEF ManifestFollows
  <2> QED BY <2>1, <2>2, Zenon
<1>17. ApplyingEdit' /\ BuildingTable' /\ CollectingFiles'
  BY <1>2, <1>14, Zenon DEF ApplyingEdit, BuildingTable, CollectingFiles
<1> QED BY <1>11, <1>13, <1>15, <1>16, <1>17, ZenonT(60) DEF FilesSafe

-----------------------------------------------------------------------------
(* The invariant.                                                          *)

\* A database that was opened once and closed, or none.
LEMMA FilesInit ==
  ASSUME Init, Dependable
  PROVE  FilesSafe
<1>1. /\ lag = {dir} /\ dir = (IF Fresh THEN EmptyDir ELSE OpenedDir)
      /\ mans = [n \in Files |-> IF ~Fresh /\ n = 2 THEN OpenedManifest ELSE <<>>]
      /\ manSynced = [n \in Files |-> Len(mans[n])]
      /\ run = "down" /\ vs = NoVs /\ wr = NoWrite /\ la = NoApply /\ fl = 0 /\ comp = NoComp
      /\ pinned = {} /\ gc = {} /\ bg_error = FALSE /\ writes = 0
  BY Zenon DEF Init
<1>2. 2 \in Files
  BY DurabilityAssumption DEF Files
<1> DEFINE e == [add |-> {}, del |-> {}, meta |-> TRUE, log |-> 3, next |-> 4, seq |-> 0]
           s == OpenedManifest
<1>3. /\ Len(s) = 2 /\ s # <<>> /\ s[1] = Snapshot({}) /\ s[2] = e
  BY Zenon DEF OpenedManifest
<1>4. Snapshot({}) # Torn /\ Snapshot({}).add = {}
  BY <1>1, ConstantTypes, TornIsNoEdit, Zenon DEF Snapshot
<1>5. e # Torn /\ e.add = {} /\ e.meta /\ e.next = 4
  <2>1. e \in Edits
    BY <1>1 DEF Edits
  <2> QED BY <2>1, TornIsNoEdit, Zenon
<1> HIDE DEF e, s
<1>6. Whole(s) = 2
  BY <1>3, <1>5, Zenon DEF Whole
<1>7. LiveAt(s, 2) = {}
  <2>1. \A i \in 1..2 : s[i].add = {}
    BY <1>3, <1>4, <1>5
  <2> QED BY <2>1, Zenon DEF LiveAt
<1>8. TornIsLast
  <2> SUFFICES ASSUME NEW n \in Files, NEW i \in 1..Len(mans[n])
               PROVE  mans[n][i] # Torn
    BY Zenon DEF TornIsLast
  <2>1. CASE ~Fresh /\ n = 2
    <3>1. mans[n] = s
      BY <2>1, <1>1, Zenon DEF s
    <3> QED BY <3>1, <1>3, <1>4, <1>5
  <2>2. CASE ~(~Fresh /\ n = 2)
    <3>1. mans[n] = <<>>
      BY <2>2, <1>1, Zenon
    <3>2. Len(mans[n]) = 0
      BY <3>1
    <3> QED BY <3>2
  <2> QED BY <2>1, <2>2, Zenon
<1>9. ImagesReadable /\ NextGrows
  <2>1. CASE Fresh
    <3>1. dir.current = 0
      BY <2>1, <1>1, Zenon DEF EmptyDir
    <3> QED BY <3>1, <1>1, Zenon DEF ImagesReadable, NextGrows
  <2>2. CASE ~Fresh
    <3>1. dir.current = 2 /\ dir.mans = {2} /\ mans[2] = s /\ manSynced[2] = 2
      BY <2>2, <1>1, <1>2, <1>3, Zenon DEF OpenedDir, s
    <3>2. \A j \in Heads(2) : j = 2
      BY <3>1, <1>6 DEF Heads
    <3>3. Newest = 4
      BY <3>1, <1>3, <1>5, <1>6, Zenon DEF Newest
    <3>4. ImagesReadable
      BY <3>1, <3>2, <1>1, <1>3, <1>5, <1>7 DEF ImagesReadable
    <3> QED BY <3>1, <3>2, <3>3, <3>4, <1>1, <1>3, <1>5 DEF NextGrows
  <2> QED BY <2>1, <2>2, Zenon
<1>10. Started
  <2>1. ~Fresh => dir.current # 0
    BY <1>1 DEF OpenedDir
  <2> QED BY <2>1, <1>1, Zenon DEF Started, NoVs, NoComp, NoWrite
<1>11. NumbersInUse /\ ManifestFollows /\ ApplyingEdit /\ BuildingTable /\ CollectingFiles
  BY <1>1, Zenon
  DEF NumbersInUse, ManifestFollows, Replacing, ApplyingEdit, BuildingTable, CollectingFiles,
      NoVs, NoApply
<1> QED BY <1>8, <1>9, <1>10, <1>11 DEF FilesSafe

=============================================================================
