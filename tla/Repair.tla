------------------------------- MODULE Repair -------------------------------
(***************************************************************************)
(* RepairDB of db/repair.cc: a directory whose descriptor is unusable is   *)
(* rebuilt from its logs and tables.  One action per step that touches the *)
(* file system, so that a crash may fall between any two of them and       *)
(* RepairDB be called again on what is left.  A file is its readable       *)
(* entries (pairs of key and sequence number) and whether reading it ends  *)
(* in an error.                                                            *)
(***************************************************************************)
EXTENDS Integers, FiniteSets, FiniteSetsExt, Functions

CONSTANTS RepairContents,  \* what the log and the two tables found may hold:
                           \* triples of sets of <<key, sequence>>
          MaxRepairs,      \* calls of RepairDB
          MaxRepairCrashes,
          MaxRepairFaults  \* file operations that fail

VARIABLES rpDir,        \* the tables and logs of the directory, by name
          rpLost,       \* the files moved to lost/
          rpManifests,  \* the descriptors of the directory, by number
          rpCurrent,    \* the descriptor CURRENT names
          rpPc,         \* where Run() is
          rpCall,       \* members of the Repairer
          rpTable,      \* the table being copied by RepairTable
          rpPast        \* history: what was readable, calls, crashes, faults, entries cut off

rpVars == <<rpDir, rpLost, rpManifests, rpCurrent, rpPc, rpCall, rpTable, rpPast>>

LogName(n) == <<"log", n>>
TableFileName(n) == <<"ldb", n>>
SSTTableFileName(n) == <<"sst", n>>

(* The order of internal keys: key ascending, sequence number descending. *)
EntryLeq(a, b) == \/ a[1] < b[1]
                  \/ a[1] = b[1] /\ a[2] >= b[2]

Without(f, x) == Restrict(f, DOMAIN f \ {x})
With(f, x, v) == [y \in DOMAIN f \cup {x} |-> IF y = x THEN v ELSE f[y]]

FoundFile(data, bad) == [data |-> data, bad |-> bad]
NoDescriptor == [files |-> {}, next |-> 0, last |-> 0]
NoCall == [logs |-> {}, numbers |-> {}, tables |-> {}, manifests |-> {}, next |-> 1, log |-> 0]
NoTable == [number |-> 0, name |-> <<"ldb", 0>>, copy |-> 0, data |-> {}]

(* A log, a table under each of the two table names, one with a bad block, *)
(* and a descriptor of number 2.                                           *)
rpStart(contents) ==
  /\ \E c \in contents, bad \in BOOLEAN :
        rpDir = [f \in {LogName(3), TableFileName(5), SSTTableFileName(4)} |->
                   CASE f = LogName(3)       -> FoundFile(c[1], FALSE)
                     [] f = TableFileName(5) -> FoundFile(c[2], bad \/ c[2] = {})
                     [] OTHER                -> FoundFile(c[3], ~bad \/ c[3] = {})]
  /\ rpLost = << >>
  /\ rpManifests = [n \in {2} |-> NoDescriptor]
  /\ rpCurrent = 2
  /\ rpPc = "idle"
  /\ rpCall = NoCall
  /\ rpTable = NoTable
  /\ rpPast = [readable |-> UNION {rpDir[f].data : f \in DOMAIN rpDir},
               calls |-> 0, crashes |-> 0, faults |-> 0, cut |-> FALSE]

rpInit == rpStart(RepairContents)

Fault == /\ rpPast.faults < MaxRepairFaults
         /\ rpPast' = [rpPast EXCEPT !.faults = @ + 1]

(* ArchiveFile: the file moves to lost/, replacing what has its name there. *)
ArchivedDir(f) == Without(rpDir, f)
ArchivedLost(f) == IF f \in DOMAIN rpDir THEN With(rpLost, f, rpDir[f]) ELSE rpLost

(* Run and FindFiles: numbers of descriptors do not count for the next     *)
(* file number.                                                            *)
FindFiles ==
  /\ rpPc = "idle"
  /\ rpPast.calls < MaxRepairs
  /\ rpCall' = [logs      |-> {f[2] : f \in {g \in DOMAIN rpDir : g[1] = "log"}},
                numbers   |-> {f[2] : f \in {g \in DOMAIN rpDir : g[1] # "log"}},
                tables    |-> {},
                manifests |-> DOMAIN rpManifests,
                next      |-> 1 + Max({0} \cup {f[2] : f \in DOMAIN rpDir}),
                log       |-> 0]
  /\ rpPc' = "logs"
  /\ rpPast' = [rpPast EXCEPT !.calls = @ + 1]
  /\ UNCHANGED <<rpDir, rpLost, rpManifests, rpCurrent, rpTable>>

(* ConvertLogToTable: the log's records go to a memtable and from it to a  *)
(* new table; BuildTable leaves no file of an empty memtable, nor of one   *)
(* it failed to write.                                                     *)
ConvertLogToTable ==
  /\ rpPc = "logs"
  /\ \E n \in rpCall.logs :
       LET data == rpDir[LogName(n)].data
           taken == [rpCall EXCEPT !.logs = @ \ {n}, !.log = n]
           new == rpCall.next
       IN \/ /\ data # {}
             /\ rpDir' = With(rpDir, TableFileName(new), FoundFile(data, FALSE))
             /\ rpCall' = [taken EXCEPT !.next = @ + 1, !.numbers = @ \cup {new}]
             /\ UNCHANGED rpPast
          \/ /\ data = {}
             /\ rpCall' = [taken EXCEPT !.next = @ + 1]
             /\ UNCHANGED <<rpDir, rpPast>>
          \/ /\ Fault   \* NewSequentialFile or BuildTable failed
             /\ rpCall' \in {taken, [taken EXCEPT !.next = @ + 1]}
             /\ UNCHANGED rpDir
  /\ rpPc' = "archivelog"
  /\ UNCHANGED <<rpLost, rpManifests, rpCurrent, rpTable>>

(* ConvertLogFilesToTables archives the log whether converted or not. *)
ArchiveLog ==
  /\ rpPc = "archivelog"
  /\ \/ /\ rpDir' = ArchivedDir(LogName(rpCall.log))
        /\ rpLost' = ArchivedLost(LogName(rpCall.log))
        /\ UNCHANGED rpPast
     \/ Fault /\ UNCHANGED <<rpDir, rpLost>>
  /\ rpPc' = "logs"
  /\ UNCHANGED <<rpManifests, rpCurrent, rpCall, rpTable>>

MutantTableInfo(n, data) ==
  LET last == CHOOSE e \in data : \A d \in data : EntryLeq(d, e)
  IN [number |-> n, smallest |-> CHOOSE e \in data : \A d \in data : EntryLeq(e, d),
      largest |-> last, max |-> last[2]]

TableInfo(n, data) ==
  [number   |-> n,
   smallest |-> CHOOSE e \in data : \A d \in data : EntryLeq(e, d),
   largest  |-> CHOOSE e \in data : \A d \in data : EntryLeq(d, e),
   max      |-> Max({e[2] : e \in data})]

(* ScanTable: the file is looked for under both names; a clean one is kept *)
(* with the range and largest sequence number found, one that ends in an   *)
(* error goes to RepairTable, which first creates the copy.                *)
ScanTable ==
  /\ rpPc = "logs" /\ rpCall.logs = {}
  /\ \E n \in rpCall.numbers :
       LET name == IF TableFileName(n) \in DOMAIN rpDir THEN TableFileName(n) ELSE SSTTableFileName(n)
           file == rpDir[name]
           taken == [rpCall EXCEPT !.numbers = @ \ {n}]
           copied == [taken EXCEPT !.next = @ + 1]
       IN \/ /\ ~file.bad
             /\ rpCall' = [taken EXCEPT !.tables = @ \cup {TableInfo(n, file.data)}]
             /\ UNCHANGED <<rpDir, rpLost, rpPc, rpTable, rpPast>>
          \/ /\ file.bad
             /\ rpCall' = copied
             /\ rpDir' = With(rpDir, TableFileName(rpCall.next), FoundFile({}, TRUE))
             /\ rpTable' = [number |-> n, name |-> name, copy |-> rpCall.next, data |-> file.data]
             /\ rpPc' = "copied"
             /\ UNCHANGED <<rpLost, rpPast>>
          \/ /\ file.bad   \* NewWritableFile failed
             /\ Fault
             /\ rpCall' = copied
             /\ UNCHANGED <<rpDir, rpLost, rpPc, rpTable>>
          \/ /\ Fault      \* GetFileSize failed: the file is dropped
             /\ rpCall' = taken
             /\ rpDir' = ArchivedDir(name)
             /\ rpLost' = ArchivedLost(name)
             /\ UNCHANGED <<rpPc, rpTable>>
  /\ UNCHANGED <<rpManifests, rpCurrent>>

(* RepairTable archives its input as soon as the entries are in the        *)
(* builder, before the copy is finished.                                   *)
RepairTableArchives ==
  /\ rpPc = "copied"
  /\ \/ /\ rpDir' = ArchivedDir(rpTable.name)
        /\ rpLost' = ArchivedLost(rpTable.name)
        /\ UNCHANGED rpPast
     \/ Fault /\ UNCHANGED <<rpDir, rpLost>>
  /\ rpPc' = "finish"
  /\ UNCHANGED <<rpManifests, rpCurrent, rpCall, rpTable>>

(* ... then finishes and closes the copy: nothing is copied of a table     *)
(* without a readable entry, whose copy is abandoned but not deleted.      *)
RepairTableFinishes ==
  /\ rpPc = "finish"
  /\ LET copy == TableFileName(rpTable.copy)
         data == rpTable.data
     IN \/ /\ data = {}
           /\ rpPc' = "logs"
           /\ UNCHANGED <<rpDir, rpPast>>
        \/ /\ data # {}
           /\ rpDir' = With(rpDir, copy, FoundFile(data, FALSE))
           /\ rpPc' = "rename"
           /\ UNCHANGED rpPast
        \/ /\ data # {}
           /\ Fault
           /\ rpDir' = Without(rpDir, copy)
           /\ rpPc' = "logs"
  /\ UNCHANGED <<rpLost, rpManifests, rpCurrent, rpCall, rpTable>>

(* ... and renames it over the original. *)
RepairTableRenames ==
  /\ rpPc = "rename"
  /\ LET copy == TableFileName(rpTable.copy)
     IN \/ /\ rpDir' = With(Without(rpDir, copy), TableFileName(rpTable.number), rpDir[copy])
           /\ rpCall' = [rpCall EXCEPT !.tables = @ \cup {TableInfo(rpTable.number, rpTable.data)}]
           /\ UNCHANGED rpPast
        \/ /\ Fault
           /\ rpDir' = Without(rpDir, copy)
           /\ UNCHANGED rpCall
  /\ rpPc' = "logs"
  /\ UNCHANGED <<rpLost, rpManifests, rpCurrent, rpTable>>

(* WriteDescriptor: the temporary file, *)
WriteTemporary ==
  /\ rpPc = "logs" /\ rpCall.logs = {} /\ rpCall.numbers = {}
  /\ \/ rpPc' = "discard" /\ UNCHANGED rpPast
     \/ Fault /\ rpPc' = "idle"
  /\ UNCHANGED <<rpDir, rpLost, rpManifests, rpCurrent, rpCall, rpTable>>

(* then the older descriptors are archived, one by one, *)
DiscardManifests ==
  /\ rpPc = "discard"
  /\ \E n \in rpCall.manifests :
       /\ rpCall' = [rpCall EXCEPT !.manifests = @ \ {n}]
       /\ \/ rpManifests' = Without(rpManifests, n) /\ UNCHANGED rpPast
          \/ Fault /\ UNCHANGED rpManifests
  /\ UNCHANGED <<rpDir, rpLost, rpCurrent, rpPc, rpTable>>

Descriptor ==
  [files |-> rpCall.tables,
   next  |-> rpCall.next,
   last  |-> Max({0} \cup {t.max : t \in rpCall.tables})]

(* the temporary file becomes MANIFEST-000001, *)
InstallManifest ==
  /\ rpPc = "discard" /\ rpCall.manifests = {}
  /\ \/ /\ rpManifests' = With(rpManifests, 1, Descriptor)
        /\ rpPc' = "current"
        /\ UNCHANGED rpPast
     \/ Fault /\ rpPc' = "idle" /\ UNCHANGED rpManifests
  /\ UNCHANGED <<rpDir, rpLost, rpCurrent, rpCall, rpTable>>

(* and CURRENT names it. *)
SetCurrentFile ==
  /\ rpPc = "current"
  /\ \/ rpCurrent' = 1 /\ rpPc' = "done" /\ UNCHANGED rpPast
     \/ Fault /\ rpPc' = "idle" /\ UNCHANGED rpCurrent
  /\ UNCHANGED <<rpDir, rpLost, rpManifests, rpCall, rpTable>>

(* The process stops; a table whose copy is not finished is cut off. *)
CrashRepair ==
  /\ rpPc \notin {"idle", "done"}
  /\ rpPast.crashes < MaxRepairCrashes
  /\ rpPc' = "idle"
  /\ rpCall' = NoCall
  /\ rpTable' = NoTable
  /\ rpPast' = [rpPast EXCEPT !.crashes = @ + 1, !.cut = @ \/ rpPc = "finish"]
  /\ UNCHANGED <<rpDir, rpLost, rpManifests, rpCurrent>>

rpNext ==
  \/ FindFiles \/ ConvertLogToTable \/ ArchiveLog \/ ScanTable
  \/ RepairTableArchives \/ RepairTableFinishes \/ RepairTableRenames
  \/ WriteTemporary \/ DiscardManifests \/ InstallManifest \/ SetCurrentFile
  \/ CrashRepair

-----------------------------------------------------------------------------
Covers(t, e) ==
  /\ EntryLeq(t.smallest, e) /\ EntryLeq(e, t.largest)
  /\ \E f \in {TableFileName(t.number), SSTTableFileName(t.number)} \cap DOMAIN rpDir :
        ~rpDir[f].bad /\ e \in rpDir[f].data

(* RepairDB loses no readable entry.  At every instant each entry that a   *)
(* log or table of the directory held is in a file of the directory or of  *)
(* lost/, whatever fails and wherever the process stops; and once a repair *)
(* reports success, if no file operation failed and no crash fell between  *)
(* archiving a damaged table and finishing its copy, CURRENT names a       *)
(* descriptor in which a sound table covers the entry, with last sequence  *)
(* and next file number beyond everything the tables use.                  *)
RepairLosesNothing ==
  /\ \A e \in rpPast.readable :
       \/ \E f \in DOMAIN rpDir : e \in rpDir[f].data
       \/ \E f \in DOMAIN rpLost : e \in rpLost[f].data
  /\ rpPc = "done" /\ rpPast.faults = 0 /\ ~rpPast.cut =>
       /\ rpCurrent \in DOMAIN rpManifests
       /\ LET d == rpManifests[rpCurrent]
          IN /\ \A e \in rpPast.readable : (\E t \in d.files : Covers(t, e)) /\ e[2] <= d.last
             /\ \A t \in d.files : t.number < d.next
=============================================================================
