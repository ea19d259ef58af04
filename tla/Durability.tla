------------------------------ MODULE Durability ------------------------------
(***************************************************************************)
(* What is on disk and what a crash leaves of it: logs, tables, MANIFEST   *)
(* files and CURRENT, written by DBImpl and VersionSet and read back by    *)
(* DB::Open.  One action is one stretch between two file operations after  *)
(* which a crash would find a different disk.                              *)
(*                                                                         *)
(* The file system: data appended to a file survives a crash of the        *)
(* process and, once synced, of the machine; an unsynced tail may be lost  *)
(* or cut in the middle of a record.  Creations, removals and renames take *)
(* effect on stable storage in the order they were made, the last of them  *)
(* late: dir is the directory the program sees, lag the set of directories *)
(* a crash of the machine may leave.                                       *)
(*                                                                         *)
(* A write is its number and its sequence number.  WritePath shows that    *)
(* there is one logger at a time, so there is one write in progress here.  *)
(* Log files are short: all of a file is one block of the log format.      *)
(***************************************************************************)
EXTENDS Integers, Sequences, FiniteSets, FiniteSetsExt

CONSTANTS
  MaxWrites,   \* bound: writes in a behaviour
  MaxFile,     \* bound: the largest file number of any behaviour
  Scenarios    \* the options and the faults a behaviour may have

\* A behaviour has one scenario: how the database is used and what may go wrong.
\* MemRecords + 1 records fill a memtable during recovery.
ASSUME DurabilityAssumption ==
  /\ MaxWrites \in Nat /\ MaxFile \in Nat /\ MaxFile >= 3
  /\ Scenarios \subseteq
       [crashes : Nat, files : Nat, MemRecords : Nat, SyncOptions : SUBSET BOOLEAN,
        ReuseLogs : BOOLEAN, Fresh : BOOLEAN, ProcessCrashes : BOOLEAN,
        MachineCrashes : BOOLEAN, TornRecords : BOOLEAN, SyncCommitsDir : BOOLEAN,
        EnvErrors : BOOLEAN, NestedFlush : BOOLEAN, Iterators : BOOLEAN]

Files   == 1..MaxFile
Writes  == 1..MaxWrites
Torn    == [w |-> 0, seq |-> 0]      \* the bytes of an incomplete record

VARIABLES
  opt,               \* the scenario
  dir, lag,          \* the directory, and what a crash of the machine may leave of it
  logs, logSynced,   \* the records of each log file, and how many are synced
  tbls,              \* each table file: its records, and whether it is synced
  mans, manSynced,   \* the edits of each MANIFEST, and how many are synced
  run,               \* where the process is between down and up
  rec,               \* locals of DB::Open: logs left, tables for the edit, save_manifest
  vs,                \* VersionSet: live tables, log_number_, next_file_number_, ...
  mem, imm, has_imm, \* the records of mem_ and imm_, and whether imm_ is not NULL
  logno,             \* logfile_number_
  wr,                \* the write in progress
  la,                \* LogAndApply: where it is, the edit, for whom
  fl,                \* the table CompactMemTable builds, 0 if none
  comp,              \* the compaction in progress: its output and its inputs
  pinned,            \* tables of an old version that an iterator holds
  gc,                \* files DeleteObsoleteFiles has still to remove
  bg_error,          \* ~bg_error_.ok()
  writes, crashes,   \* counters for the bounds
  acked, ackedSync,  \* history: writes acknowledged, and with sync
  hybrid             \* history: writes older than an acknowledged sync write

diskVars == <<dir, lag, logs, logSynced, tbls, mans, manSynced>>
memVars  == <<mem, imm, has_imm, logno>>
bgVars   == <<fl, comp, bg_error>>
histVars == <<opt, writes, crashes, acked, ackedSync, hybrid>>
vars == <<diskVars, memVars, bgVars, histVars, run, rec, vs, wr, la, pinned, gc>>

MaxCrashes     == opt.crashes         \* bound: crashes in a behaviour
Numbers        == 1..opt.files        \* bound: the file numbers of this behaviour
MemRecords     == opt.MemRecords      \* records that fit in a memtable being recovered
SyncOptions    == opt.SyncOptions     \* the values of WriteOptions::sync in use
ReuseLogs      == opt.ReuseLogs       \* options_.reuse_logs
Fresh          == opt.Fresh           \* start without a database, or with an empty one
ProcessCrashes == opt.ProcessCrashes  \* whether the process may crash
MachineCrashes == opt.MachineCrashes  \* whether the machine may crash
TornRecords    == opt.TornRecords     \* whether a crash or an error may cut a record
SyncCommitsDir == opt.SyncCommitsDir  \* whether the sync of a file commits the directory
EnvErrors      == opt.EnvErrors       \* whether writing a MANIFEST or a table may fail
NestedFlush    == opt.NestedFlush     \* whether a compaction may find imm_ to flush
Iterators      == opt.Iterators       \* whether the program opens iterators

NoTable == [recs |-> {}, synced |-> FALSE]
NoWrite == [rec |-> Torn, sync |-> FALSE, at |-> "idle"]
NoEdit  == [add |-> {}, del |-> {}, meta |-> FALSE, log |-> 0, next |-> 0, seq |-> 0]
NoApply == [at |-> "none", edit |-> NoEdit, for |-> "open", new |-> FALSE]
NoComp  == [on |-> FALSE, num |-> 0, inputs |-> {}]
NoRec   == [todo |-> {}, add |-> {}, save |-> FALSE]
NoVs    == [live |-> {}, log |-> 0, next |-> 2, seq |-> 0, man |-> 0, open |-> FALSE]

\* Edits: what NewDB, WriteSnapshot and LogAndApply write.
NewDBEdit ==
  [add |-> {}, del |-> {}, meta |-> TRUE, log |-> 0, next |-> 2, seq |-> 0]
Snapshot(live) ==
  [add |-> live, del |-> {}, meta |-> FALSE, log |-> 0, next |-> 0, seq |-> 0]
LoggedEdit(add, del, log) ==
  [add |-> add, del |-> del, meta |-> TRUE, log |-> log, next |-> vs.next, seq |-> vs.seq]

EmptyDir == [logs |-> {}, tables |-> {}, mans |-> {}, current |-> 0]
OpenedDir == [logs |-> {3}, tables |-> {}, mans |-> {2}, current |-> 2]
OpenedManifest ==
  <<Snapshot({}),
    [add |-> {}, del |-> {}, meta |-> TRUE, log |-> 3, next |-> 4, seq |-> 0]>>

\* A disk without a database, or with one that was opened once and closed.
Init ==
  /\ opt \in Scenarios
  /\ dir = IF Fresh THEN EmptyDir ELSE OpenedDir
  /\ lag = {dir}
  /\ logs = [n \in Files |-> <<>>] /\ logSynced = [n \in Files |-> 0]
  /\ tbls = [n \in Files |-> NoTable]
  /\ mans = [n \in Files |-> IF ~Fresh /\ n = 2 THEN OpenedManifest ELSE <<>>]
  /\ manSynced = [n \in Files |-> Len(mans[n])]
  /\ run = "down" /\ rec = NoRec /\ vs = NoVs
  /\ mem = {} /\ imm = {} /\ has_imm = FALSE /\ logno = 0
  /\ wr = NoWrite /\ la = NoApply /\ fl = 0 /\ comp = NoComp
  /\ pinned = {} /\ gc = {} /\ bg_error = FALSE
  /\ writes = 0 /\ crashes = 0 /\ acked = {} /\ ackedSync = {} /\ hybrid = {}

-----------------------------------------------------------------------------
(* The file system as PosixEnv uses it.                                    *)

\* NewWritableFile, RenameFile, DeleteFile: the directory changes at once for the
\* program and at some later time on stable storage, which only a crash of the machine
\* tells apart.
ChangeDir(d) == dir' = d /\ lag' = IF MachineCrashes THEN lag \cup {d} ELSE {d}

\* Sync of a file that is not a MANIFEST, with the directory as it is then.
SyncFile(d) == IF SyncCommitsDir \/ ~MachineCrashes THEN {d} ELSE lag \cup {d}

\* SetCurrentFile: the temporary file is written and synced, then renamed.
SetCurrentFile(n) ==
  LET d == [dir EXCEPT !.current = n]
  IN  dir' = d /\ lag' = IF MachineCrashes THEN SyncFile(dir) \cup {d} ELSE {d}

AllRecords(s) == s

\* What log::Reader returns of a file: the records before the first incomplete one.
\* Bytes after an incomplete record make its checksum fail, and the reader drops the
\* rest of the block with it.
Intact(s) ==
  LET bad == {i \in DOMAIN s : s[i] = Torn}
  IN  IF bad = {} THEN s ELSE SubSeq(s, 1, Min(bad) - 1)

\* The reader reports a corruption only when the incomplete record is not the last: what
\* follows is taken for its missing bytes.  (When there are fewer than those, it takes the
\* end of the file for the end of the log, and drops both records in silence.)
Corrupt(s) == \E i \in DOMAIN s : s[i] = Torn /\ i # Len(s)

-----------------------------------------------------------------------------
(* DB::Open.                                                               *)

\* DBImpl::Recover without CURRENT: NewDB writes MANIFEST-000001 and closes it.
NewDB ==
  /\ run = "down" /\ dir.current = 0
  /\ mans' = [mans EXCEPT ![1] = <<NewDBEdit>>]
  /\ manSynced' = [manSynced EXCEPT ![1] = 0]
  /\ ChangeDir([dir EXCEPT !.mans = @ \cup {1}])
  /\ run' = "newdb"
  /\ UNCHANGED <<logs, logSynced, tbls, memVars, bgVars, histVars, rec, vs, wr, la,
                 pinned, gc>>

\* NewDB installs it with SetCurrentFile.
NewDBCurrent ==
  /\ run = "newdb"
  /\ SetCurrentFile(1)
  /\ run' = "down"
  /\ UNCHANGED <<logs, logSynced, tbls, mans, manSynced, memVars, bgVars, histVars,
                 rec, vs, wr, la, pinned, gc>>

\* The tables an edit sequence leaves live.
LiveIn(es) ==
  {n \in Files : \E i \in DOMAIN es : /\ n \in es[i].add
                                      /\ \A j \in i+1..Len(es) : n \notin es[j].del}

\* The last edit that names the log, the next file and the last sequence.
LastMeta(es) == es[Max({i \in DOMAIN es : es[i].meta})]

Unreadable(es) ==
  \/ dir.current \notin dir.mans
  \/ Corrupt(mans[dir.current])
  \/ ~\E i \in DOMAIN es : es[i].meta

\* DBImpl::Recover takes a table for present when any file has its number.
Missing(live) == live \ (dir.tables \cup dir.logs \cup dir.mans)

\* VersionSet::Recover, then the scan of the directory in DBImpl::Recover.
RecoverManifest ==
  LET es   == Intact(mans[dir.current])
      meta == LastMeta(es)
      live == LiveIn(es)
  IN
  /\ run = "down" /\ dir.current # 0
  /\ IF Unreadable(es) \/ Missing(live) # {}
     THEN run' = "failed" /\ UNCHANGED <<rec, vs>>
     ELSE /\ run' = "replay"
          /\ vs' = [live |-> live, log |-> meta.log, next |-> meta.next + 1,
                    seq |-> meta.seq, open |-> ReuseLogs,
                    man |-> IF ReuseLogs THEN dir.current ELSE meta.next]
          /\ rec' = [todo |-> {n \in dir.logs : n >= meta.log}, add |-> {},
                     save |-> ~ReuseLogs]
  /\ UNCHANGED <<diskVars, memVars, bgVars, histVars, wr, la, pinned, gc>>

\* The table of each full memtable while a log is read, and of the last partial one.
Chunk(s, k) ==
  {s[i] : i \in {j \in DOMAIN s : (j - 1) \div (MemRecords + 1) = k - 1}}
Chunks(s) == (Len(s) + MemRecords) \div (MemRecords + 1)
NoSeq(s) == 0
MaxSeq(s) == Max({0} \cup {s[i].seq : i \in DOMAIN s})
AtLeast(a, b) == IF a < b THEN b ELSE a

ReusesAnyLog(n, s) == ReuseLogs /\ Len(s) <= MemRecords

\* reuse_logs keeps the last log, if no table was made of its records.
ReusesLog(n, s) == ReuseLogs /\ rec.todo = {n} /\ Len(s) <= MemRecords

\* RecoverLogFile of the oldest log: its records go to level 0 tables, each synced by
\* BuildTable, or, for the last log with reuse_logs, to mem_.  All of them are one step:
\* no edit lists a table before OpenSave, and a crash or an error after some of them leaves
\* fewer tables that no version lists.
RecoverLogFile ==
  LET n == Min(rec.todo)
      s == Intact(logs[n])
      reuse == ReusesLog(n, s)
      made == IF reuse THEN 0 ELSE Chunks(s)
      new == vs.next .. vs.next + made - 1
  IN
  /\ run = "replay" /\ rec.todo # {}
  /\ new \subseteq Files \cap Numbers
  /\ tbls' = [f \in Files |-> IF f \in new
                              THEN [recs |-> Chunk(s, f - vs.next + 1), synced |-> TRUE]
                              ELSE tbls[f]]
  /\ dir' = [dir EXCEPT !.tables = @ \cup new]
  /\ lag' = IF new = {} THEN lag ELSE SyncFile(dir')
  /\ vs' = [vs EXCEPT !.next = AtLeast(vs.next + made, n + 1),
                      !.seq = AtLeast(@, MaxSeq(s))]
  /\ rec' = [todo |-> rec.todo \ {n}, add |-> rec.add \cup new,
             save |-> rec.save \/ new # {}]
  /\ IF reuse THEN mem' = {s[i] : i \in DOMAIN s} /\ logno' = n
              ELSE UNCHANGED <<mem, logno>>
  /\ UNCHANGED <<logs, logSynced, mans, manSynced, imm, has_imm, bgVars, histVars, run,
                 wr, la, pinned, gc>>

\* NewWritableFile on a log.
CreateLog(n) ==
  /\ n \in Files \cap Numbers
  /\ logs' = [logs EXCEPT ![n] = <<>>] /\ logSynced' = [logSynced EXCEPT ![n] = 0]
  /\ ChangeDir([dir EXCEPT !.logs = @ \cup {n}])
  /\ logno' = n /\ vs' = [vs EXCEPT !.next = @ + 1]

\* DB::Open creates a log unless one is reused.
OpenLog ==
  /\ run = "replay" /\ rec.todo = {} /\ logno = 0
  /\ CreateLog(vs.next)
  /\ UNCHANGED <<tbls, mans, manSynced, mem, imm, has_imm, bgVars, histVars, run, rec,
                 wr, la, pinned, gc>>

ObsoleteCurrent(v, pend) == {<<"man", n>> : n \in {m \in dir.mans : m <= v.man}}

\* The files DeleteObsoleteFiles removes, for a VersionSet v and pending outputs.
Obsolete(v, pend) ==
  {<<"log", n>> : n \in {m \in dir.logs : m < v.log}}
  \cup {<<"man", n>> : n \in {m \in dir.mans : m < v.man}}
  \cup {<<"table", n>> : n \in dir.tables \ (v.live \cup pinned \cup pend)}

\* DB::Open hands the tables and the log to LogAndApply when there is news to save.
OpenSave ==
  /\ run = "replay" /\ rec.todo = {} /\ logno # 0 /\ rec.save /\ la.at = "none"
  /\ la' = [at |-> IF vs.open THEN "add" ELSE "new", for |-> "open", new |-> ~vs.open,
            edit |-> LoggedEdit(rec.add, {}, logno)]
  /\ UNCHANGED <<diskVars, memVars, bgVars, histVars, run, rec, vs, wr, pinned, gc>>

OpenWithoutSave ==
  /\ run = "replay" /\ rec.todo = {} /\ logno # 0 /\ ~rec.save
  /\ run' = "up" /\ gc' = Obsolete(vs, {})
  /\ UNCHANGED <<diskVars, memVars, bgVars, histVars, rec, vs, wr, la, pinned>>

-----------------------------------------------------------------------------
(* The process goes away, and what the disk then holds.                    *)

Reset ==
  /\ run' = "down" /\ rec' = NoRec /\ vs' = NoVs
  /\ mem' = {} /\ imm' = {} /\ has_imm' = FALSE /\ logno' = 0
  /\ wr' = NoWrite /\ la' = NoApply /\ fl' = 0 /\ comp' = NoComp
  /\ pinned' = {} /\ gc' = {} /\ bg_error' = FALSE

Running == run \in {"newdb", "replay", "up"}

\* The process dies, or is closed: the operating system has all that was written.
ProcessCrash ==
  /\ ProcessCrashes /\ Running /\ crashes < MaxCrashes
  /\ Reset /\ crashes' = crashes + 1
  /\ UNCHANGED <<opt, diskVars, writes, acked, ackedSync, hybrid>>

\* The process dies inside log::Writer::AddRecord, on the log or on the MANIFEST.
CrashInAddRecord ==
  /\ ProcessCrashes /\ TornRecords /\ crashes < MaxCrashes
  /\ \/ /\ run = "up" /\ wr.at = "idle" /\ ~bg_error /\ gc = {}
        /\ logs' = [logs EXCEPT ![logno] = Append(@, Torn)] /\ UNCHANGED mans
     \/ /\ la.at = "add"
        /\ mans' = [mans EXCEPT ![vs.man] = Append(@, Torn)] /\ UNCHANGED logs
  /\ Reset /\ crashes' = crashes + 1
  /\ UNCHANGED <<opt, dir, lag, logSynced, tbls, manSynced, writes, acked, ackedSync,
                 hybrid>>

\* What is left of a file that had n of its records synced: a longer or shorter part
\* of the rest, perhaps with half a record at its end.
Cuts(s, n) ==
  {SubSeq(s, 1, i) : i \in n..Len(s)}
  \cup (IF TornRecords THEN {Append(SubSeq(s, 1, i), Torn) : i \in n..Len(s)-1} ELSE {})

\* The machine stops.  Every file in the directory keeps what was synced.
MachineCrash ==
  /\ MachineCrashes /\ Running /\ crashes < MaxCrashes
  /\ \E d \in lag :
       /\ dir' = d /\ lag' = {d}
       /\ \E cl \in [{n \in d.logs : logSynced[n] < Len(logs[n])} ->
                       UNION {Cuts(logs[n], logSynced[n]) : n \in d.logs}] :
            /\ \A n \in DOMAIN cl : cl[n] \in Cuts(logs[n], logSynced[n])
            /\ logs' = [n \in Files |-> IF n \in DOMAIN cl THEN cl[n] ELSE logs[n]]
       /\ \E cm \in [{n \in d.mans : manSynced[n] < Len(mans[n])} ->
                       UNION {Cuts(mans[n], manSynced[n]) : n \in d.mans}] :
            /\ \A n \in DOMAIN cm : cm[n] \in Cuts(mans[n], manSynced[n])
            /\ mans' = [n \in Files |-> IF n \in DOMAIN cm THEN cm[n] ELSE mans[n]]
  /\ logSynced' = [n \in Files |-> Len(logs'[n])]
  /\ manSynced' = [n \in Files |-> Len(mans'[n])]
  /\ tbls' = [n \in Files |-> IF tbls[n].synced THEN tbls[n] ELSE NoTable]
  /\ Reset /\ crashes' = crashes + 1
  /\ acked' = ackedSync /\ UNCHANGED <<opt, writes, ackedSync, hybrid>>

-----------------------------------------------------------------------------
(* VersionSet::LogAndApply, for DB::Open, a flush or a compaction.         *)

\* The first call after a recovery creates the MANIFEST with a snapshot.
NewManifest ==
  /\ la.at = "new" /\ vs.man \in Files \cap Numbers
  /\ mans' = [mans EXCEPT ![vs.man] = <<Snapshot(vs.live)>>]
  /\ manSynced' = [manSynced EXCEPT ![vs.man] = 0]
  /\ ChangeDir([dir EXCEPT !.mans = @ \cup {vs.man}])
  /\ vs' = [vs EXCEPT !.open = TRUE] /\ la' = [la EXCEPT !.at = "add"]
  /\ UNCHANGED <<logs, logSynced, tbls, memVars, bgVars, histVars, run, rec, wr,
                 pinned, gc>>

\* descriptor_log_->AddRecord, with the mutex released.
AddEdit ==
  /\ la.at = "add"
  /\ mans' = [mans EXCEPT ![vs.man] = Append(@, la.edit)]
  /\ la' = [la EXCEPT !.at = "sync"]
  /\ UNCHANGED <<dir, lag, logs, logSynced, tbls, manSynced, memVars, bgVars, histVars,
                 run, rec, vs, wr, pinned, gc>>

ManifestUnsynced == manSynced
ManifestSynced == [manSynced EXCEPT ![vs.man] = Len(mans[vs.man])]

\* Sync of a MANIFEST: SyncDirIfManifest first, then the data.
SyncManifest ==
  /\ la.at = "sync"
  /\ lag' = {dir} /\ manSynced' = ManifestSynced
  /\ la' = [la EXCEPT !.at = IF la.new THEN "current" ELSE "install"]
  /\ UNCHANGED <<dir, logs, logSynced, tbls, mans, memVars, bgVars, histVars, run, rec,
                 vs, wr, pinned, gc>>

SetCurrent ==
  /\ la.at = "current"
  /\ SetCurrentFile(vs.man)
  /\ la' = [la EXCEPT !.at = "install"]
  /\ UNCHANGED <<logs, logSynced, tbls, mans, manSynced, memVars, bgVars, histVars, run,
                 rec, vs, wr, pinned, gc>>

\* The version and the log number LogAndApply installs.
Applied == [vs EXCEPT !.live = (@ \ la.edit.del) \cup la.edit.add, !.log = la.edit.log]

CollectedAlways(v, pend) == Obsolete(v, pend)
NoPendingOutputs == {}

\* CompactMemTable, BackgroundCompaction and DB::Open end with DeleteObsoleteFiles,
\* which does nothing after a background error.
Collected(v, pend) == IF bg_error THEN {} ELSE Obsolete(v, pend)
PendingOutputs == IF comp.on THEN {comp.num} ELSE {}

InstallOpen ==
  /\ la.at = "install" /\ la.for = "open"
  /\ vs' = Applied /\ la' = NoApply /\ rec' = NoRec /\ run' = "up"
  /\ gc' = Obsolete(Applied, {})
  /\ UNCHANGED <<diskVars, memVars, bgVars, histVars, wr, pinned>>

InstallFlush ==
  /\ la.at = "install" /\ la.for = "flush"
  /\ vs' = Applied /\ la' = NoApply
  /\ imm' = {} /\ has_imm' = FALSE /\ fl' = 0
  /\ gc' = Collected(Applied, PendingOutputs)
  /\ UNCHANGED <<diskVars, mem, logno, comp, bg_error, histVars, run, rec, wr, pinned>>

InstallCompaction ==
  /\ la.at = "install" /\ la.for = "comp"
  /\ vs' = Applied /\ la' = NoApply /\ comp' = NoComp
  /\ gc' = Collected(Applied, {})
  /\ UNCHANGED <<diskVars, memVars, fl, bg_error, histVars, run, rec, wr, pinned>>

EditWholeOrAbsent ==
  \/ UNCHANGED mans
  \/ la.at = "add" /\ mans' = [mans EXCEPT ![vs.man] = Append(@, la.edit)]

\* The MANIFEST write failed: nothing, part of the record or all of it is in the file,
\* since AddRecord hands header and payload to the file one after the other.
EditMayBeThere ==
  \/ EditWholeOrAbsent
  \/ /\ la.at = "add" /\ TornRecords
     /\ mans' = [mans EXCEPT ![vs.man] = Append(@, Torn)]

\* A new MANIFEST that cannot be created, written or installed is removed, and DB::Open
\* returns the error.  A snapshot cut short is as good as whole, its file being removed.
OpenFails ==
  /\ EnvErrors /\ la.for = "open" /\ la.at \in {"new", "add", "sync", "current"}
  /\ IF la.new THEN ChangeDir([dir EXCEPT !.mans = @ \ {vs.man}]) ELSE UNCHANGED <<dir, lag>>
  /\ EditMayBeThere /\ Reset
  /\ UNCHANGED <<logs, logSynced, tbls, manSynced, histVars>>

\* Later, RecordBackgroundError.  A compaction goes on after a flush inside it failed, and
\* appends its own edit to the same descriptor_log_.
ApplyFails ==
  /\ EnvErrors /\ la.for # "open" /\ la.at \in {"add", "sync"}
  /\ EditMayBeThere
  /\ bg_error' = TRUE /\ la' = NoApply
  /\ fl' = 0 /\ comp' = IF la.for = "comp" THEN NoComp ELSE comp
  /\ UNCHANGED <<dir, lag, logs, logSynced, tbls, manSynced, memVars, histVars, run, rec,
                 vs, wr, pinned, gc>>

-----------------------------------------------------------------------------
(* DBImpl::Write and MakeRoomForWrite.                                     *)

\* The mutex is free: nobody is inside DeleteObsoleteFiles.
MutexFree == run = "up" /\ gc = {}

AddRecord(sync) ==
  LET r == [w |-> writes + 1, seq |-> vs.seq + 1] IN
  /\ MutexFree /\ ~bg_error /\ wr.at = "idle" /\ writes < MaxWrites
  /\ logs' = [logs EXCEPT ![logno] = Append(@, r)]
  /\ wr' = [rec |-> r, sync |-> sync, at |-> IF sync THEN "logged" ELSE "synced"]
  /\ writes' = writes + 1
  /\ UNCHANGED <<dir, lag, logSynced, tbls, mans, manSynced, memVars, bgVars, opt,
                 crashes, acked, ackedSync, hybrid, run, rec, vs, la, pinned, gc>>

LogUnsynced == logSynced
LogSynced == [logSynced EXCEPT ![logno] = Len(logs[logno])]

\* logfile_->Sync(), which leaves the directory to the file system.
SyncLog ==
  /\ wr.at = "logged"
  /\ logSynced' = LogSynced
  /\ lag' = SyncFile(dir)
  /\ wr' = [wr EXCEPT !.at = "synced"]
  /\ UNCHANGED <<dir, logs, tbls, mans, manSynced, memVars, bgVars, histVars, run, rec,
                 vs, la, pinned, gc>>

\* InsertInto, SetLastSequence, and Write returns OK.
InsertInto ==
  /\ MutexFree /\ wr.at = "synced"
  /\ mem' = mem \cup {wr.rec} /\ vs' = [vs EXCEPT !.seq = wr.rec.seq]
  /\ acked' = acked \cup {wr.rec.w}
  /\ ackedSync' = IF wr.sync THEN ackedSync \cup {wr.rec.w} ELSE ackedSync
  /\ hybrid' = IF wr.sync THEN hybrid \cup acked' ELSE hybrid
  /\ wr' = NoWrite
  /\ UNCHANGED <<diskVars, imm, has_imm, logno, bgVars, opt, writes, crashes, run,
                 rec, la, pinned, gc>>

\* MakeRoomForWrite starts a new log and a new memtable, full or forced.
SwitchLog ==
  /\ MutexFree /\ ~bg_error /\ wr.at = "idle" /\ ~has_imm
  /\ CreateLog(vs.next)
  /\ imm' = mem /\ has_imm' = TRUE /\ mem' = {}
  /\ UNCHANGED <<tbls, mans, manSynced, bgVars, histVars, run, rec, wr, la, pinned, gc>>

-----------------------------------------------------------------------------
(* The background thread.                                                  *)

BgIdle == MutexFree /\ la.at = "none" /\ fl = 0

\* NewWritableFile on a table, and the number it takes.
CreateTable(n) ==
  /\ n \in Files \cap Numbers
  /\ tbls' = [tbls EXCEPT ![n] = NoTable]
  /\ ChangeDir([dir EXCEPT !.tables = @ \cup {n}])
  /\ vs' = [vs EXCEPT !.next = @ + 1]

\* CompactMemTable, alone or inside the loop of DoCompactionWork.  An empty memtable
\* makes no file.
StartFlush ==
  /\ BgIdle /\ has_imm /\ (bg_error => comp.on) /\ (comp.on => NestedFlush)
  /\ vs.next \in Files \cap Numbers
  /\ fl' = vs.next
  /\ IF imm = {} THEN vs' = [vs EXCEPT !.next = @ + 1] /\ UNCHANGED <<dir, lag, tbls>>
                 ELSE CreateTable(vs.next)
  /\ UNCHANGED <<logs, logSynced, mans, manSynced, memVars, comp, bg_error, histVars, run,
                 rec, wr, la, pinned, gc>>

FlushEditPast == LoggedEdit(IF imm = {} THEN {} ELSE {fl}, {}, logno + 1)

\* The edit drops the logs before the current one.
FlushEdit == LoggedEdit(IF imm = {} THEN {} ELSE {fl}, {}, logno)

\* BuildTable syncs the table, and LogAndApply takes over.
FinishFlush ==
  /\ MutexFree /\ la.at = "none" /\ fl # 0
  /\ tbls' = IF imm = {} THEN tbls ELSE [tbls EXCEPT ![fl] = [recs |-> imm, synced |-> TRUE]]
  /\ la' = [at |-> "add", for |-> "flush", new |-> FALSE,
            edit |-> FlushEdit]
  /\ lag' = IF imm = {} THEN lag ELSE SyncFile(dir)
  /\ UNCHANGED <<dir, logs, logSynced, mans, manSynced, memVars, bgVars, histVars,
                 run, rec, vs, wr, pinned, gc>>

\* BuildTable fails and removes its file.
FlushFails ==
  /\ EnvErrors /\ MutexFree /\ la.at = "none" /\ fl # 0
  /\ ChangeDir([dir EXCEPT !.tables = @ \ {fl}])
  /\ fl' = 0 /\ bg_error' = TRUE
  /\ UNCHANGED <<logs, logSynced, tbls, mans, manSynced, memVars, comp, histVars, run, rec,
                 vs, wr, la, pinned, gc>>

\* BackgroundCompaction prefers a flush; OpenCompactionOutputFile takes a number.
StartCompaction(inputs) ==
  /\ BgIdle /\ ~has_imm /\ ~bg_error /\ ~comp.on /\ inputs # {}
  /\ comp' = [on |-> TRUE, num |-> vs.next, inputs |-> inputs]
  /\ CreateTable(vs.next)
  /\ UNCHANGED <<logs, logSynced, mans, manSynced, memVars, fl, bg_error, histVars, run,
                 rec, wr, la, pinned, gc>>

CompactionEditNewLog == LoggedEdit({comp.num}, comp.inputs, logno)
CompactionEdit == LoggedEdit({comp.num}, comp.inputs, vs.log)

\* FinishCompactionOutputFile syncs the output; InstallCompactionResults logs the edit.
FinishCompaction ==
  /\ BgIdle /\ comp.on
  /\ tbls' = [tbls EXCEPT ![comp.num] =
                [recs |-> UNION {tbls[n].recs : n \in comp.inputs}, synced |-> TRUE]]
  /\ la' = [at |-> "add", for |-> "comp", new |-> FALSE,
            edit |-> CompactionEdit]
  /\ lag' = SyncFile(dir)
  /\ UNCHANGED <<dir, logs, logSynced, mans, manSynced, memVars, bgVars, histVars,
                 run, rec, vs, wr, pinned, gc>>

\* The merge fails: CleanupCompaction forgets the output, nothing is removed.
CompactionFails ==
  /\ EnvErrors /\ BgIdle /\ comp.on
  /\ comp' = NoComp /\ bg_error' = TRUE
  /\ UNCHANGED <<diskVars, memVars, fl, histVars, run, rec, vs, wr, la, pinned, gc>>

\* DeleteObsoleteFiles removes one file, holding the mutex.
Unlink(f) ==
  /\ f \in gc /\ gc' = gc \ {f}
  /\ ChangeDir(CASE f[1] = "log"   -> [dir EXCEPT !.logs = @ \ {f[2]}]
                 [] f[1] = "man"   -> [dir EXCEPT !.mans = @ \ {f[2]}]
                 [] f[1] = "table" -> [dir EXCEPT !.tables = @ \ {f[2]}])
  /\ UNCHANGED <<logs, logSynced, tbls, mans, manSynced, memVars, bgVars, histVars, run,
                 rec, vs, wr, la, pinned>>

\* NewInternalIterator references the current version; its cleanup releases it.
Pin ==
  /\ Iterators /\ MutexFree /\ pinned = {} /\ vs.live # {}
  /\ pinned' = vs.live
  /\ UNCHANGED <<diskVars, memVars, bgVars, histVars, run, rec, vs, wr, la, gc>>
Unpin ==
  /\ MutexFree /\ pinned # {}
  /\ pinned' = {}
  /\ UNCHANGED <<diskVars, memVars, bgVars, histVars, run, rec, vs, wr, la, gc>>

-----------------------------------------------------------------------------
OpenStep ==
  \/ NewDB \/ NewDBCurrent \/ RecoverManifest \/ RecoverLogFile \/ OpenLog
  \/ OpenSave \/ OpenWithoutSave
ApplyStep ==
  \/ NewManifest \/ AddEdit \/ SyncManifest \/ SetCurrent \/ InstallOpen \/ InstallFlush
  \/ InstallCompaction \/ OpenFails \/ ApplyFails
WriteStep ==
  (\E sync \in SyncOptions : AddRecord(sync)) \/ SyncLog \/ InsertInto \/ SwitchLog
BackgroundStep ==
  \/ StartFlush \/ FinishFlush \/ FlushFails
  \/ \E inputs \in SUBSET vs.live : StartCompaction(inputs)
  \/ FinishCompaction \/ CompactionFails
  \/ \E f \in gc : Unlink(f)
Crash == ProcessCrash \/ CrashInAddRecord \/ MachineCrash
Next == OpenStep \/ ApplyStep \/ WriteStep \/ BackgroundStep \/ Pin \/ Unpin \/ Crash
Spec == Init /\ [][Next]_vars

-----------------------------------------------------------------------------
(* Properties.                                                             *)

Readable == mem \cup imm \cup UNION {tbls[n].recs : n \in vs.live}

\* What DB::Open would find if the process stopped now.
Recoverable ==
  IF dir.current \notin dir.mans THEN {}
  ELSE LET es == Intact(mans[dir.current]) IN
       IF ~\E i \in DOMAIN es : es[i].meta THEN {}
       ELSE UNION {tbls[n].recs : n \in LiveIn(es) \cap dir.tables}
            \cup UNION {LET s == Intact(logs[n]) IN {s[i] : i \in DOMAIN s} :
                        n \in {m \in dir.logs : m >= LastMeta(es).log}}
RecoverableWrites == {r.w : r \in Recoverable}

\* The records and edits written so far: no sequence number exceeds the count of writes.
Issued == [w : 1..writes, seq : 0..writes]
Dirs == [logs : SUBSET Files, tables : SUBSET Files, mans : SUBSET Files,
         current : {0} \cup Files]
Edits == [add : SUBSET Files, del : SUBSET Files, meta : BOOLEAN, log : Nat, next : Nat,
          seq : 0..writes]

Tables == [recs : SUBSET Issued, synced : BOOLEAN]
Recoveries == [todo : SUBSET Files, add : SUBSET Files, save : BOOLEAN]
VersionSets ==
  [live : SUBSET Files, log : Nat, next : Nat, seq : 0..writes, man : Nat, open : BOOLEAN]
WritesInProgress ==
  [rec : Issued \cup {Torn}, sync : BOOLEAN, at : {"idle", "logged", "synced"}]
Applies ==
  [at : {"none", "new", "add", "sync", "current", "install"}, edit : Edits,
   for : {"open", "flush", "comp"}, new : BOOLEAN]
Compactions == [on : BOOLEAN, num : {0} \cup Files, inputs : SUBSET Files]

TypeHist ==
  /\ opt \in Scenarios /\ writes \in 0..MaxWrites /\ crashes \in Nat
  /\ acked \subseteq Writes /\ ackedSync \subseteq Writes /\ hybrid \subseteq Writes
TypeDir == dir \in Dirs /\ lag \subseteq Dirs /\ dir \in lag
TypeLogs ==
  /\ logs \in [Files -> Seq(Issued \cup {Torn})] /\ logSynced \in [Files -> Nat]
  /\ \A n \in Files : logSynced[n] <= Len(logs[n])
TypeMans ==
  /\ mans \in [Files -> Seq(Edits \cup {Torn})] /\ manSynced \in [Files -> Nat]
  /\ \A n \in Files : manSynced[n] <= Len(mans[n])
TypeTables == tbls \in [Files -> Tables]
TypeOpen ==
  /\ run \in {"down", "newdb", "replay", "up", "failed"}
  /\ rec \in Recoveries /\ vs \in VersionSets
TypeMem ==
  /\ mem \subseteq Issued /\ imm \subseteq Issued /\ has_imm \in BOOLEAN
  /\ logno \in {0} \cup Files
TypeWrite == wr \in WritesInProgress /\ (wr.at # "idle" => wr.rec \in Issued)
TypeApply == la \in Applies
TypeBg ==
  /\ fl \in {0} \cup Files /\ comp \in Compactions /\ bg_error \in BOOLEAN
  /\ pinned \subseteq Files /\ gc \subseteq {"log", "man", "table"} \X Files
TypeOK ==
  /\ TypeHist /\ TypeDir /\ TypeLogs /\ TypeMans /\ TypeTables /\ TypeOpen /\ TypeMem
  /\ TypeWrite /\ TypeApply /\ TypeBg

\* Who has a MANIFEST open, in every scenario.
Handles ==
  /\ run = "up" => vs.open
  /\ run = "replay" => rec.save \/ (vs.open /\ la.at = "none")
  /\ run \notin {"replay", "up"} => la.at = "none"
  /\ la.at \notin {"none", "new"} => vs.open
  /\ vs.open => vs.man \in Files
  /\ comp.on => comp.num # 0

-----------------------------------------------------------------------------
(* The inductive invariant of the files.                                   *)

\* The scenarios in which the files are safe: a log with a cut record is not reused, a
\* machine that may crash has a database already, commits the directory with a file,
\* and does not reuse logs, and where an error may cut an edit no compaction is under way
\* that appends another one behind it.
Dependable ==
  /\ ReuseLogs => ~TornRecords /\ ~MachineCrashes
  /\ MachineCrashes => SyncCommitsDir /\ ~Fresh
  /\ EnvErrors /\ TornRecords => ~NestedFlush

\* The whole edits of a MANIFEST, and how many of them a recovery may read: all of them
\* or, after a crash of the machine, the synced ones and some of the others.
Whole(s) == IF s # <<>> /\ s[Len(s)] = Torn THEN Len(s) - 1 ELSE Len(s)
Heads(n) ==
  {j \in 0..Whole(mans[n]) :
     j = Whole(mans[n]) \/ (MachineCrashes /\ manSynced[n] <= j)}
LiveAt(s, j) ==
  {n \in Files : \E i \in 1..j : n \in s[i].add /\ \A k \in i+1..j : n \notin s[k].del}
Listed(n) == {m \in Files : \E j \in Heads(n) : m \in LiveAt(mans[n], j)}

\* The file number the MANIFEST of CURRENT promises to be free.
Newest == mans[dir.current][Whole(mans[dir.current])].next

\* An incomplete record is the last of its MANIFEST.
TornIsLast ==
  \A n \in Files : \A i \in 1..Len(mans[n]) :
    mans[n][i] = Torn => i = Len(mans[n]) /\ TornRecords

\* Every disk a crash may leave has a CURRENT whose MANIFEST can be read, with tables that
\* are there, synced, and numbered below the next file.
ImagesReadable ==
  \A d \in lag : d.current # 0 =>
    /\ d.current \in d.mans
    /\ \A j \in Heads(d.current) :
         LET s == mans[d.current] IN
         /\ j > 0 /\ s[j].meta /\ d.current < s[j].next
         /\ \A n \in LiveAt(s, j) : n \in d.tables /\ tbls[n].synced /\ n < s[j].next
NextGrows ==
  \A d \in lag : d.current # 0 =>
    \A j \in Heads(d.current) : mans[d.current][j].next <= Newest

\* A database without CURRENT is being created, and a stopped process has no state.
Started ==
  /\ ~MachineCrashes => lag = {dir}
  /\ (\E d \in lag : d.current = 0) => Fresh /\ run \in {"down", "newdb"}
  /\ run = "newdb" => dir.current = 0 /\ 1 \in dir.mans /\ mans[1] = <<NewDBEdit>>
  /\ run \in {"down", "newdb"} => ~vs.open
  /\ run # "up" =>
       fl = 0 /\ ~comp.on /\ pinned = {} /\ gc = {} /\ ~bg_error /\ wr.at = "idle"
  /\ run # "failed"

\* File numbers in use are below next_file_number_, and the files are there.
NumbersInUse ==
  /\ run \in {"replay", "up"} =>
       /\ Newest <= vs.next /\ vs.man < vs.next
       /\ \A n \in vs.live \cup pinned \cup PendingOutputs : n \in dir.tables /\ n < vs.next
       /\ \A n \in vs.live : tbls[n].synced
  /\ run = "replay" =>
       \A n \in rec.add : n < vs.next /\ tbls[n].synced /\ \A d \in lag : n \in d.tables

\* The background thread has stopped for good: nothing more goes to the MANIFEST.
Halted == bg_error /\ la.at = "none" /\ fl = 0 /\ ~comp.on

\* Which MANIFEST descriptor_log_ writes, and that it says what VersionSet has.
Replacing == la.new /\ la.at \in {"add", "sync", "current"}
Written   == la.at \in {"sync", "current", "install"}
ManifestFollows ==
  /\ run = "replay" /\ vs.open /\ la.at = "none" => ReuseLogs
  /\ run = "replay" /\ ~vs.open => \A d \in lag : d.current # vs.man
  /\ Replacing => vs.man \in dir.mans /\ \A d \in lag : d.current # vs.man
  /\ vs.open /\ ~Replacing => dir.current = vs.man
  /\ vs.open =>
       /\ mans[vs.man] # <<>> /\ (mans[vs.man][Len(mans[vs.man])] = Torn => Halted)
       /\ ~bg_error => LiveAt(mans[vs.man], Len(mans[vs.man])) =
                         IF Written THEN (vs.live \ la.edit.del) \cup la.edit.add ELSE vs.live

\* What LogAndApply has been given.
ApplyingEdit ==
  la.at # "none" =>
    /\ la.at = "new" <=> ~vs.open
    /\ la.at \in {"new", "current"} => la.new
    /\ la.for = "open" <=> run = "replay"
    /\ la.for # "open" => ~la.new /\ (la.for = "flush" <=> fl # 0)
    /\ gc = {}
    /\ la.edit.meta /\ la.edit.next <= vs.next
    /\ Newest <= la.edit.next /\ vs.man < la.edit.next
    /\ \A n \in vs.live \cup la.edit.add : n < la.edit.next
    /\ \A n \in la.edit.add : tbls[n].synced /\ \A d \in lag : n \in d.tables
    /\ Written => mans[vs.man][Len(mans[vs.man])] = la.edit
    /\ la.at \in {"current", "install"} => manSynced[vs.man] = Len(mans[vs.man])

\* A table being built is in no version and on no disk's list.
BuildingTable ==
  /\ fl # 0 => fl < vs.next /\ has_imm /\ (comp.on => NestedFlush)
  /\ fl # 0 /\ la.at = "none" =>
       /\ fl \notin vs.live \cup pinned \cup PendingOutputs
       /\ \A d \in lag : fl \notin Listed(d.current)
       /\ imm # {} => fl \in dir.tables

\* DeleteObsoleteFiles works on files no disk needs any more.
CollectingFiles ==
  gc # {} =>
    /\ la.at = "none" /\ ~bg_error /\ fl = 0
    /\ MachineCrashes => manSynced[vs.man] = Len(mans[vs.man])
    /\ \A n \in Files :
         /\ <<"table", n>> \in gc => n \notin vs.live \cup pinned \cup PendingOutputs
         /\ <<"man", n>> \in gc => n # vs.man

FilesSafe ==
  /\ TornIsLast /\ ImagesReadable /\ NextGrows /\ Started /\ NumbersInUse /\ ManifestFollows
  /\ ApplyingEdit /\ BuildingTable /\ CollectingFiles
FilesInvariant == TypeOK /\ Handles /\ (Dependable => FilesSafe)

-----------------------------------------------------------------------------
(* What the files promise.                                                 *)

\* DB::Open after a crash never meets a MANIFEST it cannot read or a missing table:
\* "the creation of the DB is committed only when the descriptor is created".
OpenSucceeds == run # "failed"

\* An open database serves every write it owes (WriteOptions::sync in options.h).
OpenServesAcked == run = "up" => acked \subseteq {r.w : r \in Readable}

\* Every table of the current version, of a version an iterator holds, or being built
\* by a compaction is in the directory, and a table of the version is synced:
\* DeleteObsoleteFiles never takes a file in use.
LiveFilesExist ==
  run = "up" =>
    /\ vs.live \cup pinned \cup PendingOutputs \subseteq dir.tables
    /\ \A n \in vs.live : tbls[n].synced

\* Recovery restores a last sequence no smaller than any it finds, so that no two
\* writes the database can return share a sequence number.
SequencesAreFresh ==
  run = "up" =>
    \A r \in Readable : r.seq <= vs.seq /\ \A q \in Readable : q.seq = r.seq => q = r

\* Flushes, compactions, log and MANIFEST switches, removals and recoveries leave what
\* a crash would recover as it was: the database implements CrashStore, whose contents
\* only a write, or a crash of the machine, changes.
Store == INSTANCE CrashStore WITH stored <- RecoverableWrites
StoreSpec == Store!Spec

\* The last acknowledged sync write survives a crash of the machine with all that was
\* acknowledged before it: doc/index.md, "in the event of a crash, the bulk load is
\* restarted just after the last synchronous write finished by the previous run".
SyncCoversEarlier == hybrid \subseteq RecoverableWrites
=============================================================================
