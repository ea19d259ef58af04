------------------------- MODULE WritePathLogProofs --------------------------
(***************************************************************************)
(* The log of the write path, for any number of threads, any batches and   *)
(* options and with or without errors of the environment: its records are  *)
(* in sequence, an acknowledged sync write is in a synced one, and without *)
(* errors the memtable holds what the current log file holds.              *)
(*                                                                         *)
(* The inductive invariant is WriteInvariant with LogInvariant.  Most      *)
(* steps are quiet: they touch neither the log nor what it is compared     *)
(* with.  The others are taken one by one in the lemma of each conjunct.   *)
(***************************************************************************)
EXTENDS WritePathProofs

-----------------------------------------------------------------------------
(* Steps that leave the log alone.                                         *)

\* The fields of a Writer object that the log's invariants read.
FieldsKept(r, s) == Kept(r, s) /\ r.sync = s.sync

\* How a leader's group may change in a quiet step.
GroupGrows(u) ==
  \/ pc[u] \in Leads /\ w'[u].group = w[u].group
  \/ w'[u].group = 1
  \/ /\ pc[u] \in Leads /\ w'[u].group = w[u].group + 1
     /\ w[writers[w[u].group + 1]].sync => w[u].sync

\* A step that leaves the log, what is published and what is inserted alone.
Quiet ==
  /\ UNCHANGED <<log, last_seq, tickets, writers, mem, logfile, acked>>
  /\ next_file' >= next_file
  /\ \A u \in Threads :
       /\ w'[u].ticket = w[u].ticket /\ w'[u].batch = w[u].batch
       /\ w'[u].sync = w[u].sync /\ w'[u].done = w[u].done
       /\ pc[u] \in Logging \cup {"pop"} => pc'[u] = pc[u] /\ w'[u] = w[u]
       /\ pc'[u] \in Logging => pc[u] \in Logging
       /\ pc'[u] = "pop" /\ pc[u] # "pop" /\ w'[u].ok => GroupTickets(u)' = {}
       /\ pc'[u] \in {"check", "cv"} => pc[u] \in {"check", "cv"} /\ w'[u].ok = w[u].ok
       /\ pc'[u] \in Leads => GroupGrows(u)

\* The types the proofs below use.
LEMMA PathTypes ==
  ASSUME TypeOK
  PROVE  /\ pc \in [Threads -> Labels] /\ w \in [Threads -> WriterObjects]
         /\ writers \in Seq(Threads) /\ \A i \in 1..Len(writers) : writers[i] \in Threads
         /\ log \in Seq(LogRecords) /\ DOMAIN log = 1..Len(log) /\ Len(log) \in Nat
         /\ \A i \in DOMAIN log : log[i] \in LogRecords
         /\ tickets \in Nat /\ last_seq \in Nat /\ logfile \in Nat /\ next_file \in Nat
         /\ Len(writers) \in Nat
<1>1. /\ pc \in [Threads -> Labels] /\ w \in [Threads -> WriterObjects]
      /\ writers \in Seq(Threads) /\ log \in Seq(LogRecords)
      /\ tickets \in 0..MaxTickets /\ last_seq \in Nat /\ logfile \in Nat /\ next_file \in Nat
  BY Zenon DEF TypeOK, TypeControl, TypeWrite, TypeSwitch
<1>2. tickets \in Nat BY <1>1, BoundAssumption
<1>3. \A i \in 1..Len(writers) : writers[i] \in Threads BY <1>1
<1>4. DOMAIN log = 1..Len(log) /\ Len(log) \in Nat /\ \A i \in DOMAIN log : log[i] \in LogRecords
  BY <1>1
<1>5. Len(writers) \in Nat BY <1>1
<1> QED BY <1>1, <1>2, <1>3, <1>4, <1>5, Zenon

\* The fields of a Writer object and of a record.
LEMMA FieldTypes ==
  /\ \A x \in WriterObjects :
       /\ x.ticket \in Int /\ x.group \in Nat /\ x.first \in Nat /\ x.last \in Nat
       /\ x.sync \in BOOLEAN /\ x.ok \in BOOLEAN /\ x.done \in BOOLEAN /\ x.count \in Nat
  /\ \A r \in LogRecords :
       /\ r.file \in Nat /\ r.first \in Nat /\ r.last \in Nat /\ r.synced \in BOOLEAN
       /\ r.tickets \subseteq Tickets
<1>1. \A x \in WriterObjects :
        /\ x.ticket \in 0..MaxTickets /\ x.group \in Nat /\ x.first \in Nat /\ x.last \in Nat
        /\ x.sync \in BOOLEAN /\ x.ok \in BOOLEAN /\ x.done \in BOOLEAN /\ x.count \in Nat
  BY Zenon DEF WriterObjects
<1>2. \A r \in LogRecords :
       /\ r.file \in Nat /\ r.first \in Nat /\ r.last \in Nat /\ r.synced \in BOOLEAN
       /\ r.tickets \subseteq Tickets
  BY Zenon DEF LogRecords
<1>3. 0..MaxTickets \subseteq Int BY BoundAssumption
<1> QED BY <1>1, <1>2, <1>3, Zenon

\* At most one thread leads.
LEMMA OneLeader ==
  ASSUME TypeOK, QueueConsistent, NEW t \in Threads, NEW u \in Threads,
         pc[t] \in Leads, pc[u] \in Leads
  PROVE  t = u
BY Leadership, Zenon

\* Setting a status or a flag of MakeRoomForWrite leaves those fields alone.
LEMMA FlagsSet ==
  ASSUME TypeOK, NEW t \in Threads, NEW b \in BOOLEAN,
         \/ w' = w
         \/ w' = [w EXCEPT ![t].ok = b]
         \/ w' = [w EXCEPT ![t].delay = b]
         \/ w' = [w EXCEPT ![t].force = b]
  PROVE  /\ \A u \in Threads : FieldsKept(w'[u], w[u])
         /\ \A u \in Threads \ {t} : w'[u] = w[u]
<1>1. w \in [Threads -> WriterObjects] BY Zenon DEF TypeOK, TypeWrite
<1>2. \A x \in WriterObjects :
        /\ FieldsKept(x, x) /\ FieldsKept([x EXCEPT !.ok = b], x)
        /\ FieldsKept([x EXCEPT !.delay = b], x) /\ FieldsKept([x EXCEPT !.force = b], x)
  BY Zenon DEF WriterObjects, FieldsKept, Kept
<1> QED BY <1>1, <1>2, ZenonT(30)

\* A thread moves outside the log.
LEMMA QuietMove ==
  ASSUME TypeOK, NEW t \in Threads, NEW l,
         UNCHANGED <<log, last_seq, tickets, writers, mem, logfile, next_file, acked>>,
         pc' = [pc EXCEPT ![t] = l],
         \A u \in Threads : FieldsKept(w'[u], w[u]),
         \A u \in Threads \ {t} : w'[u] = w[u],
         pc[t] \notin Logging \cup {"pop"}, l \notin Logging,
         l = "pop" => (w'[t].ok => GroupTickets(t)' = {}),
         l \in {"check", "cv"} => pc[t] \in {"check", "cv"} /\ w'[t] = w[t],
         l \in Leads => pc[t] \in Leads
  PROVE  Quiet
<1>1. pc \in [Threads -> Labels] /\ next_file \in Nat BY PathTypes, Zenon
<1>2. next_file' >= next_file BY <1>1
<1>3. ASSUME NEW u \in Threads, u # t
      PROVE  pc'[u] = pc[u] /\ w'[u] = w[u]
  BY <1>1, <1>3, Zenon
<1>4. pc'[t] = l BY <1>1, Zenon
<1>5. ASSUME NEW u \in Threads, pc'[u] \in Leads PROVE GroupGrows(u)
  <2>1. w'[u].group = w[u].group BY Zenon DEF FieldsKept, Kept
  <2>2. pc[u] \in Leads BY <1>3, <1>4, <1>5, Zenon
  <2> QED BY <2>1, <2>2, Zenon DEF GroupGrows
<1>6. \A u \in Threads :
        /\ w'[u].ticket = w[u].ticket /\ w'[u].batch = w[u].batch
        /\ w'[u].sync = w[u].sync /\ w'[u].done = w[u].done
  BY Zenon DEF FieldsKept, Kept
<1>7. \A u \in Threads :
        /\ pc[u] \in Logging \cup {"pop"} => pc'[u] = pc[u] /\ w'[u] = w[u]
        /\ pc'[u] \in Logging => pc[u] \in Logging
        /\ pc'[u] = "pop" /\ pc[u] # "pop" /\ w'[u].ok => GroupTickets(u)' = {}
        /\ pc'[u] \in {"check", "cv"} => pc[u] \in {"check", "cv"} /\ w'[u].ok = w[u].ok
  BY <1>3, <1>4, Zenon
<1> QED BY <1>2, <1>5, <1>6, <1>7, Zenon DEF Quiet

\* The background thread, reads and the destructor are quiet.
LEMMA BackgroundQuiet ==
  ASSUME TypeOK, BackgroundStep \/ UpdateStats \/ Destroy \/ UNCHANGED vars
  PROVE  Quiet
<1> USE DEF writeVars, switchVars
<1>1. UNCHANGED <<pc, w, writers, mem, acked>> BY ClientFrame, Zenon
<1>2. UNCHANGED <<log, last_seq, tickets, logfile>> /\ next_file' \in {next_file, next_file + 1}
  <2>1. CASE BackgroundCall \/ SkipWork BY <2>1, Zenon DEF BackgroundCall, SkipWork
  <2>2. CASE StartFlush BY <2>2, Zenon DEF StartFlush
  <2>3. CASE StartManual BY <2>3, Zenon DEF StartManual
  <2>4. CASE PickCompaction BY <2>4, Zenon DEF PickCompaction
  <2>5. CASE CompactKey BY <2>5, Zenon DEF CompactKey
  <2>6. CASE CompactKeyFlush BY <2>6, Zenon DEF CompactKeyFlush
  <2>7. CASE BuildTable BY <2>7, Zenon DEF BuildTable
  <2>8. CASE InstallFlush BY <2>8, Zenon DEF InstallFlush
  <2>9. CASE EndCompactionLoop BY <2>9, Zenon DEF EndCompactionLoop
  <2>10. CASE InstallCompaction BY <2>10, Zenon DEF InstallCompaction
  <2>11. CASE FinishCompaction \/ EndCall BY <2>11, Zenon DEF FinishCompaction, EndCall
  <2>12. CASE UpdateStats BY <2>12, Zenon DEF UpdateStats
  <2>13. CASE Destroy BY <2>13, Zenon DEF Destroy
  <2>14. CASE UNCHANGED vars BY <2>14, Zenon DEF vars
  <2> QED BY <2>1, <2>2, <2>3, <2>4, <2>5, <2>6, <2>7, <2>8, <2>9, <2>10, <2>11, <2>12,
             <2>13, <2>14, Zenon DEF BackgroundStep
<1>3. next_file' >= next_file BY <1>2, PathTypes
<1> QED BY <1>1, <1>2, <1>3, Zenon DEF Quiet, GroupGrows

\* The steps of a client before and after the log.
LEMMA ClientQuiet ==
  ASSUME TypeOK, QueueConsistent, NEW t \in Threads,
         \/ WaitTurn(t) \/ Lead(t) \/ Resume(t)
         \/ RoomError(t) \/ RoomDelay(t) \/ RoomFound(t) \/ RoomWait(t) \/ RoomSwitchFails(t)
         \/ JoinGroup(t)
         \/ WaitFlushed(t) \/ RegisterManual(t) \/ WaitManual(t) \/ LeaveManual(t)
  PROVE  Quiet
<1> USE DEF writeVars, switchVars
<1>1. /\ pc \in [Threads -> Labels] /\ w \in [Threads -> WriterObjects]
      /\ writers \in Seq(Threads) /\ next_file \in Nat /\ next_file >= next_file
  BY PathTypes
<1>2. CASE WaitTurn(t)
  BY <1>2, QuietMove, FlagsSet, ZenonT(30) DEF WaitTurn, Goto, Logging, Appended, Leads
<1>3. CASE Lead(t)
  <2>3. \A u \in Threads \ {t} : w'[u] = w[u] BY <1>1, <1>3, ZenonT(60) DEF Lead
  <2>4. /\ w'[t].ticket = w[t].ticket /\ w'[t].batch = w[t].batch
        /\ w'[t].sync = w[t].sync /\ w'[t].done = w[t].done /\ w'[t].group = 1
    BY <1>1, <1>3, SMTT(60) DEF Lead, WriterObjects
  <2>5. /\ pc[t] = "check" /\ pc' = [pc EXCEPT ![t] = "room"]
        /\ UNCHANGED <<log, last_seq, tickets, writers, mem, logfile, next_file, acked>>
    BY <1>3, Zenon DEF Lead, Goto
  <2>6. pc'[t] = "room" /\ \A u \in Threads \ {t} : pc'[u] = pc[u] BY <2>5, <1>1, Zenon
  <2>7. \A u \in Threads : pc'[u] \in Leads => GroupGrows(u)
    BY <2>3, <2>4, <2>6, Zenon DEF GroupGrows
  <2>8. \A u \in Threads :
          /\ pc[u] \in Logging \cup {"pop"} => pc'[u] = pc[u] /\ w'[u] = w[u]
          /\ pc'[u] \in Logging => pc[u] \in Logging
          /\ pc'[u] = "pop" /\ pc[u] # "pop" /\ w'[u].ok => GroupTickets(u)' = {}
          /\ pc'[u] \in {"check", "cv"} => pc[u] \in {"check", "cv"} /\ w'[u].ok = w[u].ok
    BY <2>3, <2>5, <2>6, Zenon DEF Logging, Appended
  <2>9. \A u \in Threads :
          /\ w'[u].ticket = w[u].ticket /\ w'[u].batch = w[u].batch
          /\ w'[u].sync = w[u].sync /\ w'[u].done = w[u].done
    BY <2>3, <2>4, Zenon
  <2> QED BY <1>1, <2>5, <2>7, <2>8, <2>9, Zenon DEF Quiet
<1>4. CASE Resume(t)
  <2>1. /\ w' = w /\ pc' = [pc EXCEPT ![t] = ResumeAt(pc[t])]
        /\ UNCHANGED <<log, last_seq, tickets, writers, mem, logfile, next_file, acked>>
    BY <1>4, Zenon DEF Resume, Goto
  <2>2. pc[t] \in {"cv", "roomcv", "memcv", "manualcv", "sleep", "memlock", "manlock"}
    BY <1>4, Zenon DEF Resume, Waiting, Unlocked
  <2>3. /\ pc[t] \notin Logging \cup {"pop"} /\ ResumeAt(pc[t]) \notin Logging
        /\ ResumeAt(pc[t]) # "pop"
        /\ ResumeAt(pc[t]) \in {"check", "cv"} => pc[t] \in {"check", "cv"}
        /\ ResumeAt(pc[t]) \in Leads => pc[t] \in Leads
    BY <2>2, Zenon DEF ResumeAt, Logging, Appended, Leads
  <2> QED BY <2>1, <2>3, QuietMove, FlagsSet, ZenonT(30)
<1>5. CASE RoomError(t) \/ RoomSwitchFails(t)
  <2>1. /\ w' = [w EXCEPT ![t].ok = FALSE] /\ pc' = [pc EXCEPT ![t] = "pop"] /\ pc[t] = "room"
        /\ UNCHANGED <<log, last_seq, tickets, writers, mem, logfile, next_file, acked>>
    BY <1>5, Zenon DEF RoomError, RoomSwitchFails, CanSwitch, InRoom, Goto
  <2>2. ~w'[t].ok BY <1>1, <2>1, Zenon DEF WriterObjects
  <2> QED BY <2>1, <2>2, QuietMove, FlagsSet, ZenonT(30) DEF Logging, Appended, Leads
<1>6. CASE RoomDelay(t)
  BY <1>6, QuietMove, FlagsSet, ZenonT(30) DEF RoomDelay, InRoom, Goto, Logging, Appended, Leads
<1>7. CASE RoomFound(t)
  <2>1. /\ w' = w /\ pc[t] = "room"
        /\ UNCHANGED <<log, last_seq, tickets, writers, mem, logfile, next_file, acked>>
    BY <1>7, Zenon DEF RoomFound, InRoom
  <2>2. CASE w[t].batch # NullBatch
    <3>1. pc' = [pc EXCEPT ![t] = "build"] BY <1>7, <2>2, Zenon DEF RoomFound, Goto
    <3> QED BY <2>1, <3>1, QuietMove, FlagsSet, ZenonT(30) DEF Logging, Appended, Leads
  <2>3. CASE w[t].batch = NullBatch
    <3>1. pc' = [pc EXCEPT ![t] = "pop"] BY <1>7, <2>3, Zenon DEF RoomFound, Goto
    <3>2. w[t].group = 1 /\ writers[1] = t BY <2>1, Zenon DEF QueueConsistent, Leads
    <3>3. GroupTickets(t) = {} BY <2>3, <3>2 DEF GroupTickets
    <3>4. GroupTickets(t)' = {} BY <2>1, <3>3, Zenon DEF GroupTickets
    <3> QED BY <2>1, <3>1, <3>4, QuietMove, FlagsSet, ZenonT(30) DEF Logging, Appended, Leads
  <2> QED BY <2>2, <2>3, Zenon
<1>8. CASE RoomWait(t)
  BY <1>8, QuietMove, FlagsSet, ZenonT(30) DEF RoomWait, InRoom, Goto, Logging, Appended, Leads
<1>9. CASE JoinGroup(t)
  <2>1. \A x \in WriterObjects : \A k, m, n :
          LET y == [x EXCEPT !.group = k, !.size = m, !.count = n]
          IN  /\ y.ticket = x.ticket /\ y.batch = x.batch /\ y.sync = x.sync
              /\ y.done = x.done /\ y.group = k /\ y.ok = x.ok
    BY SMTT(30) DEF WriterObjects
  <2>2. PICK m, n : w' = [w EXCEPT ![t] = [w[t] EXCEPT !.group = w[t].group + 1,
                                                       !.size = m, !.count = n]]
    BY <1>9, ZenonT(30) DEF JoinGroup
  <2>3. /\ w'[t] = [w[t] EXCEPT !.group = w[t].group + 1, !.size = m, !.count = n]
        /\ w[t] \in WriterObjects /\ \A u \in Threads \ {t} : w'[u] = w[u]
    BY <2>2, <1>1, ZenonT(30)
  <2>4. /\ w'[t].ticket = w[t].ticket /\ w'[t].batch = w[t].batch
        /\ w'[t].sync = w[t].sync /\ w'[t].done = w[t].done /\ w'[t].group = w[t].group + 1
    BY <2>1, <2>3, SMTT(30)
  <2>5. /\ pc[t] = "build" /\ pc' = pc
        /\ w[writers[w[t].group + 1]].sync => w[t].sync
        /\ UNCHANGED <<log, last_seq, tickets, writers, mem, logfile, next_file, acked>>
    BY <1>9, Zenon DEF JoinGroup, Joins
  <2>6. \A u \in Threads : pc'[u] \in Leads => GroupGrows(u)
    BY <2>3, <2>4, <2>5, Zenon DEF GroupGrows
  <2>7. \A u \in Threads :
          /\ pc[u] \in Logging \cup {"pop"} => pc'[u] = pc[u] /\ w'[u] = w[u]
          /\ pc'[u] \in Logging => pc[u] \in Logging
          /\ pc'[u] = "pop" /\ pc[u] # "pop" /\ w'[u].ok => GroupTickets(u)' = {}
          /\ pc'[u] \in {"check", "cv"} => pc[u] \in {"check", "cv"} /\ w'[u].ok = w[u].ok
    BY <2>3, <2>5, Zenon DEF Logging, Appended
  <2>8. \A u \in Threads :
          /\ w'[u].ticket = w[u].ticket /\ w'[u].batch = w[u].batch
          /\ w'[u].sync = w[u].sync /\ w'[u].done = w[u].done
    BY <2>3, <2>4, Zenon
  <2> QED BY <1>1, <2>5, <2>6, <2>7, <2>8, Zenon DEF Quiet
<1>10. CASE WaitFlushed(t)
  <2>1. /\ w' = w /\ pc[t] = "mem"
        /\ pc' = [pc EXCEPT ![t] = "memcv"] \/ pc' = [pc EXCEPT ![t] = "manlock"]
        /\ UNCHANGED <<log, last_seq, tickets, writers, mem, logfile, next_file, acked>>
    BY <1>10, Zenon DEF WaitFlushed, Goto
  <2> QED BY <2>1, QuietMove, FlagsSet, ZenonT(30) DEF Logging, Appended, Leads
<1>11. CASE RegisterManual(t)
  BY <1>11, <1>1, ZenonT(30) DEF RegisterManual, Quiet, GroupGrows
<1>12. CASE WaitManual(t)
  BY <1>12, QuietMove, FlagsSet, ZenonT(30) DEF WaitManual, Goto, Logging, Appended, Leads
<1>13. CASE LeaveManual(t)
  BY <1>13, QuietMove, FlagsSet, ZenonT(30) DEF LeaveManual, Goto, Logging, Appended, Leads
<1> QED BY <1>2, <1>3, <1>4, <1>5, <1>6, <1>7, <1>8, <1>9, <1>10, <1>11, <1>12, <1>13, Zenon

-----------------------------------------------------------------------------
(* What the other steps do to the log and to what it is compared with.      *)

\* A leader goes on and the queue stays as it is.
Moves(t) ==
  /\ UNCHANGED <<writers, tickets, acked>>
  /\ pc[t] \in Leads /\ pc'[t] \in Leads
  /\ \A u \in Threads : FieldsKept(w'[u], w[u])
  /\ \A u \in Threads \ {t} : w'[u] = w[u] /\ pc'[u] = pc[u]

\* BeginWrite and BeginCompactRange.
Entering(t) ==
  /\ UNCHANGED <<log, last_seq, mem, logfile, next_file, acked>>
  /\ pc[t] = "idle" /\ pc'[t] = "check"
  /\ tickets' = tickets + 1 /\ w'[t].ticket = tickets + 1 /\ ~w'[t].done
  /\ \A u \in Threads \ {t} : w'[u] = w[u] /\ pc'[u] = pc[u]
  /\ writers' = Append(writers, t)
  /\ \A i \in 1..Len(writers) : writers[i] # t

\* ReturnDone.
Leaving(t) ==
  /\ UNCHANGED <<log, last_seq, mem, logfile, next_file, writers, tickets>>
  /\ pc[t] = "check" /\ w[t].done /\ pc'[t] \in {"idle", "memlock", "manlock"}
  /\ \A u \in Threads \ {t} : w'[u] = w[u] /\ pc'[u] = pc[u]
  /\ \A i \in 1..Len(writers) : writers[i] # t
  /\ acked' = acked \cup {Ack(t, w[t].ok)}

\* RoomSwitch.
Switching(t) ==
  /\ Moves(t) /\ pc[t] = "room" /\ pc'[t] = "room"
  /\ logfile' = next_file /\ next_file' = next_file + 1 /\ mem' = {}
  /\ UNCHANGED <<log, last_seq>>

\* CloseGroup.
Closing(t) ==
  /\ Moves(t) /\ pc[t] = "build" /\ pc'[t] = "log"
  /\ w'[t].first = last_seq + 1 /\ w'[t].last = last_seq + w[t].count
  /\ UNCHANGED <<log, last_seq, mem, logfile, next_file>>

\* AddRecord.
Adding(t) ==
  /\ Moves(t) /\ pc[t] = "log"
  /\ w'[t].first = w[t].first /\ w'[t].last = w[t].last
  /\ \/ /\ log' = Append(log, LogRecord(t)) /\ pc'[t] \in {"sync", "insert"}
        /\ pc'[t] = "insert" => ~w'[t].sync
     \/ /\ EnvErrors /\ pc'[t] = "logged" /\ ~w'[t].ok
        /\ log' = log \/ log' = Append(log, LogRecord(t))
  /\ UNCHANGED <<last_seq, mem, logfile, next_file>>

\* SyncLog.
Syncing(t) ==
  /\ Moves(t) /\ pc[t] = "sync"
  /\ w'[t].first = w[t].first /\ w'[t].last = w[t].last
  /\ DOMAIN log' = DOMAIN log /\ Len(log') = Len(log)
  /\ \A i \in DOMAIN log :
       /\ log'[i].file = log[i].file /\ log'[i].tickets = log[i].tickets
       /\ log'[i].first = log[i].first /\ log'[i].last = log[i].last
       /\ log[i].synced => log'[i].synced
       /\ pc'[t] = "insert" /\ log[i].file = logfile => log'[i].synced
  /\ \/ pc'[t] = "insert"
     \/ EnvErrors /\ pc'[t] = "syncfail" /\ ~w'[t].ok
  /\ UNCHANGED <<last_seq, mem, logfile, next_file>>

\* InsertInto.
Inserting(t) ==
  /\ Moves(t) /\ w' = w /\ pc[t] = "insert" /\ pc'[t] = "logged"
  /\ mem' = mem \cup GroupTickets(t)
  /\ UNCHANGED <<log, last_seq, logfile, next_file>>

\* Publish.
Publishing(t) ==
  /\ Moves(t) /\ w' = w /\ pc[t] \in {"logged", "syncfail"} /\ pc'[t] = "pop"
  /\ last_seq' = w[t].last
  /\ UNCHANGED <<log, mem, logfile, next_file>>

\* Pop.
Popping(t) ==
  /\ UNCHANGED <<log, last_seq, mem, logfile, next_file, tickets>>
  /\ pc[t] = "pop" /\ pc'[t] \in {"idle", "memlock", "manlock"}
  /\ w[t].group \in 1..Len(writers) /\ writers[1] = t
  /\ Len(writers') = Len(writers) - w[t].group
  /\ \A k \in 1..Len(writers') :
       /\ k + w[t].group \in 1..Len(writers)
       /\ writers'[k] = writers[k + w[t].group] /\ w'[writers'[k]] = w[writers'[k]]
  /\ \A u \in Threads \ {t} :
       /\ pc'[u] = pc[u]
       /\ \/ w'[u] = w[u]
          \/ /\ \E k \in 2..w[t].group : writers[k] = u
             /\ w'[u].ticket = w[u].ticket /\ w'[u].batch = w[u].batch
             /\ w'[u].sync = w[u].sync /\ w'[u].ok = w[t].ok
  /\ acked' = acked \cup {Ack(t, w[t].ok)}

\* The steps of the leader between MakeRoomForWrite and Pop.
LEMMA LeaderSteps ==
  ASSUME TypeOK, QueueConsistent, NEW t \in Threads
  PROVE  /\ RoomSwitch(t) => Switching(t)
         /\ CloseGroup(t) => Closing(t)
         /\ AddRecord(t) => Adding(t)
         /\ SyncLog(t) => Syncing(t)
         /\ InsertInto(t) => Inserting(t)
         /\ Publish(t) => Publishing(t)
<1> USE DEF switchVars
<1>1. /\ pc \in [Threads -> Labels] /\ w \in [Threads -> WriterObjects]
      /\ log \in Seq(LogRecords) /\ DOMAIN log = 1..Len(log)
      /\ \A i \in DOMAIN log : log[i] \in LogRecords
      /\ w[t] \in WriterObjects
  BY PathTypes, Zenon
<1>2. \A x \in WriterObjects : \A m, n :
        LET y == [x EXCEPT !.first = m, !.last = n]
            z == [x EXCEPT !.ok = FALSE]
        IN  /\ FieldsKept(y, x) /\ y.first = m /\ y.last = n
            /\ z.first = x.first /\ z.last = x.last /\ ~z.ok
  BY SMTT(30) DEF WriterObjects, FieldsKept, Kept
<1>3. \A x \in WriterObjects : FieldsKept(x, x) BY Zenon DEF FieldsKept, Kept
<1>4. ASSUME NEW l, pc' = [pc EXCEPT ![t] = l]
      PROVE  pc'[t] = l /\ \A u \in Threads \ {t} : pc'[u] = pc[u]
  BY <1>1, <1>4, Zenon
<1>5. /\ w' = w => \A u \in Threads : FieldsKept(w'[u], w[u]) /\ w'[u] = w[u]
      /\ w' = [w EXCEPT ![t].ok = FALSE] =>
           /\ \A u \in Threads : FieldsKept(w'[u], w[u])
           /\ \A u \in Threads \ {t} : w'[u] = w[u]
           /\ w'[t].first = w[t].first /\ w'[t].last = w[t].last /\ ~w'[t].ok
  <2>1. w' = w => \A u \in Threads : FieldsKept(w'[u], w[u]) /\ w'[u] = w[u]
    BY <1>1, <1>3, Zenon
  <2>2. ASSUME w' = [w EXCEPT ![t].ok = FALSE]
        PROVE  /\ \A u \in Threads : FieldsKept(w'[u], w[u])
               /\ \A u \in Threads \ {t} : w'[u] = w[u]
    BY <2>2, FlagsSet, Zenon
  <2>3. ASSUME w' = [w EXCEPT ![t].ok = FALSE]
        PROVE  w'[t].first = w[t].first /\ w'[t].last = w[t].last /\ ~w'[t].ok
    <3>1. w'[t] = [w[t] EXCEPT !.ok = FALSE] BY <1>1, <2>3, Zenon
    <3> QED BY <1>1, <1>2, <3>1, Zenon
  <2> QED BY <2>1, <2>2, <2>3, Zenon
<1>6. {"room", "build", "log", "sync", "insert", "logged", "syncfail", "pop"} \subseteq Leads
  BY Zenon DEF Leads
<1>7. ASSUME RoomSwitch(t) PROVE Switching(t)
  <2>1. /\ pc' = pc /\ pc[t] = "room" /\ w' = [w EXCEPT ![t].force = FALSE]
        /\ logfile' = next_file /\ next_file' = next_file + 1 /\ mem' = {}
        /\ UNCHANGED <<log, last_seq, writers, tickets, acked>>
    BY <1>7, Zenon DEF RoomSwitch, CanSwitch, InRoom, NewLog
  <2>2. /\ \A u \in Threads : FieldsKept(w'[u], w[u])
        /\ \A u \in Threads \ {t} : w'[u] = w[u]
    BY <2>1, FlagsSet, Zenon
  <2> QED BY <1>6, <2>1, <2>2, Zenon DEF Switching, Moves
<1>8. ASSUME CloseGroup(t) PROVE Closing(t)
  <2>1. /\ pc[t] = "build" /\ pc' = [pc EXCEPT ![t] = "log"]
        /\ w' = [w EXCEPT ![t] = [w[t] EXCEPT !.first = last_seq + 1,
                                              !.last = last_seq + w[t].count]]
        /\ UNCHANGED <<log, last_seq, mem, logfile, next_file, writers, tickets, acked>>
    BY <1>8, ZenonT(30) DEF CloseGroup, Goto
  <2>2. /\ w'[t] = [w[t] EXCEPT !.first = last_seq + 1, !.last = last_seq + w[t].count]
        /\ \A u \in Threads \ {t} : w'[u] = w[u]
    BY <1>1, <2>1, ZenonT(30)
  <2>3. /\ FieldsKept(w'[t], w[t])
        /\ w'[t].first = last_seq + 1 /\ w'[t].last = last_seq + w[t].count
    BY <1>1, <1>2, <2>2, SMTT(30) DEF FieldsKept, Kept
  <2>4. \A u \in Threads : FieldsKept(w'[u], w[u]) BY <1>1, <1>3, <2>2, <2>3, Zenon
  <2>5. pc'[t] = "log" /\ \A u \in Threads \ {t} : pc'[u] = pc[u] BY <1>4, <2>1, Zenon
  <2>6. Moves(t) BY <1>6, <2>1, <2>2, <2>4, <2>5, ZenonT(60) DEF Moves
  <2> QED BY <2>1, <2>3, <2>5, <2>6, ZenonT(60) DEF Closing
<1>9. ASSUME AddRecord(t) PROVE Adding(t)
  <2>1. /\ pc[t] = "log"
        /\ UNCHANGED <<last_seq, mem, logfile, next_file, writers, tickets, acked>>
    BY <1>9, Zenon DEF AddRecord
  <2>2. \/ /\ log' = Append(log, LogRecord(t)) /\ w' = w
           /\ \/ pc' = [pc EXCEPT ![t] = "sync"]
              \/ pc' = [pc EXCEPT ![t] = "insert"] /\ ~w[t].sync
        \/ /\ EnvErrors /\ w' = [w EXCEPT ![t].ok = FALSE] /\ pc' = [pc EXCEPT ![t] = "logged"]
           /\ log' = log \/ log' = Append(log, LogRecord(t))
    BY <1>9, Zenon DEF AddRecord, Goto
  <2> QED BY <1>4, <1>5, <1>6, <2>1, <2>2, ZenonT(30) DEF Adding, Moves
<1>10. ASSUME SyncLog(t) PROVE Syncing(t)
  <2>1. /\ pc[t] = "sync"
        /\ UNCHANGED <<last_seq, mem, logfile, next_file, writers, tickets, acked>>
    BY <1>10, Zenon DEF SyncLog
  <2>2. CASE /\ log' = [i \in DOMAIN log |->
                          [log[i] EXCEPT !.synced = @ \/ log[i].file = logfile]]
             /\ w' = w /\ pc' = [pc EXCEPT ![t] = "insert"]
    <3>1. \A r \in LogRecords : \A b :
            LET q == [r EXCEPT !.synced = b]
            IN  /\ q.file = r.file /\ q.tickets = r.tickets /\ q.first = r.first
                /\ q.last = r.last /\ q.synced = b
      BY Zenon DEF LogRecords
    <3>2. \A i \in DOMAIN log :
            log'[i] = [log[i] EXCEPT !.synced = log[i].synced \/ log[i].file = logfile]
      BY <2>2, Zenon
    <3>3. \A i \in DOMAIN log :
            /\ log'[i].file = log[i].file /\ log'[i].tickets = log[i].tickets
            /\ log'[i].first = log[i].first /\ log'[i].last = log[i].last
            /\ log[i].synced => log'[i].synced
            /\ log[i].file = logfile => log'[i].synced
      <4> SUFFICES ASSUME NEW i \in DOMAIN log
                   PROVE  /\ log'[i].file = log[i].file /\ log'[i].tickets = log[i].tickets
                          /\ log'[i].first = log[i].first /\ log'[i].last = log[i].last
                          /\ log[i].synced => log'[i].synced
                          /\ log[i].file = logfile => log'[i].synced
        OBVIOUS
      <4> DEFINE b == log[i].synced \/ log[i].file = logfile
      <4>1. log'[i] = [log[i] EXCEPT !.synced = b] /\ log[i] \in LogRecords
        BY <1>1, <3>2, Zenon
      <4>2. (log[i].synced => b) /\ (log[i].file = logfile => b) BY Zenon
      <4> HIDE DEF b
      <4>3. /\ log'[i].file = log[i].file /\ log'[i].tickets = log[i].tickets
            /\ log'[i].first = log[i].first /\ log'[i].last = log[i].last
            /\ log'[i].synced = b
        BY <3>1, <4>1, SMT
      <4> QED BY <4>2, <4>3, Zenon
    <3>4. DOMAIN log' = DOMAIN log BY <2>2, Zenon
    <3>5. Len(log') = Len(log) BY <1>1, <2>2, SMTT(30)
    <3>6. pc'[t] = "insert" /\ \A u \in Threads \ {t} : pc'[u] = pc[u] BY <1>4, <2>2, Zenon
    <3>7. /\ \A u \in Threads : FieldsKept(w'[u], w[u]) /\ w'[u] = w[u]
          /\ w'[t].first = w[t].first /\ w'[t].last = w[t].last
      BY <1>5, <2>2, Zenon
    <3>8. Moves(t) BY <1>6, <2>1, <3>6, <3>7, ZenonT(60) DEF Moves
    <3> QED BY <2>1, <3>3, <3>4, <3>5, <3>6, <3>7, <3>8, ZenonT(60) DEF Syncing
  <2>3. CASE /\ EnvErrors /\ w' = [w EXCEPT ![t].ok = FALSE]
             /\ pc' = [pc EXCEPT ![t] = "syncfail"] /\ log' = log
    BY <1>4, <1>5, <1>6, <2>1, <2>3, ZenonT(30) DEF Syncing, Moves
  <2> QED BY <1>10, <2>2, <2>3, Zenon DEF SyncLog, Goto
<1>11. ASSUME InsertInto(t) PROVE Inserting(t)
  <2>1. /\ pc[t] = "insert" /\ pc' = [pc EXCEPT ![t] = "logged"] /\ w' = w
        /\ mem' = mem \cup GroupTickets(t)
        /\ UNCHANGED <<log, last_seq, logfile, next_file, writers, tickets, acked>>
    BY <1>11, Zenon DEF InsertInto, Goto
  <2> QED BY <1>4, <1>5, <1>6, <2>1, Zenon DEF Inserting, Moves
<1>12. ASSUME Publish(t) PROVE Publishing(t)
  <2>1. /\ pc[t] \in {"logged", "syncfail"} /\ pc' = [pc EXCEPT ![t] = "pop"] /\ w' = w
        /\ last_seq' = w[t].last
        /\ UNCHANGED <<log, mem, logfile, next_file, writers, tickets, acked>>
    BY <1>12, Zenon DEF Publish, Goto, Published
  <2> QED BY <1>4, <1>5, <1>6, <2>1, Zenon DEF Publishing, Moves
<1> QED BY <1>7, <1>8, <1>9, <1>10, <1>11, <1>12, Zenon

\* The steps that change the queue, and ReturnDone.
LEMMA QueueSteps ==
  ASSUME TypeOK, QueueConsistent, NEW t \in Threads
  PROVE  /\ BeginWrite(t) \/ BeginCompactRange(t) => Entering(t)
         /\ ReturnDone(t) => Leaving(t)
         /\ Pop(t) => Popping(t)
<1> USE DEF switchVars
<1>1. /\ pc \in [Threads -> Labels] /\ w \in [Threads -> WriterObjects]
      /\ writers \in Seq(Threads) /\ \A i \in 1..Len(writers) : writers[i] \in Threads
      /\ Len(writers) \in Nat
  BY PathTypes, Zenon
<1>2. ASSUME BeginWrite(t) \/ BeginCompactRange(t) PROVE Entering(t)
  <2>1. PICK b \in Batches \cup {NullBatch}, sync \in BOOLEAN : Enter(t, b, sync)
    BY <1>2, Zenon DEF BeginWrite, BeginCompactRange
  <2>2. /\ w'[t].ticket = tickets + 1 /\ ~w'[t].done
        /\ \A u \in Threads \ {t} : w'[u] = w[u] /\ pc'[u] = pc[u]
        /\ pc'[t] = "check" /\ pc[t] = "idle"
    BY <2>1, <1>1, Zenon DEF Enter, Goto, Idle
  <2>3. \A i \in 1..Len(writers) : writers[i] # t
    BY <2>2, Zenon DEF QueueConsistent, Queued, Leads
  <2>4. /\ UNCHANGED <<log, last_seq, mem, logfile, next_file, acked>>
        /\ tickets' = tickets + 1 /\ writers' = Append(writers, t)
    BY <2>1, Zenon DEF Enter
  <2> QED BY <2>2, <2>3, <2>4, Zenon DEF Entering
<1>3. ASSUME ReturnDone(t) PROVE Leaving(t)
  <2>1. /\ UNCHANGED <<log, last_seq, mem, logfile, next_file, writers, tickets>>
        /\ pc[t] = "check" /\ w[t].done /\ acked' = acked \cup {Ack(t, w[t].ok)}
    BY <1>3, Zenon DEF ReturnDone
  <2>2. \A i \in 1..Len(writers) : writers[i] # t BY <2>1, Zenon DEF QueueConsistent
  <2>3. /\ \A u \in Threads \ {t} : w'[u] = w[u] /\ pc'[u] = pc[u]
        /\ pc'[t] \in {"idle", "memlock", "manlock"}
    BY <1>1, <1>3, Zenon DEF ReturnDone, Goto, ReturnLabel
  <2> QED BY <2>1, <2>2, <2>3, Zenon DEF Leaving
<1>4. ASSUME Pop(t) PROVE Popping(t)
  <2> DEFINE g == w[t].group
  <2>1. /\ UNCHANGED <<log, last_seq, mem, logfile, next_file, tickets>>
        /\ pc[t] = "pop" /\ acked' = acked \cup {Ack(t, w[t].ok)}
        /\ writers' = SubSeq(writers, g + 1, Len(writers))
    BY <1>4, ZenonT(30) DEF Pop
  <2>2. g \in 1..Len(writers) /\ writers[1] = t BY <2>1, Leadership, Zenon DEF Leads
  <2> HIDE DEF g
  <2>3. /\ Len(writers') = Len(writers) - g
        /\ \A k \in 1..Len(writers') : writers'[k] = writers[k + g]
    BY <1>1, <2>1, <2>2, DropPrefix, Zenon
  <2>4. pc'[t] \in {"idle", "memlock", "manlock"} /\ \A u \in Threads \ {t} : pc'[u] = pc[u]
    BY <1>4, <1>1, ZenonT(30) DEF Pop, Goto, ReturnLabel
  <2>5. \A k \in 1..Len(writers') : k + g \in 1..Len(writers) /\ k + g # 1 /\ k + g \notin 2..g
    BY <1>1, <2>2, <2>3, SMTT(30)
  <2>6. Followers(t) = {writers[i] : i \in 2..g} BY Zenon DEF Followers, g
  <2>7. \A k \in 1..Len(writers') : writers'[k] \in Threads \ {t} /\ writers'[k] \notin Followers(t)
    <3> SUFFICES ASSUME NEW k \in 1..Len(writers')
                 PROVE  writers'[k] \in Threads \ {t} /\ writers'[k] \notin Followers(t)
      OBVIOUS
    <3>1. \A j \in 1..Len(writers) : writers[k + g] = writers[j] => k + g = j
      BY <2>5, Zenon DEF QueueConsistent
    <3>2. 1 \in 1..Len(writers) /\ \A j \in 2..g : j \in 1..Len(writers) BY <1>1, <2>2, SMTT(30)
    <3>3. writers[k + g] # t BY <3>1, <3>2, <2>2, <2>5, Zenon
    <3>4. writers[k + g] \notin Followers(t) BY <3>1, <3>2, <2>5, <2>6, Zenon
    <3> QED BY <1>1, <2>3, <2>5, <3>3, <3>4, Zenon
  <2>8. \A u \in Threads \ {t} : u \notin Followers(t) => w'[u] = w[u]
    BY <1>4, ZenonT(30) DEF Pop
  <2>9. ASSUME NEW u \in Threads \ {t}, u \in Followers(t)
        PROVE  /\ \E k \in 2..g : writers[k] = u
               /\ w'[u].ticket = w[u].ticket /\ w'[u].batch = w[u].batch
               /\ w'[u].sync = w[u].sync /\ w'[u].ok = w[t].ok
    <3>1. w'[u] = [w[u] EXCEPT !.done = TRUE, !.ok = w[t].ok]
      BY <1>4, <2>9, ZenonT(30) DEF Pop
    <3>2. w[u] \in WriterObjects BY <1>1, Zenon
    <3>3. /\ w'[u].ticket = w[u].ticket /\ w'[u].batch = w[u].batch
          /\ w'[u].sync = w[u].sync /\ w'[u].ok = w[t].ok
      BY <3>1, <3>2, Zenon DEF WriterObjects
    <3> QED BY <2>6, <2>9, <3>3, Zenon
  <2>10. \A k \in 1..Len(writers') :
           /\ k + g \in 1..Len(writers)
           /\ writers'[k] = writers[k + g] /\ w'[writers'[k]] = w[writers'[k]]
    BY <2>3, <2>5, <2>7, <2>8, ZenonT(60)
  <2>11. \A u \in Threads \ {t} :
           /\ pc'[u] = pc[u]
           /\ \/ w'[u] = w[u]
              \/ /\ \E k \in 2..g : writers[k] = u
                 /\ w'[u].ticket = w[u].ticket /\ w'[u].batch = w[u].batch
                 /\ w'[u].sync = w[u].sync /\ w'[u].ok = w[t].ok
    BY <2>4, <2>8, <2>9, ZenonT(60)
  <2> QED BY <2>1, <2>2, <2>3, <2>4, <2>10, <2>11, ZenonT(60) DEF Popping, g
<1> QED BY <1>2, <1>3, <1>4, Zenon

\* A step that is not quiet, by what it does.
LogStep(t) ==
  \/ Entering(t) \/ Leaving(t) \/ Switching(t) \/ Closing(t) \/ Adding(t)
  \/ Syncing(t) \/ Inserting(t) \/ Publishing(t) \/ Popping(t)

\* Every step of the system is quiet or one of those.
LEMMA LogSteps ==
  TypeOK /\ QueueConsistent /\ [Next]_vars => Quiet \/ \E t \in Threads : LogStep(t)
<1> SUFFICES ASSUME TypeOK, QueueConsistent, [Next]_vars
             PROVE  Quiet \/ \E t \in Threads : LogStep(t)
  OBVIOUS
<1>1. CASE BackgroundStep \/ UpdateStats \/ Destroy \/ UNCHANGED vars BY <1>1, BackgroundQuiet, Zenon
<1>2. ASSUME NEW t \in Threads, BeginWrite(t) \/ BeginCompactRange(t) PROVE LogStep(t)
  BY <1>2, QueueSteps, Zenon DEF LogStep
<1>3. ASSUME NEW t \in Threads, ClientStep(t) PROVE Quiet \/ LogStep(t)
  BY <1>3, ClientQuiet, QueueSteps, LeaderSteps, ZenonT(30) DEF ClientStep, LogStep
<1> QED BY <1>1, <1>2, <1>3, ZenonT(30) DEF Next, Closed

\* While a thread leads nobody else does.
LEMMA SoleLeader ==
  ASSUME TypeOK, QueueConsistent, NEW t \in Threads, pc[t] \in Leads
  PROVE  \A u \in Threads \ {t} : pc[u] \notin Leads
BY OneLeader, Zenon

\* The labels of the leader inside the log.
LEMMA LogLabels ==
  /\ Logging \cup {"pop"} \subseteq Leads /\ Appended \subseteq Logging
  /\ {"sync", "insert", "logged", "syncfail"} = Appended
  /\ {"room", "build", "log", "check", "cv", "idle", "memlock", "manlock"}
       \cap (Appended \cup {"pop"}) = {}
  /\ {"room", "build", "pop", "check", "cv", "idle", "memlock", "manlock"} \cap Logging = {}
  /\ {"check", "cv", "idle", "memlock", "manlock"} \cap Leads = {}
  /\ "log" \in Logging
BY Zenon DEF Logging, Appended, Leads

\* A leader's group brings the same tickets after every step but its own quiet ones
\* and Pop.
LEMMA GroupStays ==
  ASSUME TypeOK, QueueConsistent, NEW t \in Threads
  PROVE  /\ Quiet => \A u \in Threads :
              pc[u] \in Logging \cup {"pop"} => GroupTickets(u)' = GroupTickets(u)
         /\ Entering(t) \/ Leaving(t) \/ Moves(t) => \A u \in Threads :
              pc[u] \in Leads => GroupTickets(u)' = GroupTickets(u)
<1>1. \A i \in 1..Len(writers) : writers[i] \in Threads BY PathTypes, Zenon
<1>2. ASSUME Quiet, NEW u \in Threads, pc[u] \in Logging \cup {"pop"}
      PROVE  GroupTickets(u)' = GroupTickets(u)
  <2>1. pc[u] \in Leads BY <1>2, LogLabels, Zenon
  <2>2. w[u].group \in 1..Len(writers) BY <2>1, Leadership, Zenon
  <2>3. w'[u] = w[u] /\ writers' = writers BY <1>2, Zenon DEF Quiet
  <2>4. \A i \in 1..Len(writers) : /\ w'[writers[i]].ticket = w[writers[i]].ticket
                                   /\ w'[writers[i]].batch = w[writers[i]].batch
    BY <1>1, <1>2, Zenon DEF Quiet
  <2>5. \A i \in 1..w[u].group : i \in 1..Len(writers) BY <2>2, PathTypes, SMTT(30)
  <2> QED BY <2>3, <2>4, <2>5, ZenonT(30) DEF GroupTickets
<1>3. ASSUME Entering(t) \/ Leaving(t) \/ Moves(t), NEW u \in Threads, pc[u] \in Leads
      PROVE  GroupTickets(u)' = GroupTickets(u)
  <2>1. \A i \in 1..Len(writers) : Kept(w'[writers[i]], w[writers[i]])
    BY <1>1, <1>3, ZenonT(30) DEF Entering, Leaving, Moves, FieldsKept, Kept
  <2>2. writers' = writers \/ writers' = Append(writers, t)
    BY <1>3, Zenon DEF Entering, Leaving, Moves
  <2> QED BY <1>3, <2>1, <2>2, GroupKept, Zenon
<1> QED BY <1>2, <1>3, Zenon

-----------------------------------------------------------------------------
(* The queue and the numbers.                                              *)

\* The queue stays in the order of its tickets.
LEMMA OrderStep ==
  ASSUME TypeOK, QueueConsistent, QueueInOrder, [Next]_vars
  PROVE  QueueInOrder'
<1>1. /\ writers \in Seq(Threads) /\ Len(writers) \in Nat /\ tickets \in Nat
      /\ \A i \in 1..Len(writers) : writers[i] \in Threads
  BY PathTypes, Zenon
<1>2. \A i \in 1..Len(writers) : w[writers[i]].ticket \in Int
  BY <1>1, PathTypes, FieldTypes, Zenon
<1>0. ASSUME writers' = writers, tickets' = tickets,
             \A i \in 1..Len(writers) : w'[writers[i]].ticket = w[writers[i]].ticket
      PROVE  QueueInOrder'
  BY <1>0, Zenon DEF QueueInOrder
<1>3. CASE Quiet BY <1>0, <1>1, <1>3, Zenon DEF Quiet
<1>4. ASSUME NEW t \in Threads, Moves(t) PROVE QueueInOrder'
  BY <1>0, <1>1, <1>4, Zenon DEF Moves, FieldsKept, Kept
<1>5. ASSUME NEW t \in Threads, Leaving(t) PROVE QueueInOrder'
  <2>1. \A i \in 1..Len(writers) : w'[writers[i]] = w[writers[i]]
    BY <1>1, <1>5, Zenon DEF Leaving
  <2> QED BY <1>5, <2>1, SMTT(60) DEF Leaving, QueueInOrder
<1>6. ASSUME NEW t \in Threads, Entering(t) PROVE QueueInOrder'
  <2>1. /\ Len(writers') = Len(writers) + 1 /\ writers'[Len(writers) + 1] = t
        /\ \A i \in 1..Len(writers) : writers'[i] = writers[i]
    BY <1>1, <1>6 DEF Entering
  <2>2. \A i \in 1..Len(writers) : w'[writers'[i]] = w[writers[i]]
    BY <1>1, <1>6, <2>1, Zenon DEF Entering
  <2>3. w'[writers'[Len(writers) + 1]].ticket = tickets + 1 /\ tickets' = tickets + 1
    BY <1>6, <2>1, Zenon DEF Entering
  <2> QED BY <1>1, <1>2, <2>1, <2>2, <2>3, SMTT(60) DEF QueueInOrder
<1>7. ASSUME NEW t \in Threads, Popping(t) PROVE QueueInOrder'
  <2> DEFINE g == w[t].group
  <2>1. g \in Nat BY <1>7 DEF Popping
  <2>2. /\ tickets' = tickets /\ Len(writers') \in Nat
        /\ \A k \in 1..Len(writers') :
             k + g \in 1..Len(writers) /\ w'[writers'[k]] = w[writers[k + g]]
    BY <1>1, <1>7, SMTT(60) DEF Popping
  <2> HIDE DEF g
  <2>3. ASSUME NEW k \in 1..Len(writers') PROVE w'[writers'[k]].ticket <= tickets'
    BY <2>2, <2>3, Zenon DEF QueueInOrder
  <2>4. ASSUME NEW k \in 1..Len(writers'), NEW j \in 1..Len(writers'), k < j
        PROVE  w'[writers'[k]].ticket < w'[writers'[j]].ticket
    <3>1. k + g < j + g BY <2>1, <2>2, <2>4
    <3> QED BY <2>2, <3>1, Zenon DEF QueueInOrder
  <2> QED BY <2>3, <2>4, Zenon DEF QueueInOrder
<1> QED BY <1>3, <1>4, <1>5, <1>6, <1>7, LogSteps, Zenon
        DEF LogStep, Switching, Closing, Adding, Syncing, Inserting, Publishing

\* The leader's numbers stay reserved.
LEMMA NumbersStep ==
  ASSUME TypeOK, QueueConsistent, NumbersReserved, [Next]_vars
  PROVE  NumbersReserved'
<1>1. /\ w \in [Threads -> WriterObjects] /\ last_seq \in Nat
      /\ log \in Seq(LogRecords) /\ DOMAIN log = 1..Len(log) /\ Len(log) \in Nat
      /\ \A i \in DOMAIN log : log[i].last \in Nat
      /\ \A u \in Threads : w[u].last \in Nat /\ w[u].count \in Nat
  <2>1. \A i \in DOMAIN log : log[i].last \in Nat BY PathTypes, FieldTypes, Zenon
  <2>2. \A u \in Threads : w[u].last \in Nat /\ w[u].count \in Nat
    BY PathTypes, FieldTypes, Zenon
  <2> QED BY PathTypes, <2>1, <2>2, Zenon
<1>2. CASE Quiet
  <2>1. \A u \in Threads : pc'[u] \in Logging => pc[u] \in Logging /\ w'[u] = w[u]
    BY <1>2, Zenon DEF Quiet
  <2>2. \A u \in Threads : pc[u] \in Appended => pc'[u] \in Appended /\ w'[u] = w[u]
    BY <1>2, LogLabels, Zenon DEF Quiet
  <2>3. UNCHANGED <<log, last_seq>> BY <1>2, Zenon DEF Quiet
  <2> QED BY <2>1, <2>2, <2>3, ZenonT(30) DEF NumbersReserved
<1>3. ASSUME NEW t \in Threads, Entering(t) \/ Leaving(t) \/ Switching(t) PROVE NumbersReserved'
  <2>1. /\ UNCHANGED <<log, last_seq>>
        /\ pc[t] \notin Logging /\ pc'[t] \notin Logging
        /\ \A u \in Threads \ {t} : w'[u] = w[u] /\ pc'[u] = pc[u]
    BY <1>3, LogLabels, ZenonT(30) DEF Entering, Leaving, Switching, Moves
  <2>2. \A u \in Threads : pc'[u] \in Logging => pc[u] \in Logging /\ w'[u] = w[u]
    BY <2>1, Zenon
  <2>3. \A u \in Threads : pc[u] \in Appended => pc'[u] \in Appended /\ w'[u] = w[u]
    BY <2>1, LogLabels, Zenon
  <2> QED BY <2>1, <2>2, <2>3, ZenonT(30) DEF NumbersReserved
<1>4. ASSUME NEW t \in Threads, Moves(t)
      PROVE  \A u \in Threads \ {t} : pc[u] \notin Leads /\ pc'[u] \notin Leads
  BY <1>4, SoleLeader, Zenon DEF Moves
<1>5. ASSUME NEW t \in Threads, Closing(t) PROVE NumbersReserved'
  <2>1. /\ pc'[t] = "log" /\ w'[t].first = last_seq + 1 /\ w'[t].last = last_seq + w[t].count
        /\ pc[t] = "build" /\ UNCHANGED <<log, last_seq>>
        /\ \A u \in Threads \ {t} : pc[u] \notin Leads /\ pc'[u] \notin Leads
    BY <1>4, <1>5, Zenon DEF Closing
  <2>2. w'[t].last >= last_seq BY <1>1, <2>1
  <2>3. \A u \in Threads : pc[u] \notin Appended BY <2>1, LogLabels, Zenon
  <2>4. \A u \in Threads : pc'[u] \in Logging => u = t BY <2>1, LogLabels, Zenon
  <2> QED BY <2>1, <2>2, <2>3, <2>4, ZenonT(30) DEF NumbersReserved
<1>6. ASSUME NEW t \in Threads, Adding(t) PROVE NumbersReserved'
  <2>1. /\ pc[t] = "log" /\ w'[t].first = w[t].first /\ w'[t].last = w[t].last
        /\ last_seq' = last_seq /\ pc'[t] \in Appended
        /\ log' = log \/ log' = Append(log, LogRecord(t))
        /\ \A u \in Threads \ {t} : pc[u] \notin Leads /\ pc'[u] \notin Leads
    BY <1>4, <1>6, Zenon DEF Adding, Appended
  <2>2. \A u \in Threads : pc[u] \notin Appended BY <2>1, LogLabels, Zenon
  <2>3. \A i \in DOMAIN log : log[i].last <= last_seq BY <2>2, Zenon DEF NumbersReserved
  <2>4. \A u \in Threads : pc'[u] \in Logging => u = t BY <2>1, LogLabels, Zenon
  <2>5. w[t].first = last_seq + 1 /\ w[t].last >= last_seq
    BY <2>1, LogLabels, Zenon DEF NumbersReserved
  <2>6. LogRecord(t).last = w[t].last BY Zenon DEF LogRecord
  <2>7. \A i \in DOMAIN log' : log'[i].last <= last_seq \/ log'[i].last <= w[t].last
    <3>1. CASE log' = log BY <2>3, <3>1, Zenon
    <3>2. CASE log' = Append(log, LogRecord(t))
      <4>1. /\ DOMAIN log' = 1..(Len(log) + 1) /\ log'[Len(log) + 1] = LogRecord(t)
            /\ \A i \in DOMAIN log : log'[i] = log[i]
        BY <1>1, <3>2
      <4>2. \A i \in DOMAIN log' : i \in DOMAIN log \/ i = Len(log) + 1 BY <1>1, <4>1
      <4>3. w[t].last <= w[t].last BY <1>1
      <4> QED BY <2>3, <2>6, <4>1, <4>2, <4>3, Zenon
    <3> QED BY <2>1, <3>1, <3>2, Zenon
  <2> QED BY <2>1, <2>4, <2>5, <2>7, ZenonT(30) DEF NumbersReserved
<1>7. ASSUME NEW t \in Threads, Syncing(t) \/ Inserting(t) PROVE NumbersReserved'
  <2>1. /\ pc[t] \in Appended /\ pc'[t] \in Appended
        /\ w'[t].first = w[t].first /\ w'[t].last = w[t].last
        /\ last_seq' = last_seq /\ DOMAIN log' = DOMAIN log
        /\ \A i \in DOMAIN log : log'[i].last = log[i].last
    BY <1>7, ZenonT(30) DEF Syncing, Inserting, Appended
  <2>2. \A u \in Threads \ {t} : pc[u] \notin Leads /\ pc'[u] \notin Leads
    BY <1>4, <1>7, Zenon DEF Syncing, Inserting
  <2>3. \A u \in Threads : (pc[u] \in Appended => u = t) /\ (pc'[u] \in Logging => u = t)
    BY <2>2, LogLabels, Zenon
  <2> QED BY <2>1, <2>3, LogLabels, ZenonT(30) DEF NumbersReserved
<1>8. ASSUME NEW t \in Threads, Publishing(t) PROVE NumbersReserved'
  <2>1. /\ pc[t] \in Logging /\ pc'[t] = "pop" /\ last_seq' = w[t].last /\ log' = log
        /\ \A u \in Threads \ {t} : pc[u] \notin Leads /\ pc'[u] \notin Leads
    BY <1>4, <1>8, LogLabels, Zenon DEF Publishing, Logging, Appended
  <2>2. \A u \in Threads : (pc[u] \in Appended => u = t) /\ pc'[u] \notin Logging
    BY <2>1, LogLabels, Zenon
  <2>3. w[t].last >= last_seq BY <2>1, Zenon DEF NumbersReserved
  <2>4. \A i \in DOMAIN log : log[i].last <= last_seq \/ log[i].last <= w[t].last
    BY <2>2, Zenon DEF NumbersReserved
  <2>5. \A i \in DOMAIN log : log[i].last <= w[t].last BY <1>1, <2>3, <2>4
  <2> QED BY <2>1, <2>2, <2>5, ZenonT(30) DEF NumbersReserved
<1>9. ASSUME NEW t \in Threads, Popping(t) PROVE NumbersReserved'
  <2>1. /\ pc[t] = "pop" /\ pc'[t] \in {"idle", "memlock", "manlock"}
        /\ UNCHANGED <<log, last_seq>> /\ \A u \in Threads \ {t} : pc'[u] = pc[u]
    BY <1>9, Zenon DEF Popping
  <2>2. \A u \in Threads \ {t} : pc[u] \notin Leads BY <2>1, LogLabels, SoleLeader, Zenon
  <2>3. \A u \in Threads : pc[u] \notin Appended /\ pc'[u] \notin Logging
    BY <2>1, <2>2, LogLabels, ZenonT(30)
  <2> QED BY <2>1, <2>3, ZenonT(30) DEF NumbersReserved
<1> QED BY <1>2, <1>3, <1>5, <1>6, <1>7, <1>8, <1>9, LogSteps, Zenon DEF LogStep

\* A group's tickets are those of its members, in the order of the queue.
LEMMA GroupMembers ==
  ASSUME TypeOK, QueueConsistent, NEW t \in Threads, pc[t] \in Leads
  PROVE  \A a \in GroupTickets(t) :
           \E k \in 1..Len(writers) : k <= w[t].group /\ a = w[writers[k]].ticket
<1>1. w[t].group \in 1..Len(writers) /\ Len(writers) \in Nat BY Leadership, PathTypes, Zenon
<1>2. \A k \in 1..w[t].group : k \in 1..Len(writers) /\ k <= w[t].group BY <1>1
<1> QED BY <1>2, Zenon DEF GroupTickets

\* Nothing the leader may log again has been logged, and the new record comes after
\* everything that was.
LEMMA FreshGroup ==
  ASSUME TypeOK, QueueConsistent, NumbersReserved, LoggedBeforeQueued,
         NEW t \in Threads, pc[t] = "log"
  PROVE  \A i \in DOMAIN log :
           /\ log[i].last < w[t].first
           /\ \A a \in log[i].tickets, b \in GroupTickets(t) : a < b
<1>1. pc[t] \in Leads BY Zenon DEF Leads
<1>2. \A u \in Threads : pc[u] \notin Appended \cup {"pop"}
  BY <1>1, SoleLeader, LogLabels, Zenon
<1>3. \A i \in DOMAIN log : log[i].last <= last_seq BY <1>2, Zenon DEF NumbersReserved
<1>4. w[t].first = last_seq + 1 BY LogLabels, Zenon DEF NumbersReserved
<1>5. last_seq \in Nat /\ \A i \in DOMAIN log : log[i].last \in Nat
  BY PathTypes, FieldTypes, Zenon
<1>6. \A i \in DOMAIN log : log[i].last < w[t].first BY <1>3, <1>4, <1>5
<1>7. \A i \in DOMAIN log : \A a \in log[i].tickets, k \in 1..Len(writers) :
        a < w[writers[k]].ticket
  BY <1>2, Zenon DEF LoggedBeforeQueued
<1>8. \A i \in DOMAIN log : \A a \in log[i].tickets, b \in GroupTickets(t) : a < b
  BY <1>1, <1>7, GroupMembers, Zenon
<1> QED BY <1>6, <1>8, Zenon

\* What was logged stays before what is queued.
LEMMA LoggedStep ==
  ASSUME TypeOK, QueueConsistent, QueueInOrder, NumbersReserved, LoggedBeforeQueued,
         [Next]_vars
  PROVE  LoggedBeforeQueued'
<1> DEFINE Exempt(k) == \E u \in Threads : pc[u] \in Appended \cup {"pop"} /\ k <= w[u].group
<1>1. /\ writers \in Seq(Threads) /\ Len(writers) \in Nat /\ tickets \in Nat
      /\ \A i \in 1..Len(writers) : writers[i] \in Threads
      /\ log \in Seq(LogRecords) /\ DOMAIN log = 1..Len(log) /\ Len(log) \in Nat
  BY PathTypes, Zenon
<1>2. \A i \in 1..Len(writers) : w[writers[i]].ticket \in Int
  BY <1>1, PathTypes, FieldTypes, Zenon
<1>3. \A i \in DOMAIN log : \A a \in log[i].tickets : a \in Int
  <2>1. Tickets \subseteq Int BY BoundAssumption DEF Tickets
  <2> QED BY <2>1, PathTypes, FieldTypes, Zenon
<1>4. CASE Quiet
  <2>1. \A k \in 1..Len(writers) : Exempt(k) => Exempt(k)'
    BY <1>4, LogLabels, ZenonT(30) DEF Quiet
  <2>2. /\ UNCHANGED <<log, tickets, writers>>
        /\ \A k \in 1..Len(writers) : w'[writers[k]].ticket = w[writers[k]].ticket
    BY <1>1, <1>4, Zenon DEF Quiet
  <2> QED BY <2>1, <2>2, ZenonT(30) DEF LoggedBeforeQueued
<1>5. ASSUME NEW t \in Threads, Entering(t) PROVE LoggedBeforeQueued'
  <2>1. \A k \in 1..Len(writers) : Exempt(k) => Exempt(k)'
    BY <1>5, LogLabels, ZenonT(30) DEF Entering
  <2>2. /\ Len(writers') = Len(writers) + 1 /\ writers'[Len(writers) + 1] = t
        /\ \A k \in 1..Len(writers) : writers'[k] = writers[k]
    BY <1>1, <1>5 DEF Entering
  <2>3. \A k \in 1..Len(writers) : w'[writers'[k]] = w[writers[k]]
    BY <1>1, <1>5, <2>2, Zenon DEF Entering
  <2>4. /\ log' = log /\ tickets' = tickets + 1
        /\ w'[writers'[Len(writers) + 1]].ticket = tickets + 1
    BY <1>5, <2>2, Zenon DEF Entering
  <2> HIDE DEF Exempt
  <2>5. \A k \in 1..Len(writers') : k \in 1..Len(writers) \/ k = Len(writers) + 1
    BY <1>1, <2>2
  <2>6. ASSUME NEW i \in DOMAIN log, NEW a \in log[i].tickets
        PROVE  /\ a <= tickets + 1 /\ a < tickets + 1
               /\ \A k \in 1..Len(writers) : a < w[writers[k]].ticket \/ Exempt(k)
    <3>1. a <= tickets BY <2>6, Zenon DEF LoggedBeforeQueued
    <3>2. \A k \in 1..Len(writers) : a < w[writers[k]].ticket \/ Exempt(k)
      BY <2>6, Zenon DEF LoggedBeforeQueued, Exempt
    <3>3. a \in Int BY <1>3, <2>6, Zenon
    <3> QED BY <1>1, <3>1, <3>2, <3>3
  <2>7. ASSUME NEW i \in DOMAIN log, NEW a \in log[i].tickets, NEW k \in 1..Len(writers')
        PROVE  a < w'[writers'[k]].ticket \/ Exempt(k)'
    BY <2>1, <2>3, <2>4, <2>5, <2>6, <2>7, Zenon
  <2> QED BY <2>4, <2>6, <2>7, ZenonT(30) DEF LoggedBeforeQueued, Exempt
<1>6. ASSUME NEW t \in Threads, Leaving(t) \/ Switching(t) \/ Closing(t) PROVE LoggedBeforeQueued'
  <2>1. /\ pc[t] \notin Appended \cup {"pop"} /\ UNCHANGED <<log, tickets, writers>>
        /\ \A u \in Threads \ {t} : w'[u] = w[u] /\ pc'[u] = pc[u]
    BY <1>6, LogLabels, ZenonT(30) DEF Leaving, Switching, Closing, Moves
  <2>2. \A k \in 1..Len(writers) : Exempt(k) => Exempt(k)' BY <2>1, ZenonT(30)
  <2>3. \A k \in 1..Len(writers) : w'[writers[k]].ticket = w[writers[k]].ticket
    BY <1>1, <1>6, ZenonT(30) DEF Leaving, Switching, Closing, Moves, FieldsKept, Kept
  <2> QED BY <2>1, <2>2, <2>3, ZenonT(30) DEF LoggedBeforeQueued
<1>7. ASSUME NEW t \in Threads, Adding(t) PROVE LoggedBeforeQueued'
  <2>1. /\ pc[t] = "log" /\ pc[t] \in Leads /\ pc'[t] \in Appended
        /\ UNCHANGED <<tickets, writers>> /\ w'[t].group = w[t].group
        /\ log' = log \/ log' = Append(log, LogRecord(t))
    BY <1>7, ZenonT(30) DEF Adding, Moves, FieldsKept, Kept, Appended
  <2>2. \A k \in 1..Len(writers) : w'[writers[k]].ticket = w[writers[k]].ticket
    BY <1>1, <1>7, ZenonT(30) DEF Adding, Moves, FieldsKept, Kept
  <2>3. \A u \in Threads : pc[u] \notin Appended \cup {"pop"}
    BY <2>1, SoleLeader, LogLabels, Zenon
  <2>4. \A i \in DOMAIN log : \A a \in log[i].tickets :
          a <= tickets /\ \A k \in 1..Len(writers) : a < w[writers[k]].ticket
    BY <2>3, Zenon DEF LoggedBeforeQueued
  <2>5. ASSUME NEW a \in GroupTickets(t)
        PROVE  /\ a <= tickets
               /\ \A k \in 1..Len(writers) : a < w[writers[k]].ticket \/ k <= w[t].group
    <3>1. PICK j \in 1..Len(writers) : j <= w[t].group /\ a = w[writers[j]].ticket
      BY <2>1, GroupMembers, Zenon
    <3>2. \A k \in 1..Len(writers) : j < k => a < w[writers[k]].ticket
      BY <3>1, Zenon DEF QueueInOrder
    <3>3. w[t].group \in Nat BY PathTypes, FieldTypes, Zenon
    <3>4. \A k \in 1..Len(writers) : j < k \/ k <= w[t].group BY <1>1, <3>1, <3>3
    <3>5. a <= tickets BY <3>1, Zenon DEF QueueInOrder
    <3> QED BY <3>2, <3>4, <3>5, Zenon
  <2>6. LogRecord(t).tickets = GroupTickets(t) BY Zenon DEF LogRecord
  <2>7. \A i \in DOMAIN log' :
          (i \in DOMAIN log /\ log'[i] = log[i]) \/ log'[i].tickets = GroupTickets(t)
    BY <1>1, <2>1, <2>6
  <2>8. ASSUME NEW i \in DOMAIN log', NEW a \in log'[i].tickets
        PROVE  /\ a <= tickets
               /\ \A k \in 1..Len(writers) : a < w[writers[k]].ticket \/ k <= w[t].group
    BY <2>4, <2>5, <2>7, <2>8, Zenon
  <2> QED BY <2>1, <2>2, <2>8, ZenonT(30) DEF LoggedBeforeQueued
<1>8. ASSUME NEW t \in Threads, Syncing(t) \/ Inserting(t) \/ Publishing(t)
      PROVE  LoggedBeforeQueued'
  <2>1. /\ pc'[t] \in Appended \cup {"pop"} /\ UNCHANGED <<tickets, writers>>
        /\ w'[t].group = w[t].group
        /\ \A u \in Threads \ {t} : w'[u] = w[u] /\ pc'[u] = pc[u]
        /\ DOMAIN log' = DOMAIN log /\ \A i \in DOMAIN log : log'[i].tickets = log[i].tickets
    BY <1>8, ZenonT(30) DEF Syncing, Inserting, Publishing, Moves, FieldsKept, Kept, Appended
  <2>2. \A k \in 1..Len(writers) : Exempt(k) => Exempt(k)' BY <2>1, ZenonT(30)
  <2>3. \A k \in 1..Len(writers) : w'[writers[k]].ticket = w[writers[k]].ticket
    BY <1>1, <1>8, ZenonT(30) DEF Syncing, Inserting, Publishing, Moves, FieldsKept, Kept
  <2> QED BY <2>1, <2>2, <2>3, ZenonT(30) DEF LoggedBeforeQueued
<1>9. ASSUME NEW t \in Threads, Popping(t) PROVE LoggedBeforeQueued'
  <2> DEFINE g == w[t].group
  <2>1. /\ pc[t] = "pop" /\ g \in 1..Len(writers) /\ UNCHANGED <<log, tickets>>
        /\ \A k \in 1..Len(writers') :
             k + g \in 1..Len(writers) /\ w'[writers'[k]] = w[writers[k + g]]
        /\ Len(writers') = Len(writers) - g
    BY <1>9, Zenon DEF Popping
  <2>2. \A u \in Threads : pc[u] \in Appended \cup {"pop"} => u = t
    BY <2>1, LogLabels, SoleLeader, Zenon
  <2>3. \A k \in 1..Len(writers') : ~(k + g <= g) BY <1>1, <2>1, SMTT(60)
  <2>4. ASSUME NEW i \in DOMAIN log, NEW a \in log[i].tickets, NEW k \in 1..Len(writers')
        PROVE  a < w[writers[k + g]].ticket
    <3>1. a < w[writers[k + g]].ticket \/ Exempt(k + g)
      BY <2>1, <2>4, Zenon DEF LoggedBeforeQueued
    <3> QED BY <2>2, <2>3, <3>1, Zenon
  <2>5. \A i \in DOMAIN log : \A a \in log[i].tickets : a <= tickets
    BY Zenon DEF LoggedBeforeQueued
  <2> QED BY <2>1, <2>4, <2>5, ZenonT(30) DEF LoggedBeforeQueued
<1> QED BY <1>4, <1>5, <1>6, <1>7, <1>8, <1>9, LogSteps, Zenon DEF LogStep

-----------------------------------------------------------------------------
(* The records.                                                            *)

\* What AddRecord makes of the log.
LEMMA Appending ==
  ASSUME TypeOK, NEW r, log' = Append(log, r)
  PROVE  /\ DOMAIN log' = 1..Len(log') /\ Len(log') = Len(log) + 1
         /\ log'[Len(log')] = r /\ Len(log') \in DOMAIN log' /\ log' # <<>>
         /\ \A i \in DOMAIN log : i \in DOMAIN log' /\ log'[i] = log[i] /\ i < Len(log')
         /\ \A i \in DOMAIN log' : i \in DOMAIN log \/ i = Len(log')
<1>1. log \in Seq(LogRecords) /\ DOMAIN log = 1..Len(log) /\ Len(log) \in Nat BY PathTypes, Zenon
<1> QED BY <1>1

\* The record the leader is about to insert stays the last one.
LEMMA PendingStep ==
  ASSUME TypeOK, QueueConsistent, RecordPending, [Next]_vars
  PROVE  RecordPending'
<1> DEFINE Last(u) ==
      /\ log # <<>> /\ log[Len(log)].file = logfile /\ log[Len(log)].first = w[u].first
      /\ log[Len(log)].tickets = GroupTickets(u)
<1>1. {"sync", "insert"} \subseteq Logging /\ {"sync", "insert"} \subseteq Leads
  BY Zenon DEF Logging, Appended, Leads
<1>2. log \in Seq(LogRecords) /\ DOMAIN log = 1..Len(log) /\ Len(log) \in Nat BY PathTypes, Zenon
<1>3. CASE Quiet
  <2>1. ASSUME NEW u \in Threads, pc'[u] \in {"sync", "insert"}
        PROVE  /\ pc[u] \in {"sync", "insert"} /\ w'[u] = w[u]
               /\ GroupTickets(u)' = GroupTickets(u)
    <3>1. pc[u] \in Logging /\ pc'[u] = pc[u] /\ w'[u] = w[u]
      BY <1>1, <1>3, <2>1, Zenon DEF Quiet
    <3> QED BY <1>3, <2>1, <3>1, GroupStays, Zenon
  <2>2. UNCHANGED <<log, logfile>> BY <1>3, Zenon DEF Quiet
  <2> QED BY <2>1, <2>2, ZenonT(30) DEF RecordPending
<1>4. ASSUME NEW t \in Threads, Entering(t) \/ Leaving(t) PROVE RecordPending'
  <2>1. /\ UNCHANGED <<log, logfile>> /\ pc'[t] \notin {"sync", "insert"}
        /\ \A u \in Threads \ {t} : pc'[u] = pc[u] /\ w'[u] = w[u]
    BY <1>4, ZenonT(30) DEF Entering, Leaving
  <2>2. \A u \in Threads : pc[u] \in Leads => GroupTickets(u)' = GroupTickets(u)
    BY <1>4, GroupStays, Zenon
  <2> QED BY <1>1, <2>1, <2>2, ZenonT(30) DEF RecordPending
<1>5. ASSUME NEW t \in Threads, Switching(t) \/ Closing(t) \/ Inserting(t) \/ Publishing(t)
      PROVE  RecordPending'
  <2>1. Moves(t) /\ pc'[t] \notin {"sync", "insert"}
    BY <1>5, ZenonT(30) DEF Switching, Closing, Inserting, Publishing
  <2>2. \A u \in Threads : pc'[u] \notin {"sync", "insert"}
    BY <1>1, <2>1, SoleLeader, Zenon DEF Moves
  <2> QED BY <2>2, Zenon DEF RecordPending
<1>6. ASSUME NEW t \in Threads, Popping(t) PROVE RecordPending'
  <2>1. /\ pc[t] \in Leads /\ pc'[t] \notin {"sync", "insert"}
        /\ \A u \in Threads \ {t} : pc'[u] = pc[u]
    BY <1>6, LogLabels, Zenon DEF Popping
  <2>2. \A u \in Threads : pc'[u] \notin {"sync", "insert"}
    BY <1>1, <2>1, SoleLeader, Zenon
  <2> QED BY <2>2, Zenon DEF RecordPending
<1>7. ASSUME NEW t \in Threads, Adding(t) PROVE RecordPending'
  <2>1. Moves(t) /\ GroupTickets(t)' = GroupTickets(t) /\ logfile' = logfile
        /\ w'[t].first = w[t].first
    BY <1>7, GroupStays, Zenon DEF Adding, Moves
  <2>2. \A u \in Threads : pc'[u] \in {"sync", "insert"} => u = t
    BY <1>1, <2>1, SoleLeader, Zenon DEF Moves
  <2>3. CASE pc'[t] \in {"sync", "insert"}
    <3>1. log' = Append(log, LogRecord(t)) BY <1>7, <2>3, Zenon DEF Adding
    <3>2. log' # <<>> /\ log'[Len(log')] = LogRecord(t) BY <3>1, Appending, Zenon
    <3>3. /\ LogRecord(t).file = logfile /\ LogRecord(t).first = w[t].first
          /\ LogRecord(t).tickets = GroupTickets(t)
      BY Zenon DEF LogRecord
    <3> QED BY <2>1, <2>2, <3>2, <3>3, ZenonT(30) DEF RecordPending
  <2>4. CASE pc'[t] \notin {"sync", "insert"} BY <2>2, <2>4, Zenon DEF RecordPending
  <2> QED BY <2>3, <2>4, Zenon
<1>8. ASSUME NEW t \in Threads, Syncing(t) PROVE RecordPending'
  <2>1. Moves(t) /\ GroupTickets(t)' = GroupTickets(t) /\ logfile' = logfile
        /\ w'[t].first = w[t].first /\ pc[t] = "sync" /\ Len(log') = Len(log)
    BY <1>8, GroupStays, Zenon DEF Syncing, Moves
  <2>2. \A u \in Threads : pc'[u] \in {"sync", "insert"} => u = t
    BY <1>1, <2>1, SoleLeader, Zenon DEF Moves
  <2>3. Last(t) BY <2>1, Zenon DEF RecordPending
  <2>4. Len(log) \in DOMAIN log BY <1>2, <2>3, SMTT(30)
  <2>5. /\ log'[Len(log)].file = log[Len(log)].file /\ log'[Len(log)].first = log[Len(log)].first
        /\ log'[Len(log)].tickets = log[Len(log)].tickets /\ DOMAIN log' = DOMAIN log
    BY <1>8, <2>4, Zenon DEF Syncing
  <2>6. log' # <<>> BY <2>4, <2>5
  <2> QED BY <2>1, <2>2, <2>3, <2>5, <2>6, ZenonT(30) DEF RecordPending
<1> QED BY <1>3, <1>4, <1>5, <1>6, <1>7, <1>8, LogSteps, Zenon DEF LogStep

\* Without errors every record but the pending one stays inserted.
LEMMA InsertedStep ==
  ASSUME TypeOK, QueueConsistent, FlushHasImm, RecordPending, RecordsInserted, [Next]_vars
  PROVE  RecordsInserted'
<1> DEFINE Inserter == \E u \in Threads : pc[u] \in {"sync", "insert"}
<1> SUFFICES ASSUME ~EnvErrors
             PROVE  \A i \in DOMAIN log' :
                      log'[i].tickets \subseteq Readable' \/ (i = Len(log') /\ Inserter')
  BY Zenon DEF RecordsInserted
<1>1. Readable \subseteq Readable' BY ReadableGrows, Zenon
<1>2. \A i \in DOMAIN log : log[i].tickets \subseteq Readable \/ (i = Len(log) /\ Inserter)
  BY Zenon DEF RecordsInserted
<1>3. {"sync", "insert"} \subseteq Logging /\ {"sync", "insert"} \subseteq Leads
  BY Zenon DEF Logging, Appended, Leads
<1>4. CASE log' = log /\ (Inserter => Inserter') BY <1>1, <1>2, <1>4, Zenon
<1>5. CASE Quiet
  <2>1. Inserter => Inserter' BY <1>3, <1>5, ZenonT(30) DEF Quiet
  <2> QED BY <1>4, <1>5, <2>1, Zenon DEF Quiet
<1>6. ASSUME NEW t \in Threads,
             \/ Entering(t) \/ Leaving(t) \/ Switching(t) \/ Closing(t) \/ Publishing(t)
             \/ Popping(t)
      PROVE  log' = log /\ (Inserter => Inserter')
  <2>1. /\ log' = log /\ pc[t] \notin {"sync", "insert"}
        /\ \A u \in Threads \ {t} : pc'[u] = pc[u]
    BY <1>6, ZenonT(30) DEF Entering, Leaving, Switching, Closing, Publishing, Popping, Moves
  <2> QED BY <2>1, Zenon
<1>7. ASSUME NEW t \in Threads, Adding(t)
      PROVE  \A i \in DOMAIN log' :
               log'[i].tickets \subseteq Readable' \/ (i = Len(log') /\ Inserter')
  <2>1. /\ log' = Append(log, LogRecord(t)) /\ pc'[t] \in {"sync", "insert"}
        /\ pc[t] = "log" /\ pc[t] \in Leads
    BY <1>7, Zenon DEF Adding, Moves
  <2>2. ~Inserter BY <1>3, <2>1, SoleLeader, Zenon
  <2>3. \A i \in DOMAIN log' : (i \in DOMAIN log /\ log'[i] = log[i]) \/ i = Len(log')
    BY <2>1, Appending, Zenon
  <2>4. Inserter' BY <2>1, Zenon
  <2> QED BY <1>1, <1>2, <2>2, <2>3, <2>4, Zenon
<1>8. ASSUME NEW t \in Threads, Syncing(t)
      PROVE  \A i \in DOMAIN log' :
               log'[i].tickets \subseteq Readable' \/ (i = Len(log') /\ Inserter')
  <2>1. /\ DOMAIN log' = DOMAIN log /\ Len(log') = Len(log) /\ pc'[t] = "insert"
        /\ \A i \in DOMAIN log : log'[i].tickets = log[i].tickets
    BY <1>8, Zenon DEF Syncing
  <2> QED BY <1>1, <1>2, <2>1, Zenon
<1>9. ASSUME NEW t \in Threads, Inserting(t)
      PROVE  \A i \in DOMAIN log' :
               log'[i].tickets \subseteq Readable' \/ (i = Len(log') /\ Inserter')
  <2>1. log' = log /\ pc[t] = "insert" /\ mem' = mem \cup GroupTickets(t)
    BY <1>9, Zenon DEF Inserting
  <2>2. log[Len(log)].tickets = GroupTickets(t) BY <2>1, Zenon DEF RecordPending
  <2>3. log[Len(log)].tickets \subseteq Readable' BY <2>1, <2>2, Zenon DEF Readable
  <2> QED BY <1>1, <1>2, <2>1, <2>3, Zenon
<1> QED BY <1>4, <1>5, <1>6, <1>7, <1>8, <1>9, LogSteps, Zenon DEF LogStep

\* File numbers stay in order.
LEMMA FilesStep ==
  ASSUME TypeOK, QueueConsistent, InputsStay, LogFilesInOrder, [Next]_vars
  PROVE  LogFilesInOrder'
<1>1. logfile \in Nat /\ next_file \in Nat /\ \A i \in DOMAIN log : log[i].file \in Nat
  BY PathTypes, FieldTypes, Zenon
<1>2. CASE Quiet
  <2>1. UNCHANGED <<log, logfile>> /\ next_file' >= next_file BY <1>2, Zenon DEF Quiet
  <2>2. logfile < next_file' \/ next_file' \notin Int BY <1>1, <2>1 DEF LogFilesInOrder
  <2>3. next_file' \in Nat BY TypeStep, Zenon DEF TypeOK, TypeSwitch
  <2> QED BY <2>1, <2>2, <2>3 DEF LogFilesInOrder
<1>3. ASSUME NEW t \in Threads,
             \/ Entering(t) \/ Leaving(t) \/ Closing(t) \/ Inserting(t) \/ Publishing(t)
             \/ Popping(t)
      PROVE  UNCHANGED <<log, logfile, next_file>>
  BY <1>3, ZenonT(30) DEF Entering, Leaving, Closing, Inserting, Publishing, Popping
<1>4. CASE UNCHANGED <<log, logfile, next_file>> BY <1>4, Zenon DEF LogFilesInOrder
<1>5. ASSUME NEW t \in Threads, Switching(t) PROVE LogFilesInOrder'
  <2>1. log' = log /\ logfile' = next_file /\ next_file' = next_file + 1
    BY <1>5, Zenon DEF Switching
  <2> QED BY <1>1, <2>1 DEF LogFilesInOrder
<1>6. ASSUME NEW t \in Threads, Adding(t) PROVE LogFilesInOrder'
  <2>1. UNCHANGED <<logfile, next_file>> /\ (log' = log \/ log' = Append(log, LogRecord(t)))
    BY <1>6, Zenon DEF Adding
  <2>2. LogRecord(t).file = logfile /\ logfile <= logfile BY <1>1 DEF LogRecord
  <2>3. CASE log' = log BY <1>4, <2>1, <2>3, Zenon
  <2>4. CASE log' = Append(log, LogRecord(t))
    <3>1. \A i \in DOMAIN log' : log'[i].file <= logfile
      BY <2>2, <2>4, Appending, Zenon DEF LogFilesInOrder
    <3> QED BY <2>1, <3>1, Zenon DEF LogFilesInOrder
  <2> QED BY <2>1, <2>3, <2>4, Zenon
<1>7. ASSUME NEW t \in Threads, Syncing(t) PROVE LogFilesInOrder'
  <2>1. /\ UNCHANGED <<logfile, next_file>> /\ DOMAIN log' = DOMAIN log
        /\ \A i \in DOMAIN log : log'[i].file = log[i].file
    BY <1>7, Zenon DEF Syncing
  <2> QED BY <2>1, Zenon DEF LogFilesInOrder
<1> QED BY <1>2, <1>3, <1>4, <1>5, <1>6, <1>7, LogSteps, Zenon DEF LogStep

\* What is synced stays synced.
LEMMA SyncedGrows ==
  ASSUME TypeOK, QueueConsistent, [Next]_vars
  PROVE  SyncedTickets \subseteq SyncedTickets'
<1>1. CASE log' = log BY <1>1, Zenon DEF SyncedTickets
<1>2. CASE \A i \in DOMAIN log :
             /\ i \in DOMAIN log' /\ log'[i].tickets = log[i].tickets
             /\ log[i].synced => log'[i].synced
  BY <1>2, ZenonT(30) DEF SyncedTickets
<1>3. CASE Quiet BY <1>1, <1>3, Zenon DEF Quiet
<1>4. ASSUME NEW t \in Threads, LogStep(t), ~Adding(t), ~Syncing(t) PROVE log' = log
  BY <1>4, ZenonT(30)
  DEF LogStep, Entering, Leaving, Switching, Closing, Inserting, Publishing, Popping
<1>5. ASSUME NEW t \in Threads, Adding(t) PROVE SyncedTickets \subseteq SyncedTickets'
  <2>1. log' = log \/ log' = Append(log, LogRecord(t)) BY <1>5, Zenon DEF Adding
  <2> QED BY <1>1, <1>2, <2>1, Appending, Zenon
<1>6. ASSUME NEW t \in Threads, Syncing(t) PROVE SyncedTickets \subseteq SyncedTickets'
  BY <1>2, <1>6, Zenon DEF Syncing
<1> QED BY <1>1, <1>3, <1>4, <1>5, <1>6, LogSteps, Zenon

\* A group with a sync write keeps a sync leader.
LEMMA SyncLeaderStep ==
  ASSUME TypeOK, QueueConsistent, SyncPromised, [Next]_vars, NEW u \in Threads,
         pc'[u] \in Leads, NEW k \in 1..w'[u].group, w'[writers'[k]].sync
  PROVE  w'[u].sync
<1>1. /\ Len(writers) \in Nat /\ writers \in Seq(Threads)
      /\ \A i \in 1..Len(writers) : writers[i] \in Threads
  BY PathTypes, Zenon
<1>2. /\ pc[u] \in Leads => w[u].group \in 1..Len(writers)
      /\ pc[u] \in Leads => \A j \in 1..w[u].group : w[writers[j]].sync => w[u].sync
  BY Leadership, Zenon DEF SyncPromised
<1>3. CASE Quiet
  <2>1. QueueConsistent' BY QueueStep, Zenon
  <2>2. writers'[1] = u /\ w'[u].group \in 1..Len(writers') BY <2>1, Zenon DEF QueueConsistent
  <2>3. writers' = writers /\ w'[u].sync = w[u].sync /\ k \in 1..Len(writers)
    <3>1. writers' = writers /\ w'[u].sync = w[u].sync BY <1>3, Zenon DEF Quiet
    <3> QED BY <1>1, <2>2, <3>1
  <2>4. w[writers[k]].sync BY <1>1, <1>3, <2>3, Zenon DEF Quiet
  <2>5. GroupGrows(u) BY <1>3, Zenon DEF Quiet
  <2>6. CASE pc[u] \in Leads /\ w'[u].group = w[u].group BY <1>2, <2>3, <2>4, <2>6, Zenon
  <2>7. CASE w'[u].group = 1
    <3>1. k = 1 BY <2>7
    <3> QED BY <2>2, <2>3, <2>4, <3>1, Zenon
  <2>8. CASE /\ pc[u] \in Leads /\ w'[u].group = w[u].group + 1
             /\ w[writers[w[u].group + 1]].sync => w[u].sync
    <3>1. k \in 1..w[u].group \/ k = w[u].group + 1 BY <1>1, <1>2, <2>8, SMTT(60)
    <3> QED BY <1>2, <2>3, <2>4, <2>8, <3>1, Zenon
  <2> QED BY <2>5, <2>6, <2>7, <2>8, Zenon DEF GroupGrows
<1>4. ASSUME NEW t \in Threads, Entering(t) \/ Leaving(t) PROVE w'[u].sync
  <2>1. u # t BY <1>4, LogLabels, ZenonT(30) DEF Entering, Leaving
  <2>2. /\ w'[u] = w[u] /\ pc'[u] = pc[u] /\ \A x \in Threads \ {t} : w'[x] = w[x]
        /\ \A i \in 1..Len(writers) : writers[i] # t
        /\ writers' = writers \/ writers' = Append(writers, t)
    BY <1>4, <2>1, ZenonT(30) DEF Entering, Leaving
  <2>3. k \in 1..Len(writers) BY <1>1, <1>2, <2>2
  <2>4. writers'[k] = writers[k] BY <1>1, <2>2, <2>3
  <2>5. w'[writers'[k]] = w[writers[k]] BY <1>1, <2>2, <2>3, <2>4, Zenon
  <2> QED BY <1>2, <2>2, <2>5, Zenon
<1>5. ASSUME NEW t \in Threads, Moves(t) PROVE w'[u].sync
  <2>1. u = t BY <1>5, SoleLeader, Zenon DEF Moves
  <2>2. /\ w'[u].group = w[u].group /\ w'[u].sync = w[u].sync /\ pc[u] \in Leads
        /\ writers' = writers /\ \A x \in Threads : w'[x].sync = w[x].sync
    BY <1>5, <2>1, Zenon DEF Moves, FieldsKept, Kept
  <2>3. k \in 1..Len(writers) BY <1>1, <1>2, <2>2
  <2> QED BY <1>1, <1>2, <2>2, <2>3, Zenon
<1>6. ASSUME NEW t \in Threads, Popping(t) PROVE FALSE
  <2>1. pc[t] \in Leads /\ pc'[t] \notin Leads /\ \A x \in Threads \ {t} : pc'[x] = pc[x]
    BY <1>6, LogLabels, Zenon DEF Popping
  <2> QED BY <2>1, SoleLeader, Zenon
<1> QED BY <1>3, <1>4, <1>5, <1>6, LogSteps, Zenon
        DEF LogStep, Switching, Closing, Adding, Syncing, Inserting, Publishing

\* What a leader has promised its group.
LEMMA SyncGroupStep ==
  ASSUME TypeOK, QueueConsistent, DoneIsReadable, RecordPending, SyncPromised, [Next]_vars,
         NEW u \in Threads, pc'[u] = "insert" \/ (pc'[u] \in {"logged", "pop"} /\ w'[u].ok),
         w'[u].sync
  PROVE  GroupTickets(u)' \subseteq SyncedTickets'
<1>1. SyncedTickets \subseteq SyncedTickets' BY SyncedGrows, Zenon
<1>2. (pc[u] = "insert" \/ (pc[u] \in {"logged", "pop"} /\ w[u].ok)) /\ w[u].sync =>
        GroupTickets(u) \subseteq SyncedTickets
  BY Zenon DEF SyncPromised
<1>3. pc'[u] \in Leads /\ {"insert", "logged"} \subseteq Logging
  BY Zenon DEF Leads, Logging, Appended
<1>4. CASE Quiet
  <2>1. CASE pc[u] \in Logging \cup {"pop"}
    <3>1. pc'[u] = pc[u] /\ w'[u] = w[u] BY <1>4, <2>1, Zenon DEF Quiet
    <3>2. GroupTickets(u)' = GroupTickets(u) BY <1>4, <2>1, GroupStays, Zenon
    <3> QED BY <1>1, <1>2, <3>1, <3>2, Zenon
  <2>2. CASE pc[u] \notin Logging \cup {"pop"}
    <3>1. pc'[u] = "pop" /\ w'[u].ok BY <1>3, <1>4, <2>2, Zenon DEF Quiet
    <3>2. GroupTickets(u)' = {} BY <1>4, <2>2, <3>1, Zenon DEF Quiet
    <3> QED BY <3>2, Zenon
  <2> QED BY <2>1, <2>2, Zenon
<1>5. ASSUME NEW t \in Threads, Entering(t) \/ Leaving(t)
      PROVE  GroupTickets(u)' \subseteq SyncedTickets'
  <2>1. u # t /\ w'[u] = w[u] /\ pc'[u] = pc[u]
    BY <1>3, <1>5, LogLabels, ZenonT(30) DEF Entering, Leaving
  <2>2. GroupTickets(u)' = GroupTickets(u) BY <1>3, <1>5, <2>1, GroupStays, Zenon
  <2> QED BY <1>1, <1>2, <2>1, <2>2, Zenon
<1>6. ASSUME NEW t \in Threads, Moves(t)
      PROVE  u = t /\ GroupTickets(u)' = GroupTickets(u) /\ w'[u].sync = w[u].sync
  <2>1. u = t BY <1>3, <1>6, SoleLeader, Zenon DEF Moves
  <2> QED BY <1>6, <2>1, GroupStays, Zenon DEF Moves, FieldsKept
<1>7. ASSUME NEW t \in Threads, Switching(t) \/ Closing(t) \/ Adding(t) PROVE FALSE
  <2>1. u = t BY <1>6, <1>7, Zenon DEF Switching, Closing, Adding
  <2> QED BY <1>7, <2>1, ZenonT(30) DEF Switching, Closing, Adding
<1>8. ASSUME NEW t \in Threads, Syncing(t) PROVE GroupTickets(u)' \subseteq SyncedTickets'
  <2>1. u = t /\ GroupTickets(u)' = GroupTickets(u) BY <1>6, <1>8, Zenon DEF Syncing
  <2>2. pc'[u] = "insert" /\ pc[u] = "sync" BY <1>8, <2>1, Zenon DEF Syncing
  <2>3. /\ log # <<>> /\ log[Len(log)].file = logfile
        /\ log[Len(log)].tickets = GroupTickets(u)
    BY <2>2, Zenon DEF RecordPending
  <2>4. Len(log) \in DOMAIN log BY <2>3, PathTypes, SMTT(30)
  <2>5. /\ Len(log) \in DOMAIN log' /\ log'[Len(log)].synced
        /\ log'[Len(log)].tickets = GroupTickets(u)
    BY <1>8, <2>1, <2>2, <2>3, <2>4, Zenon DEF Syncing
  <2> QED BY <2>1, <2>5, ZenonT(30) DEF SyncedTickets
<1>9. ASSUME NEW t \in Threads, Inserting(t) \/ Publishing(t)
      PROVE  GroupTickets(u)' \subseteq SyncedTickets'
  <2>1. u = t /\ GroupTickets(u)' = GroupTickets(u) /\ w' = w
    BY <1>6, <1>9, Zenon DEF Inserting, Publishing
  <2>2. pc[u] = "insert" \/ (pc[u] = "logged" /\ w[u].ok)
    BY <1>9, <2>1, ZenonT(30) DEF Inserting, Publishing, DoneIsReadable
  <2> QED BY <1>1, <1>2, <2>1, <2>2, Zenon
<1>10. ASSUME NEW t \in Threads, Popping(t) PROVE FALSE
  BY <1>3, <1>10, LogLabels, SoleLeader, SMTT(60) DEF Popping
<1> QED BY <1>4, <1>5, <1>7, <1>8, <1>9, <1>10, LogSteps, Zenon DEF LogStep

\* What a follower that is done has been promised.
LEMMA SyncDoneStep ==
  ASSUME TypeOK, QueueConsistent, SyncPromised, [Next]_vars, NEW u \in Threads,
         pc'[u] \in {"check", "cv"}, w'[u].done, w'[u].ok, w'[u].sync, w'[u].batch # NullBatch
  PROVE  w'[u].ticket \in SyncedTickets'
<1>1. SyncedTickets \subseteq SyncedTickets' BY SyncedGrows, Zenon
<1>2. pc[u] \in {"check", "cv"} /\ w[u].done /\ w[u].ok /\ w[u].sync /\ w[u].batch # NullBatch
        => w[u].ticket \in SyncedTickets
  BY Zenon DEF SyncPromised
<1>3. CASE Quiet
  <2>1. /\ pc[u] \in {"check", "cv"} /\ w'[u].ok = w[u].ok /\ w'[u].ticket = w[u].ticket
        /\ w'[u].batch = w[u].batch /\ w'[u].sync = w[u].sync /\ w'[u].done = w[u].done
    BY <1>3, Zenon DEF Quiet
  <2> QED BY <1>1, <1>2, <2>1, Zenon
<1>4. ASSUME NEW t \in Threads, Entering(t) \/ Leaving(t) \/ Moves(t)
      PROVE  w'[u].ticket \in SyncedTickets'
  <2>1. u # t BY <1>4, LogLabels, ZenonT(30) DEF Entering, Leaving, Moves
  <2>2. w'[u] = w[u] /\ pc'[u] = pc[u] BY <1>4, <2>1, ZenonT(30) DEF Entering, Leaving, Moves
  <2> QED BY <1>1, <1>2, <2>2, Zenon
<1>5. ASSUME NEW t \in Threads, Popping(t) PROVE w'[u].ticket \in SyncedTickets'
  <2>1. u # t /\ pc'[u] = pc[u] BY <1>5, ZenonT(30) DEF Popping
  <2>2. CASE w'[u] = w[u] BY <1>1, <1>2, <2>1, <2>2, Zenon
  <2>3. CASE w'[u] # w[u]
    <3>1. PICK k \in 2..w[t].group : writers[k] = u BY <1>5, <2>1, <2>3, Zenon DEF Popping
    <3>2. /\ w'[u].ticket = w[u].ticket /\ w'[u].batch = w[u].batch
          /\ w'[u].sync = w[u].sync /\ w'[u].ok = w[t].ok
      BY <1>5, <2>1, <2>3, Zenon DEF Popping
    <3>3. pc[t] = "pop" /\ pc[t] \in Leads BY <1>5, LogLabels, Zenon DEF Popping
    <3>4. k \in 1..w[t].group BY <3>1, PathTypes, FieldTypes
    <3>5. w[t].sync BY <3>1, <3>2, <3>3, <3>4, Zenon DEF SyncPromised
    <3>6. GroupTickets(t) \subseteq SyncedTickets BY <3>2, <3>3, <3>5, Zenon DEF SyncPromised
    <3>7. w[u].ticket \in GroupTickets(t) BY <3>1, <3>2, <3>4, Zenon DEF GroupTickets
    <3> QED BY <1>1, <3>2, <3>6, <3>7, Zenon
  <2> QED BY <2>2, <2>3, Zenon
<1> QED BY <1>3, <1>4, <1>5, LogSteps, Zenon
        DEF LogStep, Switching, Closing, Adding, Syncing, Inserting, Publishing

-----------------------------------------------------------------------------
(* The theorems.                                                           *)

\* The log's invariant holds initially.
LEMMA LogInit ==
  Init => LogInvariant /\ LogIsSequenced /\ AckedSyncIsSynced /\ MemMatchesLog
<1> SUFFICES ASSUME Init
             PROVE  LogInvariant /\ LogIsSequenced /\ AckedSyncIsSynced /\ MemMatchesLog
  OBVIOUS
<1>1. log = <<>> /\ DOMAIN log = {} /\ writers = <<>> /\ 1..Len(writers) = {}
  BY DEF Init
<1>2. \A t \in Threads : pc[t] = "idle" BY Zenon DEF Init
<1>3. \A t \in Threads : pc[t] \notin Leads /\ pc[t] \notin Logging
  BY <1>2, LogLabels, Zenon
<1>4. logfile < next_file BY DEF Init
<1>5. QueueInOrder /\ NumbersReserved /\ LoggedBeforeQueued
  BY <1>1, <1>3, Zenon DEF QueueInOrder, NumbersReserved, LoggedBeforeQueued
<1>6. RecordPending /\ RecordsInserted /\ LogFilesInOrder
  BY <1>1, <1>2, <1>4, Zenon DEF RecordPending, RecordsInserted, LogFilesInOrder
<1>7. SyncPromised BY <1>2, <1>3, Zenon DEF SyncPromised
<1>8. LogIsSequenced BY <1>1, Zenon DEF LogIsSequenced
<1>9. AckedSyncIsSynced BY Zenon DEF Init, AckedSyncIsSynced
<1>10. MemMatchesLog
  <2>1. mem = {} BY Zenon DEF Init
  <2> QED BY <1>1, <2>1, Zenon DEF MemMatchesLog
<1> QED BY <1>5, <1>6, <1>7, <1>8, <1>9, <1>10, Zenon DEF LogInvariant

\* The log's invariant is kept by every step.
LEMMA LogStepKeeps == WriteInvariant /\ LogInvariant /\ [Next]_vars => LogInvariant'
<1> SUFFICES ASSUME WriteInvariant, LogInvariant, [Next]_vars PROVE LogInvariant'
  OBVIOUS
<1> USE DEF WriteInvariant, LogInvariant
<1>1. QueueInOrder' BY OrderStep, Zenon
<1>2. NumbersReserved' BY NumbersStep, Zenon
<1>3. LoggedBeforeQueued' BY LoggedStep, Zenon
<1>4. RecordPending' BY PendingStep, Zenon
<1>5. RecordsInserted' BY InsertedStep, Zenon
<1>6. LogFilesInOrder' BY FilesStep, Zenon
<1>7. SyncPromised'
  BY SyncLeaderStep, SyncGroupStep, SyncDoneStep, ZenonT(30) DEF SyncPromised
<1> QED BY <1>1, <1>2, <1>3, <1>4, <1>5, <1>6, <1>7, Zenon

\* The records stay in sequence.
LEMMA SequencedStep ==
  WriteInvariant /\ LogInvariant /\ LogIsSequenced /\ [Next]_vars => LogIsSequenced'
<1> SUFFICES ASSUME WriteInvariant, LogInvariant, LogIsSequenced, [Next]_vars
             PROVE  LogIsSequenced'
  OBVIOUS
<1> USE DEF WriteInvariant, LogInvariant
<1>1. CASE log' = log BY <1>1, SMTT(60) DEF LogIsSequenced
<1>2. CASE Quiet BY <1>1, <1>2, Zenon DEF Quiet
<1>3. ASSUME NEW t \in Threads, LogStep(t), ~Adding(t), ~Syncing(t) PROVE log' = log
  BY <1>3, ZenonT(30)
  DEF LogStep, Entering, Leaving, Switching, Closing, Inserting, Publishing, Popping
<1>4. ASSUME NEW t \in Threads, Syncing(t) PROVE LogIsSequenced'
  <2>1. /\ DOMAIN log' = DOMAIN log
        /\ \A i \in DOMAIN log : /\ log'[i].tickets = log[i].tickets
                                 /\ log'[i].first = log[i].first /\ log'[i].last = log[i].last
    BY <1>4, Zenon DEF Syncing
  <2> QED BY <2>1, ZenonT(30) DEF LogIsSequenced
<1>5. ASSUME NEW t \in Threads, log' = Append(log, LogRecord(t)), pc[t] = "log"
      PROVE  LogIsSequenced'
  <2>1. LogRecord(t).first = w[t].first /\ LogRecord(t).tickets = GroupTickets(t)
    BY Zenon DEF LogRecord
  <2>2. \A i \in DOMAIN log :
          /\ log[i].last < w[t].first
          /\ \A a \in log[i].tickets, b \in GroupTickets(t) : a < b
    BY <1>5, FreshGroup, Zenon
  <2>3. \A i \in DOMAIN log : log[i].tickets \cap GroupTickets(t) = {}
    <3>1. \A i \in DOMAIN log : \A a \in log[i].tickets : a \in Int
      <4>1. Tickets \subseteq Int BY BoundAssumption DEF Tickets
      <4> QED BY <4>1, PathTypes, FieldTypes, Zenon
    <3>2. \A i \in DOMAIN log : \A a \in log[i].tickets : ~(a < a) BY <3>1
    <3> QED BY <2>2, <3>2, Zenon
  <2>4. /\ \A i \in DOMAIN log : i \in DOMAIN log' /\ log'[i] = log[i] /\ i < Len(log')
        /\ \A i \in DOMAIN log' : i \in DOMAIN log \/ i = Len(log')
        /\ log'[Len(log')] = LogRecord(t)
    BY <1>5, Appending, Zenon
  <2>5. ~(Len(log') < Len(log')) /\ \A i \in DOMAIN log : ~(Len(log') < i)
    <3>1. Len(log') = Len(log) + 1 BY <1>5, Appending, Zenon
    <3> QED BY <3>1, PathTypes
  <2>6. ASSUME NEW i \in DOMAIN log', NEW j \in DOMAIN log', i < j
        PROVE  /\ log'[i].last < log'[j].first
               /\ log'[i].tickets \cap log'[j].tickets = {}
               /\ \A a \in log'[i].tickets, b \in log'[j].tickets : a < b
    <3>1. i \in DOMAIN log /\ log'[i] = log[i] BY <2>4, <2>5, <2>6, Zenon
    <3>2. CASE j \in DOMAIN log
      BY <2>4, <2>6, <3>1, <3>2, ZenonT(30) DEF LogIsSequenced
    <3>3. CASE j = Len(log') BY <2>1, <2>2, <2>3, <2>4, <3>1, <3>3, Zenon
    <3> QED BY <2>4, <3>2, <3>3, Zenon
  <2> QED BY <2>6, Zenon DEF LogIsSequenced
<1>6. ASSUME NEW t \in Threads, Adding(t) PROVE LogIsSequenced'
  BY <1>1, <1>5, <1>6, Zenon DEF Adding
<1> QED BY <1>1, <1>2, <1>3, <1>4, <1>6, LogSteps, Zenon

\* A result of OK is returned to a sync write only when its record is synced.
LEMMA AckedSyncStep ==
  WriteInvariant /\ LogInvariant /\ AckedSyncIsSynced /\ [Next]_vars => AckedSyncIsSynced'
<1> SUFFICES ASSUME WriteInvariant, LogInvariant, AckedSyncIsSynced, [Next]_vars
             PROVE  AckedSyncIsSynced'
  OBVIOUS
<1> USE DEF WriteInvariant, LogInvariant
<1> DEFINE Promise(a) == a.ok /\ a.sync /\ ~a.null => a.ticket \in SyncedTickets'
<1>1. SyncedTickets \subseteq SyncedTickets' BY SyncedGrows, Zenon
<1>2. \A a \in acked : Promise(a)
  <2>1. \A a \in acked : a.ok /\ a.sync /\ ~a.null => a.ticket \in SyncedTickets
    BY ZenonT(30) DEF AckedSyncIsSynced, SyncedTickets
  <2> QED BY <1>1, <2>1, Zenon
<1>3. SUFFICES \A a \in acked' : Promise(a)
  BY <1>3, ZenonT(30) DEF AckedSyncIsSynced, SyncedTickets
<1>4. ASSUME NEW t \in Threads,
             w[t].ok /\ w[t].sync /\ w[t].batch # NullBatch => w[t].ticket \in SyncedTickets
      PROVE  Promise(Ack(t, w[t].ok))
  <2>1. LET a == Ack(t, w[t].ok)
        IN  a.ok /\ a.sync /\ ~a.null => a.ticket \in SyncedTickets
    BY <1>4, ZenonT(60) DEF Ack
  <2> QED BY <1>1, <2>1, Zenon
<1>5. ASSUME NEW t \in Threads, Leaving(t) PROVE \A a \in acked' : Promise(a)
  <2>1. pc[t] = "check" /\ w[t].done /\ acked' = acked \cup {Ack(t, w[t].ok)}
    BY <1>5, Zenon DEF Leaving
  <2>2. w[t].ok /\ w[t].sync /\ w[t].batch # NullBatch => w[t].ticket \in SyncedTickets
    BY <2>1, Zenon DEF SyncPromised
  <2> QED BY <1>2, <1>4, <2>1, <2>2, Zenon
<1>6. ASSUME NEW t \in Threads, Popping(t) PROVE \A a \in acked' : Promise(a)
  <2>1. /\ pc[t] = "pop" /\ acked' = acked \cup {Ack(t, w[t].ok)} /\ writers[1] = t
        /\ w[t].group \in 1..Len(writers)
    BY <1>6, Zenon DEF Popping
  <2>2. 1 \in 1..w[t].group BY <2>1
  <2>3. w[t].batch # NullBatch => w[t].ticket \in GroupTickets(t)
    BY <2>1, <2>2, Zenon DEF GroupTickets
  <2>4. w[t].ok /\ w[t].sync => GroupTickets(t) \subseteq SyncedTickets
    BY <2>1, Zenon DEF SyncPromised
  <2> QED BY <1>2, <1>4, <2>1, <2>3, <2>4, Zenon
<1>7. CASE acked' = acked BY <1>2, <1>7, Zenon
<1> HIDE DEF Promise
<1> QED BY <1>5, <1>6, <1>7, LogSteps, ZenonT(30)
        DEF LogStep, Quiet, Entering, Moves, Switching, Closing, Adding, Syncing, Inserting,
            Publishing

\* MemMatchesLog element by element.
InLog(a)     == \E i \in DOMAIN log : log[i].file = logfile /\ a \in log[i].tickets
IsPending(a) == \E u \in Threads : pc[u] \in {"sync", "insert"} /\ a \in GroupTickets(u)
MemByElement == \A a : a \in mem <=> InLog(a) /\ ~IsPending(a)

\* The memtable keeps matching its log file.
LEMMA MemStep ==
  WriteInvariant /\ LogInvariant /\ MemMatchesLog /\ [Next]_vars => MemMatchesLog'
<1> SUFFICES ASSUME WriteInvariant, LogInvariant, MemMatchesLog, [Next]_vars, ~EnvErrors
             PROVE  MemMatchesLog'
  BY Zenon DEF MemMatchesLog
<1> USE DEF WriteInvariant, LogInvariant
<1>1. MemByElement
  <2> DEFINE logged  == UNION {log[i].tickets : i \in {j \in DOMAIN log : log[j].file = logfile}}
             pending == UNION {GroupTickets(t) :
                                 t \in {u \in Threads : pc[u] \in {"sync", "insert"}}}
  <2>1. mem = logged \ pending BY Zenon DEF MemMatchesLog
  <2>2. \A a : a \in logged <=> InLog(a) BY ZenonT(30) DEF InLog
  <2>3. \A a : a \in pending <=> IsPending(a) BY ZenonT(30) DEF IsPending
  <2> HIDE DEF logged, pending
  <2> QED BY <2>1, <2>2, <2>3, Zenon DEF MemByElement
<1>2. SUFFICES MemByElement'
  <2>1. LET logged  == UNION {log[i].tickets : i \in {j \in DOMAIN log : log[j].file = logfile}}
            pending == UNION {GroupTickets(t) :
                                t \in {u \in Threads : pc[u] \in {"sync", "insert"}}}
        IN  (mem = logged \ pending)'
    BY <1>2, SMTT(60) DEF MemByElement, InLog, IsPending
  <2> QED BY <2>1, Zenon DEF MemMatchesLog
<1>3. {"sync", "insert"} \subseteq Logging /\ {"sync", "insert"} \subseteq Leads
  BY Zenon DEF Logging, Appended, Leads
<1>4. ASSUME UNCHANGED <<log, logfile, mem>>, \A a : IsPending(a)' <=> IsPending(a)
      PROVE  MemByElement'
  BY <1>1, <1>4, ZenonT(30) DEF MemByElement, InLog
<1>5. CASE Quiet
  <2>1. \A u \in Threads :
          /\ pc'[u] \in {"sync", "insert"} <=> pc[u] \in {"sync", "insert"}
          /\ pc[u] \in {"sync", "insert"} => GroupTickets(u)' = GroupTickets(u)
    <3>1. \A u \in Threads : pc'[u] \in {"sync", "insert"} <=> pc[u] \in {"sync", "insert"}
      BY <1>3, <1>5, ZenonT(30) DEF Quiet
    <3>2. \A u \in Threads : pc[u] \in {"sync", "insert"} => GroupTickets(u)' = GroupTickets(u)
      BY <1>3, <1>5, GroupStays, Zenon
    <3> QED BY <3>1, <3>2, Zenon
  <2>2. \A a : IsPending(a)' <=> IsPending(a) BY <2>1, ZenonT(30) DEF IsPending
  <2> QED BY <1>4, <1>5, <2>2, Zenon DEF Quiet
<1>6. ASSUME NEW t \in Threads, Entering(t) \/ Leaving(t) PROVE MemByElement'
  <2>1. /\ UNCHANGED <<log, logfile, mem>> /\ pc[t] \notin {"sync", "insert"}
        /\ pc'[t] \notin {"sync", "insert"} /\ \A u \in Threads \ {t} : pc'[u] = pc[u]
    BY <1>6, ZenonT(30) DEF Entering, Leaving
  <2>2. \A u \in Threads : pc[u] \in {"sync", "insert"} => GroupTickets(u)' = GroupTickets(u)
    BY <1>3, <1>6, GroupStays, Zenon
  <2>3. \A a : IsPending(a)' <=> IsPending(a) BY <2>1, <2>2, ZenonT(30) DEF IsPending
  <2> QED BY <1>4, <2>1, <2>3, Zenon
<1>7. ASSUME NEW t \in Threads, pc[t] \in Leads
      PROVE  \A u \in Threads \ {t} : pc[u] \notin {"sync", "insert"}
  BY <1>3, <1>7, SoleLeader, Zenon
<1>8. ASSUME NEW t \in Threads, Closing(t) \/ Publishing(t) \/ Popping(t) PROVE MemByElement'
  <2>1. /\ UNCHANGED <<log, logfile, mem>> /\ pc[t] \in Leads /\ pc[t] \notin {"sync", "insert"}
        /\ pc'[t] \notin {"sync", "insert"} /\ \A u \in Threads \ {t} : pc'[u] = pc[u]
    BY <1>8, LogLabels, ZenonT(30) DEF Closing, Publishing, Popping, Moves
  <2>2. \A a : ~IsPending(a)' /\ ~IsPending(a) BY <1>7, <2>1, ZenonT(30) DEF IsPending
  <2> QED BY <1>4, <2>1, <2>2, Zenon
<1>9. ASSUME NEW t \in Threads, Switching(t) PROVE MemByElement'
  <2>1. log' = log /\ logfile' = next_file /\ mem' = {} BY <1>9, Zenon DEF Switching
  <2>2. \A i \in DOMAIN log : log[i].file # next_file
    <3>1. logfile \in Nat /\ next_file \in Nat /\ \A i \in DOMAIN log : log[i].file \in Nat
      BY PathTypes, FieldTypes, Zenon
    <3> QED BY <3>1 DEF LogFilesInOrder
  <2> QED BY <2>1, <2>2, Zenon DEF MemByElement, InLog
<1>10. ASSUME NEW t \in Threads, Adding(t) PROVE MemByElement'
  <2>1. /\ log' = Append(log, LogRecord(t)) /\ pc'[t] \in {"sync", "insert"} /\ pc[t] = "log"
        /\ pc[t] \in Leads /\ UNCHANGED <<mem, logfile>> /\ Moves(t)
        /\ \A u \in Threads \ {t} : pc'[u] = pc[u]
    BY <1>10, Zenon DEF Adding, Moves
  <2>2. GroupTickets(t)' = GroupTickets(t) BY <2>1, GroupStays, Zenon
  <2>3. \A a : ~IsPending(a) BY <1>7, <2>1, ZenonT(30) DEF IsPending
  <2>4. \A a : IsPending(a)' <=> a \in GroupTickets(t)
    BY <1>7, <2>1, <2>2, ZenonT(30) DEF IsPending
  <2>5. LogRecord(t).file = logfile /\ LogRecord(t).tickets = GroupTickets(t) BY Zenon DEF LogRecord
  <2>6. \A a : InLog(a)' <=> InLog(a) \/ a \in GroupTickets(t)
    <3>1. /\ log'[Len(log')] = LogRecord(t) /\ Len(log') \in DOMAIN log'
          /\ \A i \in DOMAIN log : i \in DOMAIN log' /\ log'[i] = log[i]
          /\ \A i \in DOMAIN log' : i \in DOMAIN log \/ i = Len(log')
      BY <2>1, Appending, Zenon
    <3>2. ASSUME NEW a, InLog(a)' PROVE InLog(a) \/ a \in GroupTickets(t)
      BY <2>1, <2>5, <3>1, <3>2, SMTT(60) DEF InLog
    <3>3. ASSUME NEW a, InLog(a) PROVE InLog(a)' BY <2>1, <3>1, <3>3, ZenonT(30) DEF InLog
    <3>4. ASSUME NEW a \in GroupTickets(t) PROVE InLog(a)'
      BY <2>1, <2>5, <3>1, <3>4, ZenonT(30) DEF InLog
    <3> QED BY <3>2, <3>3, <3>4, Zenon
  <2>7. \A a : InLog(a) => a \notin GroupTickets(t)
    <3>1. \A i \in DOMAIN log : \A a \in log[i].tickets, b \in GroupTickets(t) : a < b
      BY <2>1, FreshGroup, Zenon
    <3>2. \A i \in DOMAIN log : \A a \in log[i].tickets : ~(a < a)
      <4>1. Tickets \subseteq Int BY BoundAssumption DEF Tickets
      <4>2. \A i \in DOMAIN log : \A a \in log[i].tickets : a \in Int
        BY <4>1, PathTypes, FieldTypes, Zenon
      <4> QED BY <4>2
    <3> QED BY <3>1, <3>2, Zenon DEF InLog
  <2> HIDE DEF InLog, IsPending
  <2> QED BY <1>1, <2>1, <2>3, <2>4, <2>6, <2>7, ZenonT(30) DEF MemByElement
<1>11. ASSUME NEW t \in Threads, Syncing(t) PROVE MemByElement'
  <2>1. /\ DOMAIN log' = DOMAIN log /\ pc[t] = "sync" /\ pc'[t] = "insert" /\ Moves(t)
        /\ UNCHANGED <<mem, logfile>> /\ \A u \in Threads \ {t} : pc'[u] = pc[u]
        /\ \A i \in DOMAIN log : log'[i].file = log[i].file /\ log'[i].tickets = log[i].tickets
    BY <1>11, ZenonT(30) DEF Syncing, Moves
  <2>2. \A u \in Threads : pc[u] \in {"sync", "insert"} => GroupTickets(u)' = GroupTickets(u)
    BY <1>3, <2>1, GroupStays, Zenon
  <2>3. \A u \in Threads : pc'[u] \in {"sync", "insert"} <=> pc[u] \in {"sync", "insert"}
    BY <2>1, ZenonT(30)
  <2>4. \A a : IsPending(a)' <=> IsPending(a) BY <2>2, <2>3, ZenonT(30) DEF IsPending
  <2>5. \A a : InLog(a)' <=> InLog(a) BY <2>1, ZenonT(30) DEF InLog
  <2> QED BY <1>1, <2>1, <2>4, <2>5, ZenonT(30) DEF MemByElement
<1>12. ASSUME NEW t \in Threads, Inserting(t) PROVE MemByElement'
  <2>1. /\ pc[t] = "insert" /\ pc[t] \in Leads /\ pc'[t] = "logged"
        /\ UNCHANGED <<log, logfile>> /\ mem' = mem \cup GroupTickets(t)
        /\ \A u \in Threads \ {t} : pc'[u] = pc[u]
    BY <1>12, Zenon DEF Inserting, Moves
  <2>2. \A a : ~IsPending(a)' BY <1>7, <2>1, ZenonT(30) DEF IsPending
  <2>3. \A a : IsPending(a) <=> a \in GroupTickets(t) BY <1>7, <2>1, ZenonT(30) DEF IsPending
  <2>4. \A a : InLog(a)' <=> InLog(a) BY <2>1, Zenon DEF InLog
  <2>5. \A a \in GroupTickets(t) : InLog(a)
    <3>1. /\ log # <<>> /\ log[Len(log)].file = logfile
          /\ log[Len(log)].tickets = GroupTickets(t)
      BY <2>1, Zenon DEF RecordPending
    <3>2. Len(log) \in DOMAIN log BY <3>1, PathTypes, SMTT(30)
    <3> QED BY <3>1, <3>2, Zenon DEF InLog
  <2> QED BY <1>1, <2>1, <2>2, <2>3, <2>4, <2>5, ZenonT(30) DEF MemByElement
<1> QED BY <1>5, <1>6, <1>8, <1>9, <1>10, <1>11, <1>12, LogSteps, Zenon DEF LogStep

\* The invariant of the log holds with that of the queue: the queue is in the order of
\* its tickets, the leader's numbers are reserved, and what it promises is logged.
THEOREM LogInvariantHolds == Spec => []LogInvariant
<1>1. Init => LogInvariant BY LogInit, Zenon
<1>2. WriteInvariant /\ LogInvariant /\ [Next]_vars => LogInvariant' BY LogStepKeeps, Zenon
<1> QED BY <1>1, <1>2, WritePathInvariant, PTL DEF Spec

\* No two records of the logs share a sequence number or a write, and they are in the
\* order in which DBImpl::Write queued their batches, also after failed writes.
THEOREM LogStaysSequenced == Spec => []LogIsSequenced
<1>1. Init => LogIsSequenced BY LogInit, Zenon
<1>2. WriteInvariant /\ LogInvariant /\ LogIsSequenced /\ [Next]_vars => LogIsSequenced'
  BY SequencedStep, Zenon
<1> QED BY <1>1, <1>2, WritePathInvariant, LogInvariantHolds, PTL DEF Spec

\* BuildBatchGroup's "Do not include a sync write into a batch handled by a non-sync
\* write" is enough: a sync write that returned OK, as a leader or as a follower, is
\* in a record its log file was synced after.
THEOREM AcknowledgedSyncIsSynced == Spec => []AckedSyncIsSynced
<1>1. Init => AckedSyncIsSynced BY LogInit, Zenon
<1>2. WriteInvariant /\ LogInvariant /\ AckedSyncIsSynced /\ [Next]_vars => AckedSyncIsSynced'
  BY AckedSyncStep, Zenon
<1> QED BY <1>1, <1>2, WritePathInvariant, LogInvariantHolds, PTL DEF Spec

\* Without I/O errors a reader that takes LastSequence() finds every record that begins
\* at or below it, although Write inserts without mutex_.
THEOREM PublishedStaysReadable == Spec => []PublishedIsReadable
<1>1. WriteInvariant /\ LogInvariant => PublishedIsReadable
  <2> SUFFICES ASSUME WriteInvariant, LogInvariant, ~EnvErrors, NEW i \in DOMAIN log,
                      log[i].first <= last_seq
               PROVE  log[i].tickets \subseteq Readable
    BY Zenon DEF PublishedIsReadable
  <2> USE DEF WriteInvariant, LogInvariant
  <2>1. ASSUME NEW t \in Threads, pc[t] \in {"sync", "insert"}, i = Len(log) PROVE FALSE
    <3>1. pc[t] \in Logging BY <2>1, Zenon DEF Logging, Appended
    <3>2. log[i].first = last_seq + 1
      BY <2>1, <3>1, Zenon DEF RecordPending, NumbersReserved
    <3> QED BY <3>2, PathTypes
  <2> QED BY <2>1, Zenon DEF RecordsInserted
<1> QED BY <1>1, WritePathInvariant, LogInvariantHolds, PTL

\* Without I/O errors mem_ holds what the records of the current log file hold, but for
\* the record being inserted: a memtable switch takes a new log file with it.
THEOREM MemStaysLogged == Spec => []MemMatchesLog
<1>1. Init => MemMatchesLog BY LogInit, Zenon
<1>2. WriteInvariant /\ LogInvariant /\ MemMatchesLog /\ [Next]_vars => MemMatchesLog'
  BY MemStep, Zenon
<1> QED BY <1>1, <1>2, WritePathInvariant, LogInvariantHolds, PTL DEF Spec
=============================================================================
