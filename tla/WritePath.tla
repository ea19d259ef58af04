------------------------------ MODULE WritePath ------------------------------
(***************************************************************************)
(* The write path of DBImpl and the background thread it hands work to:    *)
(* DBImpl::Write with its queue of Writers and group commit,               *)
(* MakeRoomForWrite with the memtable switch, the scheduling of the        *)
(* background thread, CompactMemTable, the skeleton of DoCompactionWork,   *)
(* manual compactions and the destructor.                                  *)
(*                                                                         *)
(* One action is one stretch of code between two points where mutex_ is    *)
(* taken or released, or one branch of a loop that holds it.  Condition    *)
(* variables are modelled without spurious wakeups: a thread that waits    *)
(* runs again only after a Signal, so a lost wakeup is a blocked thread.   *)
(*                                                                         *)
(* Data: a batch is its size and its number of entries; a write is known   *)
(* by the ticket it draws when it enters the queue; the memtables, the log *)
(* and the tables hold tickets; level 0 is a number of files.              *)
(***************************************************************************)
EXTENDS Integers, Sequences

CONSTANTS
  Writers,            \* client threads that call Write with a batch
  Compactors,         \* client threads that call CompactRange
  Batches,            \* the batches clients write: records [size, count]
  MaxTickets,         \* bound: calls of Write in a behaviour
  MaxKeys,            \* bound: entries a compaction reads
  MaxRounds,          \* bound: manual compactions one CompactRange needs
  MaxSamples,         \* bound: times reads nominate a file for compaction
  MaxCascade,         \* bound: compactions that one new file above level 0 sets off
  WriteBufferSize,    \* options_.write_buffer_size
  SmallBatch,         \* 128 << 10 in BuildBatchGroup
  MaxGroupSize,       \* 1 << 20 in BuildBatchGroup
  CompactionTrigger,  \* config::kL0_CompactionTrigger
  SlowdownTrigger,    \* config::kL0_SlowdownWritesTrigger
  StopTrigger,        \* config::kL0_StopWritesTrigger
  SeekCompaction,     \* options_.opEp_.seek_compaction_
  ForceDisable,       \* options_.opEp_.force_disable_compaction
  EnvErrors           \* whether the environment may report I/O errors

Threads == Writers \cup Compactors
Bg   == "bg"       \* the environment's background thread
Dtor == "dtor"     \* the thread that destroys the DB
Free == "free"     \* mutex_ is not held, or manual_compaction_ is NULL

ASSUME ThreadsAssumption == {Bg, Dtor, Free} \cap Threads = {}
ASSUME TriggerAssumption ==
  /\ CompactionTrigger \in Nat /\ SlowdownTrigger \in Nat /\ StopTrigger \in Nat
  /\ 0 < CompactionTrigger /\ CompactionTrigger <= StopTrigger
ASSUME BoundAssumption ==
  /\ MaxTickets \in Nat /\ MaxKeys \in Nat /\ MaxRounds \in Nat /\ MaxSamples \in Nat
  /\ MaxCascade \in Nat
ASSUME OptionAssumption ==
  /\ SeekCompaction \in BOOLEAN /\ ForceDisable \in BOOLEAN /\ EnvErrors \in BOOLEAN
  /\ WriteBufferSize \in Nat /\ SmallBatch \in Nat /\ MaxGroupSize \in Nat
ASSUME BatchAssumption ==
  Batches \subseteq [size : Nat \ {0}, count : Nat]

Tickets == 1..MaxTickets
NullBatch == [size |-> 0, count |-> 0]      \* my_batch == NULL

VARIABLES
  mutex,       \* the holder of mutex_
  pc,          \* where each client thread is
  w,           \* each thread's Writer object and its locals in Write
  writers,     \* writers_
  signaled,    \* threads whose wait on a condition variable has been signalled
  tickets,     \* calls of Write so far
  mem, usage,  \* tickets in mem_ and its ApproximateMemoryUsage
  imm, has_imm,\* tickets in imm_, and whether imm_ is not NULL
  tables,      \* tickets in the tables of the current version
  log,         \* the log records written, oldest first
  logfile,     \* logfile_number_
  next_file,   \* versions_->next_file_number_
  last_seq,    \* versions_->LastSequence()
  bg_error,    \* ~bg_error_.ok()
  l0,          \* NumLevelFiles(0)
  above,       \* 0: no files above level 0; n + 1: files there, and n more compactions
               \* until no level there has a score of 1
  seek,        \* current_->file_to_compact_ != NULL
  scheduled,   \* bg_compaction_scheduled_
  bgpc, comp,  \* where the background thread is, and its Compaction
  manual,      \* manual_compaction_: the thread whose stack holds it
  mc,          \* each thread's ManualCompaction: rounds left, and done
  samples,     \* nominations made by reads so far
  shutdown,    \* shutting_down_, as the progress of the destructor
  acked        \* history: the results Write has returned

writeVars  == <<w, writers, tickets, mem, usage, log, last_seq, acked>>
switchVars == <<imm, has_imm, logfile, next_file>>
levelVars  == <<tables, l0, above, seek, samples>>
bgVars     == <<scheduled, bgpc, comp>>
manualVars == <<manual, mc>>
vars == <<mutex, pc, signaled, bg_error, shutdown,
          writeVars, switchVars, levelVars, bgVars, manualVars>>

Idle == [ticket |-> 0, batch |-> NullBatch, sync |-> FALSE, done |-> FALSE,
         ok |-> TRUE, force |-> FALSE, delay |-> FALSE, group |-> 0,
         size |-> 0, count |-> 0, first |-> 0, last |-> 0]
NoCompaction == [level |-> 0, inputs |-> 0, keys |-> 0, ok |-> TRUE,
                 manual |-> FALSE, nested |-> FALSE]

\* A database that was just created: level 0 has only what the write path brings there.
Init ==
  /\ mutex = Free /\ signaled = {} /\ bg_error = FALSE /\ shutdown = "open"
  /\ pc = [t \in Threads |-> "idle"]
  /\ w = [t \in Threads |-> Idle]
  /\ writers = <<>> /\ tickets = 0 /\ acked = {}
  /\ mem = {} /\ usage = 0 /\ imm = {} /\ has_imm = FALSE /\ tables = {}
  /\ log = <<>> /\ logfile = 3 /\ next_file = 4 /\ last_seq = 0
  /\ l0 = 0 /\ above = 0 /\ seek = FALSE
  /\ scheduled = FALSE /\ bgpc = "idle" /\ comp = NoCompaction
  /\ manual = Free /\ mc = [t \in Threads |-> [left |-> 0, done |-> FALSE]]
  /\ samples = 0

-----------------------------------------------------------------------------
(* Helpers shared by the client threads and the background thread.         *)

BgCvClients == {t \in Threads : pc[t] \in {"roomcv", "memcv", "manualcv"}}
BgWaitersOne ==
  IF shutdown = "wait" THEN {Dtor}
  ELSE IF BgCvClients = {} THEN {} ELSE {CHOOSE t \in BgCvClients : TRUE}

\* The threads inside bg_cv_.Wait().
BgWaiters == BgCvClients \cup (IF shutdown = "wait" THEN {Dtor} ELSE {})

\* bg_cv_.SignalAll()
SignalAll == signaled' = signaled \cup BgWaiters

\* VersionSet::NeedsCompaction, for the version with these files.
NeedsCompaction(n, a, s) == n >= CompactionTrigger \/ a > 1 \/ s

ScheduleWithoutImm(sched, has, man, needs) ==
  sched \/ (shutdown = "open" /\ ~bg_error /\ (man # Free \/ needs))
ScheduleInShutdown(sched, has, man, needs) ==
  sched \/ (~bg_error /\ (has \/ man # Free \/ needs))

\* MaybeScheduleCompaction: whether the background call is scheduled after it,
\* given what bg_compaction_scheduled_, imm_, manual_compaction_ and
\* NeedsCompaction() are when it runs.
MaybeSchedule(sched, has, man, needs) ==
  \/ sched
  \/ shutdown = "open" /\ ~bg_error /\ (has \/ man # Free \/ needs)

Goto(t, label) == pc' = [pc EXCEPT ![t] = label]

-----------------------------------------------------------------------------
(* DBImpl::Write                                                           *)

\* Write, up to the wait loop: make a Writer, take mutex_, join the queue.
Enter(t, b, sync) ==
  /\ pc[t] = "idle" /\ shutdown = "open" /\ tickets < MaxTickets
  /\ mutex = Free
  /\ mutex' = t
  /\ tickets' = tickets + 1
  /\ w' = [w EXCEPT ![t] = [Idle EXCEPT !.ticket = tickets + 1, !.batch = b,
                                        !.sync = sync]]
  /\ writers' = Append(writers, t)
  /\ Goto(t, "check")
  /\ UNCHANGED <<signaled, bg_error, shutdown, mem, usage, log, last_seq, acked,
                 switchVars, levelVars, bgVars>>

\* Put, Delete or Write called with a batch.
BeginWrite(t) ==
  /\ t \in Writers
  /\ \E b \in Batches, sync \in BOOLEAN : Enter(t, b, sync)
  /\ UNCHANGED manualVars

\* CompactRange: it first calls Write with a NULL batch, through TEST_CompactMemTable.
\* Its calls of TEST_CompactRange, one level after the other, are one ManualCompaction
\* that needs some number of rounds: each round picks its level anew.
BeginCompactRange(t) ==
  /\ t \in Compactors
  /\ Enter(t, NullBatch, FALSE)
  /\ \E n \in 0..MaxRounds : mc' = [mc EXCEPT ![t] = [left |-> n, done |-> FALSE]]
  /\ UNCHANGED manual

\* The exit of the wait loop that makes this writer the leader.
AnyTurn(t) == TRUE
MyTurn(t) == t = Head(writers)

\* while (!w.done && &w != writers_.front()) w.cv.Wait()
WaitTurn(t) ==
  /\ pc[t] = "check" /\ mutex = t
  /\ ~w[t].done /\ ~MyTurn(t)
  /\ mutex' = Free
  /\ signaled' = signaled \ {t}
  /\ Goto(t, "cv")
  /\ UNCHANGED <<bg_error, shutdown, writeVars, switchVars, levelVars, bgVars,
                 manualVars>>

\* The writer at the front of the queue enters MakeRoomForWrite(my_batch == NULL).
Lead(t) ==
  /\ pc[t] = "check" /\ mutex = t
  /\ ~w[t].done /\ MyTurn(t)
  /\ w' = [w EXCEPT ![t].force = (w[t].batch = NullBatch),
                    ![t].delay = (w[t].batch # NullBatch),
                    ![t].group = 1, ![t].size = w[t].batch.size,
                    ![t].count = w[t].batch.count]
  /\ Goto(t, "room")
  /\ UNCHANGED <<mutex, signaled, bg_error, shutdown, writers, tickets, mem, usage,
                 log, last_seq, acked, switchVars, levelVars, bgVars, manualVars>>

\* A thread that was signalled, slept or ran without mutex_ takes it again and
\* goes on at the test of its loop.
Waiting == {"cv", "roomcv", "memcv", "manualcv"}
Unlocked == {"sleep", "memlock", "manlock"}
ResumeAt(label) ==
  IF label = "cv" THEN "check"
  ELSE IF label \in {"roomcv", "sleep"} THEN "room"
       ELSE IF label \in {"memcv", "memlock"} THEN "mem" ELSE "manual"

Resume(t) ==
  /\ pc[t] \in Unlocked \/ (pc[t] \in Waiting /\ t \in signaled)
  /\ mutex = Free
  /\ mutex' = t
  /\ signaled' = signaled \ {t}
  /\ Goto(t, ResumeAt(pc[t]))
  /\ UNCHANGED <<bg_error, shutdown, writeVars, switchVars, levelVars, bgVars,
                 manualVars>>

\* Write returns: mutex_ is released, and CompactRange goes on after its call.
\* TEST_CompactMemTable waits only when Write returned OK.
ReturnLabel(t, ok) ==
  IF t \in Compactors THEN IF ok THEN "memlock" ELSE "manlock" ELSE "idle"

Ack(t, ok) == [ticket |-> w[t].ticket, ok |-> ok, sync |-> w[t].sync,
               null |-> w[t].batch = NullBatch]

\* if (w.done) return w.status
ReturnDone(t) ==
  /\ pc[t] = "check" /\ mutex = t
  /\ w[t].done
  /\ mutex' = Free
  /\ acked' = acked \cup {Ack(t, w[t].ok)}
  /\ w' = [w EXCEPT ![t] = Idle]
  /\ Goto(t, ReturnLabel(t, w[t].ok))
  /\ UNCHANGED <<signaled, bg_error, shutdown, writers, tickets, mem, usage, log,
                 last_seq, switchVars, levelVars, bgVars, manualVars>>

-----------------------------------------------------------------------------
(* DBImpl::MakeRoomForWrite, one action per branch of its loop, in order.  *)

InRoom(t) == pc[t] = "room" /\ mutex = t

\* Yield previous error.
RoomError(t) ==
  /\ InRoom(t)
  /\ bg_error
  /\ w' = [w EXCEPT ![t].ok = FALSE]
  /\ Goto(t, "pop")
  /\ UNCHANGED <<mutex, signaled, bg_error, shutdown, writers, tickets, mem, usage,
                 log, last_seq, acked, switchVars, levelVars, bgVars, manualVars>>

MustDelay(t) == w[t].delay /\ l0 >= SlowdownTrigger

\* Sleep one millisecond without mutex_, at most once per write.
RoomDelay(t) ==
  /\ InRoom(t)
  /\ ~bg_error /\ MustDelay(t)
  /\ mutex' = Free
  /\ w' = [w EXCEPT ![t].delay = FALSE]
  /\ Goto(t, "sleep")
  /\ UNCHANGED <<signaled, bg_error, shutdown, writers, tickets, mem, usage, log,
                 last_seq, acked, switchVars, levelVars, bgVars, manualVars>>

HasRoom(t) == ~w[t].force /\ usage <= WriteBufferSize

\* There is room in the current memtable.  A NULL batch has nothing to log.
RoomFound(t) ==
  /\ InRoom(t)
  /\ ~bg_error /\ ~MustDelay(t) /\ HasRoom(t)
  /\ Goto(t, IF w[t].batch = NullBatch THEN "pop" ELSE "build")
  /\ UNCHANGED <<mutex, signaled, bg_error, shutdown, writeVars, switchVars,
                 levelVars, bgVars, manualVars>>

\* The previous memtable is still being compacted, or level 0 is full: wait.
RoomWait(t) ==
  /\ InRoom(t)
  /\ ~bg_error /\ ~MustDelay(t) /\ ~HasRoom(t)
  /\ has_imm \/ l0 >= StopTrigger
  /\ mutex' = Free
  /\ signaled' = signaled \ {t}
  /\ Goto(t, "roomcv")
  /\ UNCHANGED <<bg_error, shutdown, writeVars, switchVars, levelVars, bgVars,
                 manualVars>>

CanSwitchOverImm(t) ==
  InRoom(t) /\ ~bg_error /\ ~MustDelay(t) /\ ~HasRoom(t) /\ l0 < StopTrigger
CanSwitchOverL0(t) ==
  InRoom(t) /\ ~bg_error /\ ~MustDelay(t) /\ ~HasRoom(t) /\ ~has_imm

\* None of the branches before the last one applies.
CanSwitch(t) ==
  /\ InRoom(t)
  /\ ~bg_error /\ ~MustDelay(t) /\ ~HasRoom(t)
  /\ ~has_imm /\ l0 < StopTrigger

\* The log that goes with the new memtable.
SameLog == logfile
NewLog == next_file

\* Switch to a new log file and memtable and trigger compaction of the old one.
RoomSwitch(t) ==
  /\ CanSwitch(t)
  /\ logfile' = NewLog
  /\ next_file' = next_file + 1
  /\ imm' = mem /\ has_imm' = TRUE
  /\ mem' = {} /\ usage' = 0
  /\ w' = [w EXCEPT ![t].force = FALSE]
  /\ scheduled' = MaybeSchedule(scheduled, TRUE, manual,
                                NeedsCompaction(l0, above, seek))
  /\ UNCHANGED <<mutex, pc, signaled, bg_error, shutdown, writers, tickets, log,
                 last_seq, acked, levelVars, bgpc, comp, manualVars>>

\* The new log file cannot be created: its number is given back.
RoomSwitchFails(t) ==
  /\ EnvErrors
  /\ CanSwitch(t)
  /\ w' = [w EXCEPT ![t].ok = FALSE]
  /\ Goto(t, "pop")
  /\ UNCHANGED <<mutex, signaled, bg_error, shutdown, writers, tickets, mem, usage,
                 log, last_seq, acked, switchVars, levelVars, bgVars, manualVars>>

-----------------------------------------------------------------------------
(* Group commit.                                                           *)

\* The tickets whose updates the group brings.
GroupTickets(t) ==
  {w[writers[i]].ticket :
     i \in {j \in 1..w[t].group : w[writers[j]].batch # NullBatch}}

\* Whether the writer after the group fits into it: "limit the growth so we do not
\* slow down the small write too much".
Fits(t, this) ==
  this.batch # NullBatch =>
    w[t].size + this.batch.size <=
      IF w[t].batch.size <= SmallBatch THEN w[t].batch.size + SmallBatch
                                       ELSE MaxGroupSize

JoinsUnsynced(t) ==
  w[t].group < Len(writers) /\ Fits(t, w[writers[w[t].group + 1]])

\* There is a next writer and no break applies to it.
Joins(t) ==
  /\ w[t].group < Len(writers)
  /\ LET this == w[writers[w[t].group + 1]]
     IN  (this.sync => w[t].sync) /\ Fits(t, this)

\* One iteration of the loop of BuildBatchGroup.
JoinGroup(t) ==
  /\ pc[t] = "build" /\ mutex = t
  /\ Joins(t)
  /\ LET this == w[writers[w[t].group + 1]]
     IN  w' = [w EXCEPT ![t].group = @ + 1, ![t].size = @ + this.batch.size,
                        ![t].count = @ + this.batch.count]
  /\ UNCHANGED <<mutex, pc, signaled, bg_error, shutdown, writers, tickets, mem,
                 usage, log, last_seq, acked, switchVars, levelVars, bgVars,
                 manualVars>>

\* The group is complete: it gets its sequence numbers, and mutex_ is released for
\* the log and the memtable.
CloseGroup(t) ==
  /\ pc[t] = "build" /\ mutex = t
  /\ ~Joins(t)
  /\ w' = [w EXCEPT ![t].first = last_seq + 1, ![t].last = last_seq + w[t].count]
  /\ mutex' = Free
  /\ Goto(t, "log")
  /\ UNCHANGED <<signaled, bg_error, shutdown, writers, tickets, mem, usage, log,
                 last_seq, acked, switchVars, levelVars, bgVars, manualVars>>

LogRecord(t) == [file |-> logfile, first |-> w[t].first, last |-> w[t].last,
                 tickets |-> GroupTickets(t), synced |-> FALSE]

AddRecordAndPublish(t) ==
  /\ pc[t] = "log"
  /\ log' = Append(log, LogRecord(t)) /\ last_seq' = w[t].last
  /\ Goto(t, IF w[t].sync THEN "sync" ELSE "insert")
  /\ UNCHANGED <<mutex, signaled, bg_error, shutdown, w, writers, tickets, mem, usage,
                 acked, switchVars, levelVars, bgVars, manualVars>>

\* log_->AddRecord.  When it fails the record may still have reached the file.
AddRecord(t) ==
  /\ pc[t] = "log"
  /\ \/ /\ log' = Append(log, LogRecord(t))
        /\ w' = w
        /\ Goto(t, IF w[t].sync THEN "sync" ELSE "insert")
     \/ /\ EnvErrors
        /\ log' \in {log, Append(log, LogRecord(t))}
        /\ w' = [w EXCEPT ![t].ok = FALSE]
        /\ Goto(t, "logged")
  /\ UNCHANGED <<mutex, signaled, bg_error, shutdown, writers, tickets, mem, usage,
                 last_seq, acked, switchVars, levelVars, bgVars, manualVars>>

\* logfile_->Sync(): every record of the current log file is durable.
SyncLog(t) ==
  /\ pc[t] = "sync"
  /\ \/ /\ log' = [i \in DOMAIN log |->
                     [log[i] EXCEPT !.synced = @ \/ log[i].file = logfile]]
        /\ w' = w
        /\ Goto(t, "insert")
     \/ /\ EnvErrors
        /\ w' = [w EXCEPT ![t].ok = FALSE]
        /\ Goto(t, "syncfail")
        /\ UNCHANGED log
  /\ UNCHANGED <<mutex, signaled, bg_error, shutdown, writers, tickets, mem, usage,
                 last_seq, acked, switchVars, levelVars, bgVars, manualVars>>

\* WriteBatchInternal::InsertInto(updates, mem_), without mutex_.  It fails only on a
\* malformed batch, and Put, Delete and WriteBatch make none.
InsertInto(t) ==
  /\ pc[t] = "insert"
  /\ mem' = mem \cup GroupTickets(t)
  /\ usage' = usage + w[t].size
  /\ Goto(t, "logged")
  /\ UNCHANGED <<mutex, signaled, bg_error, shutdown, w, writers, tickets, log,
                 last_seq, acked, switchVars, levelVars, bgVars, manualVars>>

PublishedIfOk(t) == IF w[t].ok THEN w[t].last ELSE last_seq

\* What SetLastSequence is given, whatever the outcome of the write was.
Published(t) == w[t].last

\* Take mutex_ again; a failed sync is a background error; then SetLastSequence.
Publish(t) ==
  /\ pc[t] \in {"logged", "syncfail"} /\ mutex = Free
  /\ mutex' = t
  /\ last_seq' = Published(t)
  /\ bg_error' = (bg_error \/ pc[t] = "syncfail")
  /\ IF pc[t] = "syncfail" /\ ~bg_error THEN SignalAll ELSE UNCHANGED signaled
  /\ Goto(t, "pop")
  /\ UNCHANGED <<shutdown, w, writers, tickets, mem, usage, log, acked, switchVars,
                 levelVars, bgVars, manualVars>>

\* The writers of the group that are not the leader.
Followers(t) == {writers[i] : i \in 2..w[t].group}

NobodyNext(rest) == {}

\* The new head of the write queue, which is notified.
NextHead(rest) == IF rest = <<>> THEN {} ELSE {Head(rest)}

\* Pop the group: hand every follower the leader's status and signal it, signal
\* the new head of the queue, return.
Pop(t) ==
  /\ pc[t] = "pop" /\ mutex = t
  /\ LET rest == SubSeq(writers, w[t].group + 1, Len(writers))
     IN  /\ writers' = rest
         /\ signaled' = signaled \cup Followers(t) \cup NextHead(rest)
  /\ w' = [u \in Threads |->
             IF u = t THEN Idle
             ELSE IF u \in Followers(t)
                  THEN [w[u] EXCEPT !.done = TRUE, !.ok = w[t].ok]
                  ELSE w[u]]
  /\ acked' = acked \cup {Ack(t, w[t].ok)}
  /\ mutex' = Free
  /\ Goto(t, ReturnLabel(t, w[t].ok))
  /\ UNCHANGED <<bg_error, shutdown, tickets, mem, usage, log, last_seq, switchVars,
                 levelVars, bgVars, manualVars>>

-----------------------------------------------------------------------------
(* TEST_CompactMemTable and TEST_CompactRange, after the call of Write.     *)

\* while (imm_ != NULL && bg_error_.ok()) bg_cv_.Wait()
WaitFlushed(t) ==
  /\ pc[t] = "mem" /\ mutex = t
  /\ mutex' = Free
  /\ IF has_imm /\ ~bg_error
     THEN signaled' = signaled \ {t} /\ Goto(t, "memcv")
     ELSE UNCHANGED signaled /\ Goto(t, "manlock")
  /\ UNCHANGED <<bg_error, shutdown, writeVars, switchVars, levelVars, bgVars,
                 manualVars>>

ManualNeverDone(t) == shutdown = "open" /\ ~bg_error

ManualGoesOn(t) == ~mc[t].done /\ shutdown = "open" /\ ~bg_error

\* manual_compaction_ is idle: register mine and have it scheduled.
RegisterManual(t) ==
  /\ pc[t] = "manual" /\ mutex = t
  /\ ManualGoesOn(t) /\ manual = Free
  /\ manual' = t
  /\ scheduled' = MaybeSchedule(scheduled, has_imm, t, NeedsCompaction(l0, above, seek))
  /\ UNCHANGED <<mutex, pc, signaled, bg_error, shutdown, writeVars, switchVars,
                 levelVars, bgpc, comp, mc>>

\* Running either my compaction or another compaction: wait.
WaitManual(t) ==
  /\ pc[t] = "manual" /\ mutex = t
  /\ ManualGoesOn(t) /\ manual # Free
  /\ mutex' = Free
  /\ signaled' = signaled \ {t}
  /\ Goto(t, "manualcv")
  /\ UNCHANGED <<bg_error, shutdown, writeVars, switchVars, levelVars, bgVars,
                 manualVars>>

\* Leave TEST_CompactRange, cancelling my manual compaction if it is registered.
LeaveManual(t) ==
  /\ pc[t] = "manual" /\ mutex = t
  /\ ~ManualGoesOn(t)
  /\ manual' = IF manual = t THEN Free ELSE manual
  /\ mutex' = Free
  /\ mc' = [mc EXCEPT ![t] = [left |-> 0, done |-> FALSE]]
  /\ Goto(t, "idle")
  /\ UNCHANGED <<signaled, bg_error, shutdown, writeVars, switchVars, levelVars,
                 bgVars>>

-----------------------------------------------------------------------------
(* The background thread.                                                  *)

\* RecordBackgroundError: the first error wakes everybody up.
RecordBackgroundError ==
  /\ bg_error' = TRUE
  /\ IF bg_error THEN UNCHANGED signaled ELSE SignalAll

\* BackgroundCall takes mutex_.
BackgroundCall ==
  /\ scheduled /\ bgpc = "idle" /\ mutex = Free
  /\ mutex' = Bg /\ bgpc' = "begin"
  /\ UNCHANGED <<pc, signaled, bg_error, shutdown, writeVars, switchVars, levelVars,
                 scheduled, comp, manualVars>>

\* No background work when shutting down or after a background error.
SkipWork ==
  /\ bgpc = "begin" /\ mutex = Bg
  /\ shutdown # "open" \/ bg_error
  /\ bgpc' = "end"
  /\ UNCHANGED <<mutex, pc, signaled, bg_error, shutdown, writeVars, switchVars,
                 levelVars, scheduled, comp, manualVars>>

BeginWork == bgpc = "begin" /\ mutex = Bg /\ shutdown = "open" /\ ~bg_error

\* CompactMemTable and WriteLevel0Table up to BuildTable, which runs unlocked.
StartFlush ==
  /\ BeginWork /\ has_imm
  /\ next_file' = next_file + 1
  /\ mutex' = Free /\ bgpc' = "table"
  /\ UNCHANGED <<pc, signaled, bg_error, shutdown, writeVars, imm, has_imm, logfile,
                 levelVars, scheduled, comp, manualVars>>

CompactionsOver(zero, above0, man) ==
  [level : (IF zero THEN {0} ELSE {}) \cup (IF above0 THEN {1} ELSE {}),
   inputs : 0..(l0 + 1), keys : 1..MaxKeys, ok : {TRUE}, manual : {man}, nested : {FALSE}]

\* The compactions VersionSet may set up at level 0 (some of its files are
\* inputs) and at the levels above.
CompactionsAt(zero, above0, man) ==
  [level : (IF zero THEN {0} ELSE {}) \cup (IF above0 THEN {1} ELSE {}),
   inputs : 0..l0, keys : 1..MaxKeys, ok : {TRUE}, manual : {man}, nested : {FALSE}]

StartCompaction(c) ==
  /\ c.level = 0 <=> c.inputs > 0
  /\ comp' = c
  /\ mutex' = Free /\ bgpc' = "compact"

\* A manual compaction; VersionSet::CompactRange returns NULL when no file of the
\* range is left.
StartManual ==
  /\ BeginWork /\ ~has_imm /\ manual # Free
  /\ \/ /\ mc[manual].left = 0 \/ (l0 = 0 /\ above = 0)
        /\ mc' = [mc EXCEPT ![manual].done = TRUE]
        /\ manual' = Free
        /\ bgpc' = "end"
        /\ UNCHANGED <<mutex, comp>>
     \/ /\ mc[manual].left > 0
        /\ \E c \in CompactionsAt(l0 > 0, above > 0, TRUE) : StartCompaction(c)
        /\ UNCHANGED manualVars
  /\ UNCHANGED <<pc, signaled, bg_error, shutdown, writeVars, switchVars, levelVars,
                 scheduled>>

\* size_compaction and seek_compaction of PickCompaction.
SizeCompaction == ~ForceDisable /\ (l0 >= CompactionTrigger \/ above > 1)
SeekIgnored    == FALSE
SeekCompacts   == ~ForceDisable /\ seek /\ SeekCompaction

\* PickCompaction: a level whose score is at least 1, else the file that reads
\* nominated if the option allows it, else nothing to do.
PickCompaction ==
  /\ BeginWork /\ ~has_imm /\ manual = Free
  /\ \/ /\ SizeCompaction
        /\ \E c \in CompactionsAt(l0 >= CompactionTrigger, above > 1, FALSE) :
             StartCompaction(c)
     \/ /\ ~SizeCompaction /\ SeekCompacts
        /\ \E c \in CompactionsAt(l0 > 0, above > 0, FALSE) : StartCompaction(c)
     \/ /\ ~SizeCompaction /\ ~SeekCompacts
        /\ bgpc' = "end"
        /\ UNCHANGED <<mutex, comp>>
  /\ UNCHANGED <<pc, signaled, bg_error, shutdown, writeVars, switchVars, levelVars,
                 scheduled, manualVars>>

\* One entry of the loop of DoCompactionWork; what happens to it is left to Levels.
CompactKey ==
  /\ bgpc = "compact" /\ comp.keys > 0 /\ shutdown = "open"
  /\ comp' = [comp EXCEPT !.keys = @ - 1]
  /\ UNCHANGED <<mutex, pc, signaled, bg_error, shutdown, writeVars, switchVars,
                 levelVars, scheduled, bgpc, manualVars>>

\* The loop prioritizes immutable compaction work: it sees has_imm_, takes mutex_
\* and runs CompactMemTable, also after a background error.
CompactKeyFlush ==
  /\ bgpc = "compact" /\ comp.keys > 0 /\ shutdown = "open"
  /\ has_imm /\ mutex = Free
  /\ comp' = [comp EXCEPT !.keys = @ - 1, !.nested = TRUE]
  /\ next_file' = next_file + 1
  /\ bgpc' = "table"
  /\ UNCHANGED <<mutex, pc, signaled, bg_error, shutdown, writeVars, imm, has_imm,
                 logfile, levelVars, scheduled, manualVars>>

\* CompactMemTable returns: to the loop of DoCompactionWork, which wakes up
\* MakeRoomForWrite and releases mutex_, or to BackgroundCall.
FlushReturns(failed) ==
  IF comp.nested
  THEN /\ SignalAll
       /\ bg_error' = (bg_error \/ failed)
       /\ comp' = [comp EXCEPT !.nested = FALSE]
       /\ bgpc' = "compact"
       /\ UNCHANGED mutex
  ELSE /\ IF failed THEN RecordBackgroundError ELSE UNCHANGED <<bg_error, signaled>>
       /\ mutex' = Bg /\ bgpc' = "end"
       /\ UNCHANGED comp

\* BuildTable has run: CompactMemTable goes on to LogAndApply, or fails.
BuildTable ==
  /\ bgpc = "table" /\ mutex = Free
  /\ \/ /\ shutdown = "open"
        /\ bgpc' = "manifest"
        /\ UNCHANGED <<mutex, signaled, bg_error, comp>>
     \/ /\ EnvErrors \/ shutdown # "open"
        /\ FlushReturns(TRUE)
  /\ UNCHANGED <<pc, shutdown, writeVars, switchVars, levelVars, scheduled,
                 manualVars>>

\* Files arrive above level 0.  VersionSet::Finalize may find a level there too big, and
\* after its compaction the same level or the next one; the last has no score.
SomeAbove == IF above = 0 THEN 1 ELSE above
MoreAbove == above' \in SomeAbove..(SomeAbove + MaxCascade)

\* A compaction moves files to the next level: one that its score asked for is one of those
\* to come, any other may relieve a level or overfill one.
CompactedAbove ==
  IF comp.level > 0 /\ ~comp.manual /\ above > 1
  THEN above' = above - 1
  ELSE above' \in 1..(SomeAbove + MaxCascade)

\* LogAndApply has written the MANIFEST record: the table replaces imm_, at level
\* 0 or, from PickLevelForMemTableOutput, above it.  An empty memtable makes no
\* table.  A new version starts without file_to_compact_.
InstallFlush ==
  /\ bgpc = "manifest" /\ mutex = Free
  /\ \/ /\ tables' = tables \cup imm
        /\ imm' = {} /\ has_imm' = FALSE
        /\ \/ imm # {} /\ l0' = l0 + 1 /\ UNCHANGED above
           \/ imm # {} /\ MoreAbove /\ UNCHANGED l0
           \/ imm = {} /\ UNCHANGED <<l0, above>>
        /\ seek' = FALSE
        /\ FlushReturns(FALSE)
     \/ /\ EnvErrors
        /\ FlushReturns(TRUE)
        /\ UNCHANGED <<tables, imm, has_imm, l0, above, seek>>
  /\ UNCHANGED <<pc, shutdown, writeVars, logfile, next_file, samples, scheduled,
                 manualVars>>

\* DoCompactionWork after its loop: mutex_ is taken, and the results go to
\* LogAndApply or the failure is recorded.
EndCompactionLoop ==
  /\ bgpc = "compact" /\ mutex = Free
  /\ \/ /\ comp.keys = 0 /\ shutdown = "open"
        /\ bgpc' = "install"
        /\ UNCHANGED <<mutex, signaled, bg_error, comp>>
     \/ /\ EnvErrors \/ shutdown # "open"
        /\ RecordBackgroundError
        /\ comp' = [comp EXCEPT !.ok = FALSE]
        /\ mutex' = Bg /\ bgpc' = "finish"
  /\ UNCHANGED <<pc, shutdown, writeVars, switchVars, levelVars, scheduled,
                 manualVars>>

\* InstallCompactionResults: LogAndApply has written the MANIFEST record.
InstallCompaction ==
  /\ bgpc = "install" /\ mutex = Free
  /\ mutex' = Bg /\ bgpc' = "finish"
  /\ \/ /\ l0' = l0 - comp.inputs
        /\ CompactedAbove /\ seek' = FALSE
        /\ UNCHANGED <<comp, signaled, bg_error>>
     \/ /\ EnvErrors
        /\ RecordBackgroundError
        /\ comp' = [comp EXCEPT !.ok = FALSE]
        /\ UNCHANGED <<l0, above, seek>>
  /\ UNCHANGED <<pc, shutdown, writeVars, switchVars, tables, samples, scheduled,
                 manualVars>>

\* The end of BackgroundCompaction.  For a manual compaction it reads
\* manual_compaction_ again, marks it done or shortens its range, and clears it.
\* When it is NULL the process ends following it: no step is left.  mutex_ is held since
\* the end of DoCompactionWork: setFreCountInCompaction, off by default, which releases it
\* in CleanupCompaction, is off here.
FinishCompaction ==
  /\ bgpc = "finish" /\ mutex = Bg
  /\ \/ /\ ~comp.manual
        /\ bgpc' = "end"
        /\ UNCHANGED manualVars
     \/ /\ comp.manual /\ manual # Free
        /\ mc' = IF comp.ok THEN [mc EXCEPT ![manual].left = @ - 1]
                            ELSE [mc EXCEPT ![manual].done = TRUE]
        /\ manual' = Free
        /\ bgpc' = "end"
  /\ UNCHANGED <<mutex, pc, signaled, bg_error, shutdown, writeVars, switchVars,
                 levelVars, scheduled, comp>>

\* The end of BackgroundCall: reschedule if needed, wake up everybody.
EndCall ==
  /\ bgpc = "end" /\ mutex = Bg
  /\ scheduled' = MaybeSchedule(FALSE, has_imm, manual, NeedsCompaction(l0, above, seek))
  /\ SignalAll
  /\ mutex' = Free /\ bgpc' = "idle" /\ comp' = NoCompaction
  /\ UNCHANGED <<pc, bg_error, shutdown, writeVars, switchVars, levelVars, manualVars>>

-----------------------------------------------------------------------------
(* Reads and the destructor.                                               *)

\* Get or an iterator reports its seeks: Version::UpdateStats nominates a file of
\* the current version and MaybeScheduleCompaction runs.
UpdateStats ==
  /\ mutex = Free /\ shutdown = "open"
  /\ ~seek /\ tables # {} /\ samples < MaxSamples
  /\ seek' = TRUE
  /\ samples' = samples + 1
  /\ scheduled' = MaybeSchedule(scheduled, has_imm, manual, TRUE)
  /\ UNCHANGED <<mutex, pc, signaled, bg_error, shutdown, writeVars, switchVars,
                 tables, l0, above, bgpc, comp, manualVars>>

\* ~DBImpl, called when no client call is running: while a background call is
\* scheduled, wait on bg_cv_.
Destroy ==
  /\ mutex = Free
  /\ \/ shutdown = "open" /\ \A t \in Threads : pc[t] = "idle"
     \/ shutdown = "wait" /\ Dtor \in signaled
  /\ shutdown' = IF scheduled THEN "wait" ELSE "closed"
  /\ signaled' = signaled \ {Dtor}
  /\ UNCHANGED <<mutex, pc, bg_error, writeVars, switchVars, levelVars, bgVars,
                 manualVars>>

\* The DB is closed and nothing runs any more.
Closed == shutdown = "closed" /\ UNCHANGED vars

-----------------------------------------------------------------------------
\* What a client thread does once its call has begun.
ClientStep(t) ==
  \/ WaitTurn(t) \/ Lead(t) \/ Resume(t) \/ ReturnDone(t)
  \/ RoomError(t) \/ RoomDelay(t) \/ RoomFound(t) \/ RoomWait(t)
  \/ RoomSwitch(t) \/ RoomSwitchFails(t)
  \/ JoinGroup(t) \/ CloseGroup(t) \/ AddRecord(t) \/ SyncLog(t) \/ InsertInto(t)
  \/ Publish(t) \/ Pop(t)
  \/ WaitFlushed(t) \/ RegisterManual(t) \/ WaitManual(t) \/ LeaveManual(t)

BackgroundStep ==
  \/ BackgroundCall \/ SkipWork \/ StartFlush \/ StartManual \/ PickCompaction
  \/ CompactKey \/ CompactKeyFlush \/ BuildTable \/ InstallFlush
  \/ EndCompactionLoop \/ InstallCompaction \/ FinishCompaction \/ EndCall

Next ==
  \/ \E t \in Threads : BeginWrite(t) \/ BeginCompactRange(t) \/ ClientStep(t)
  \/ BackgroundStep
  \/ UpdateStats \/ Destroy \/ Closed

Spec == Init /\ [][Next]_vars

\* Every thread that can go on does: the scheduler runs all of them.  Clients may
\* stop calling and the DB need not be destroyed, but a destructor that was
\* signalled goes on.
FairSpec ==
  /\ Spec
  /\ \A t \in Threads : WF_vars(ClientStep(t))
  /\ WF_vars(BackgroundStep)
  /\ WF_vars(shutdown = "wait" /\ Destroy)

-----------------------------------------------------------------------------
(* Properties                                                              *)

HoldsMutex == {"check", "room", "build", "pop", "mem", "manual"}
Leads      == {"room", "roomcv", "sleep", "build", "log", "sync", "insert",
               "logged", "syncfail", "pop"}
Labels     == {"idle"} \cup HoldsMutex \cup Leads \cup Waiting \cup Unlocked
BgLabels   == {"idle", "begin", "table", "manifest", "compact", "install", "finish", "end"}

WriterObjects ==
  [ticket : 0..MaxTickets, batch : Batches \cup {NullBatch}, sync : BOOLEAN,
   done : BOOLEAN, ok : BOOLEAN, force : BOOLEAN, delay : BOOLEAN, group : Nat,
   size : Nat, count : Nat, first : Nat, last : Nat]

LogRecords ==
  [file : Nat, first : Nat, last : Nat, tickets : SUBSET Tickets, synced : BOOLEAN]

Compactions ==
  [level : {0, 1}, inputs : Nat, keys : Nat, ok : BOOLEAN, manual : BOOLEAN,
   nested : BOOLEAN]

Acks == [ticket : Tickets, ok : BOOLEAN, sync : BOOLEAN, null : BOOLEAN]

TypeControl ==
  /\ mutex \in Threads \cup {Bg, Free}
  /\ pc \in [Threads -> Labels]
  /\ signaled \in SUBSET (Threads \cup {Dtor})
  /\ bg_error \in BOOLEAN
  /\ shutdown \in {"open", "wait", "closed"}

TypeWrite ==
  /\ w \in [Threads -> WriterObjects]
  /\ writers \in Seq(Threads)
  /\ tickets \in 0..MaxTickets
  /\ mem \in SUBSET Tickets /\ usage \in Nat
  /\ log \in Seq(LogRecords)
  /\ last_seq \in Nat
  /\ acked \in SUBSET Acks

TypeSwitch ==
  imm \in SUBSET Tickets /\ has_imm \in BOOLEAN /\ logfile \in Nat /\ next_file \in Nat

TypeLevel ==
  /\ tables \in SUBSET Tickets
  /\ l0 \in Nat /\ above \in Nat
  /\ seek \in BOOLEAN /\ samples \in 0..MaxSamples

TypeBg == scheduled \in BOOLEAN /\ bgpc \in BgLabels /\ comp \in Compactions

TypeManual ==
  manual \in Threads \cup {Free} /\ mc \in [Threads -> [left : Int, done : BOOLEAN]]

\* Every variable holds a value of its type.
TypeOK ==
  TypeControl /\ TypeWrite /\ TypeSwitch /\ TypeLevel /\ TypeBg /\ TypeManual

Readable == mem \cup imm \cup tables
Queued == {"check", "cv"} \cup Leads

\* The queue and the threads agree.  Every queued writer is inside Write, not done
\* and queued once; whoever waits and is not done is queued; the leader is the
\* front and its group a prefix of the queue, which later arrivals never disturb.
QueueConsistent ==
  /\ \A i \in 1..Len(writers) :
       /\ pc[writers[i]] \in Queued /\ ~w[writers[i]].done
       /\ w[writers[i]].ticket \in Tickets
       /\ \A j \in 1..Len(writers) : writers[i] = writers[j] => i = j
  /\ \A t \in Threads :
       /\ pc[t] \in Leads =>
            Len(writers) > 0 /\ writers[1] = t /\ w[t].group \in 1..Len(writers)
       /\ pc[t] \in {"room", "roomcv", "sleep"} => w[t].group = 1
       /\ pc[t] \in {"check", "cv"} /\ ~w[t].done =>
            \E i \in 1..Len(writers) : writers[i] = t
       /\ pc[t] \in {"check", "cv"} => w[t].ticket \in Tickets

\* What a status of OK promises before it is returned: the group a leader has
\* inserted, and every batch a leader has marked done, can be read.
DoneIsReadable ==
  \A t \in Threads :
    /\ pc[t] \in {"logged", "pop"} /\ w[t].ok => GroupTickets(t) \subseteq Readable
    /\ pc[t] \in {"check", "cv"} /\ w[t].done /\ w[t].ok /\ w[t].batch # NullBatch =>
         w[t].ticket \in Readable
    /\ pc[t] = "syncfail" => ~w[t].ok

\* The background thread flushes only a memtable that is there, and imm_ goes away
\* only when its table is installed.
FlushHasImm ==
  /\ bgpc \in {"table", "manifest"} => has_imm
  /\ ~has_imm => imm = {}

\* A compaction's level-0 inputs are still there when it is installed: flushes that
\* run inside it only add files.
InputsStay ==
  /\ bgpc \in {"idle", "begin"} => comp.inputs = 0
  /\ bgpc \in {"table", "manifest", "compact", "install"} => comp.inputs <= l0

\* The inductive invariant of the queue and of what OK promises.
WriteInvariant ==
  TypeOK /\ QueueConsistent /\ DoneIsReadable /\ FlushHasImm /\ InputsStay

\* Write's comment "&w is currently responsible for logging and protects against
\* concurrent loggers and concurrent writes into mem_": whoever is inside
\* MakeRoomForWrite, the log or the memtable is the front of writers_, so at most
\* one thread is.
LoggerIsFront ==
  \A t \in Threads : pc[t] \in Leads => writers # <<>> /\ Head(writers) = t

\* No wakeup is lost.  A writer that waits on its own condition variable although
\* it is done or at the front has been signalled, and a thread that waits on bg_cv_
\* although the condition it waits for holds has been signalled.
NoLostWakeup ==
  \A t \in Threads :
    /\ pc[t] = "cv" /\ (w[t].done \/ Head(writers) = t) => t \in signaled
    /\ pc[t] = "roomcv" /\ (bg_error \/ (~has_imm /\ l0 < StopTrigger))
         => t \in signaled \/ mutex = Bg
    /\ pc[t] = "memcv" /\ (bg_error \/ ~has_imm) => t \in signaled \/ mutex = Bg
    /\ pc[t] = "manualcv" /\ (~ManualGoesOn(t) \/ manual = Free)
         => t \in signaled \/ mutex = Bg

\* Whoever waits for the background thread waits for something: a full memtable
\* that is waiting to be flushed has a background call scheduled, unless an error
\* or the destructor has stopped the background work for good.
StalledHasHelper ==
  has_imm \/ manual # Free \/ l0 >= StopTrigger =>
    scheduled \/ bg_error \/ shutdown # "open"

\* Nobody waits in vain on the writers' condition variables or on bg_cv_, which
\* writers, manual compactions, the destructor and the background thread share.
NobodyWaitsInVain == NoLostWakeup /\ StalledHasHelper

\* kL0_StopWritesTrigger is "Maximum number of level-0 files": no interleaving of
\* switches and flushes creates more, because a switch needs imm_ = NULL and
\* fewer than that many files, and only a flush adds one.  This is about what the write
\* path adds to a new database: Recover makes level 0 tables of the logs without looking.
LevelZeroBounded == l0 + (IF has_imm THEN 1 ELSE 0) <= StopTrigger

\* Acknowledged updates are never lost by the running program: a batch whose Write
\* returned OK is in mem_, in imm_ or in a table, whatever switches, flushes,
\* failed flushes and compactions happen.
AckedIsReadable ==
  \A a \in acked : a.ok /\ ~a.null => a.ticket \in Readable

\* What a Get can find it finds from then on: a memtable switch, a flush, a failed flush
\* or a compaction never takes a batch out of mem_, imm_ and the tables together.
ReadableStays == [][Readable \subseteq Readable']_vars

\* Where the leader's record may be in the log although its numbers are not
\* published, and where it has drawn them.
Appended == {"sync", "insert", "logged", "syncfail"}
Logging  == {"log"} \cup Appended

\* The queue is in the order of its tickets, the newest ticket last.
QueueInOrder ==
  \A i \in 1..Len(writers) :
    /\ w[writers[i]].ticket <= tickets
    /\ \A j \in 1..Len(writers) : i < j => w[writers[i]].ticket < w[writers[j]].ticket

\* The leader's numbers follow the published ones, which cover every record of the
\* log but the leader's own.
NumbersReserved ==
  /\ \A t \in Threads : pc[t] \in Logging => w[t].first = last_seq + 1 /\ w[t].last >= last_seq
  /\ \A i \in DOMAIN log :
       \/ log[i].last <= last_seq
       \/ \E t \in Threads : pc[t] \in Appended /\ log[i].last <= w[t].last

\* What was logged was queued before everything that is not logged yet.
LoggedBeforeQueued ==
  \A i \in DOMAIN log : \A a \in log[i].tickets :
    /\ a <= tickets
    /\ \A k \in 1..Len(writers) :
         \/ a < w[writers[k]].ticket
         \/ \E t \in Threads : pc[t] \in Appended \cup {"pop"} /\ k <= w[t].group

\* The record the leader is about to insert is the last one, in the current log file.
RecordPending ==
  \A t \in Threads : pc[t] \in {"sync", "insert"} =>
    /\ log # <<>>
    /\ log[Len(log)].file = logfile /\ log[Len(log)].first = w[t].first
    /\ log[Len(log)].tickets = GroupTickets(t)

\* Without errors every record but that one has been inserted.
RecordsInserted ==
  ~EnvErrors =>
    \A i \in DOMAIN log :
      \/ log[i].tickets \subseteq Readable
      \/ i = Len(log) /\ \E t \in Threads : pc[t] \in {"sync", "insert"}

\* File numbers are drawn in order, so that no record is in a log still to come.
LogFilesInOrder ==
  logfile < next_file /\ \A i \in DOMAIN log : log[i].file <= logfile

SyncedTickets == UNION {log[i].tickets : i \in {j \in DOMAIN log : log[j].synced}}

\* A group with a sync write in it has a sync leader, and what that leader promises
\* its group, before the results are returned, is in a synced record.
SyncPromised ==
  \A t \in Threads :
    /\ pc[t] \in Leads => \A k \in 1..w[t].group : w[writers[k]].sync => w[t].sync
    /\ (pc[t] = "insert" \/ (pc[t] \in {"logged", "pop"} /\ w[t].ok)) /\ w[t].sync =>
         GroupTickets(t) \subseteq SyncedTickets
    /\ pc[t] \in {"check", "cv"} /\ w[t].done /\ w[t].ok /\ w[t].sync
         /\ w[t].batch # NullBatch => w[t].ticket \in SyncedTickets

\* The inductive invariant behind the log's properties.
LogInvariant ==
  /\ QueueInOrder /\ NumbersReserved /\ LoggedBeforeQueued /\ RecordPending
  /\ RecordsInserted /\ LogFilesInOrder /\ SyncPromised

\* Who holds mutex_, seen from the background thread, and what keeps it scheduled.
BackgroundHolds ==
  /\ mutex = Bg <=> bgpc \in {"begin", "finish", "end"}
  /\ bgpc # "idle" => scheduled

\* A client's call keeps the destructor away, and a registered manual compaction is
\* not done.
CallersKeepOpen ==
  /\ shutdown # "open" => \A t \in Threads : pc[t] = "idle"
  /\ manual # Free => ~mc[manual].done

\* What NoLostWakeup needs to be inductive: the background thread owes a wakeup only
\* after its work, until the SignalAll at the end of BackgroundCall.
WakeupOwed ==
  \A t \in Threads :
    /\ pc[t] = "cv" /\ (w[t].done \/ Head(writers) = t) => t \in signaled
    /\ \/ pc[t] = "roomcv" /\ (bg_error \/ (~has_imm /\ l0 < StopTrigger))
       \/ pc[t] = "memcv" /\ (bg_error \/ ~has_imm)
       \/ pc[t] = "manualcv" /\ (~ManualGoesOn(t) \/ manual = Free)
       => t \in signaled \/ bgpc \in {"finish", "end"}

\* The inductive invariant behind NobodyWaitsInVain.
WakeInvariant == BackgroundHolds /\ CallersKeepOpen /\ WakeupOwed /\ StalledHasHelper

\* The inductive invariant of the whole write path: the queue and the promises of OK,
\* the log, and the wakeups.
PathInvariant == WriteInvariant /\ LogInvariant /\ WakeInvariant

\* "Do not include a sync write into a batch handled by a non-sync write": a sync
\* write that returned OK is in a record its log file was synced after.
AckedSyncIsSynced ==
  \A a \in acked : a.ok /\ a.sync /\ ~a.null =>
    \E i \in DOMAIN log : a.ticket \in log[i].tickets /\ log[i].synced

\* Every write reaches the log at most once, and the records carry consecutive,
\* never reused sequence numbers, in queue order: a batch that failed still uses
\* its numbers up, so that no two records of the logs share one.
LogIsSequenced ==
  \A i, j \in DOMAIN log : i < j =>
    /\ log[i].last < log[j].first
    /\ log[i].tickets \cap log[j].tickets = {}
    /\ \A a \in log[i].tickets, b \in log[j].tickets : a < b

\* Readers that take LastSequence as their snapshot find everything up to it: but
\* for failed writes, a record that begins at or below last_seq is in a memtable or
\* a table, although it is inserted without mutex_.
PublishedIsReadable ==
  ~EnvErrors =>
    \A i \in DOMAIN log :
      log[i].first <= last_seq => log[i].tickets \subseteq Readable

\* The memtable and the log file behind it hold the same updates, which is what
\* lets recovery replay the log: without I/O errors, what mem_ holds is what the
\* records of the current log file hold, but for the record being inserted.
MemMatchesLog ==
  ~EnvErrors =>
    LET logged  == UNION {log[i].tickets : i \in {j \in DOMAIN log : log[j].file = logfile}}
        pending == UNION {GroupTickets(t) :
                            t \in {u \in Threads : pc[u] \in {"sync", "insert"}}}
    IN  mem = logged \ pending

\* FinishCompaction follows manual_compaction_ only while it is registered.
ManualStaysRegistered ==
  bgpc \in {"compact", "table", "manifest", "install", "finish"} /\ comp.manual =>
    manual # Free

\* Every call of Write and of CompactRange returns.
CallsReturn == \A t \in Threads : pc[t] # "idle" ~> pc[t] = "idle"

\* The destructor finishes once it has begun.
DestructorFinishes == shutdown = "wait" ~> shutdown = "closed"

\* "No work to be done": the background thread comes to rest again and again, it
\* does not reschedule itself forever with nothing to do.
BackgroundRests == []<>(~scheduled)
=============================================================================
