--------------------------- MODULE WritePathProofs ---------------------------
(***************************************************************************)
(* The safety of the write path, for any number of threads, any batches    *)
(* and options and with or without errors of the environment.              *)
(*                                                                         *)
(* The inductive invariant is WriteInvariant.  QueueConsistent makes a     *)
(* leader the front of the queue and its group a prefix of it, so that     *)
(* nobody else changes what the group holds while mutex_ is released;      *)
(* FlushHasImm makes the readable tickets only grow; DoneIsReadable        *)
(* carries a leader's promise over to its followers.                       *)
(*                                                                         *)
(* First, WritePath keeps its types.  TypeOK is proved one group of        *)
(* variables at a time: an action has a step for every group it changes,   *)
(* and TypeFrame covers the others.                                        *)
(***************************************************************************)
EXTENDS WritePath, TLAPS

\* The initial state has the types.
LEMMA TypeInit == Init => TypeOK
<1> SUFFICES ASSUME Init PROVE TypeOK OBVIOUS
<1>1. TypeControl BY Zenon DEF Init, TypeControl, Labels
<1>2. TypeWrite
  <2>1. w \in [Threads -> WriterObjects]
    BY BoundAssumption DEF Init, WriterObjects, Idle
  <2> QED BY <2>1, BoundAssumption DEF Init, TypeWrite
<1>3. TypeSwitch BY Zenon DEF Init, TypeSwitch
<1>4. TypeLevel
  <2>1. l0 \in Nat /\ samples \in 0..MaxSamples BY BoundAssumption DEF Init
  <2> QED BY <2>1, Zenon DEF Init, TypeLevel
<1>5. TypeBg BY Zenon DEF Init, TypeBg, BgLabels, NoCompaction, Compactions
<1>6. TypeManual BY DEF Init, TypeManual
<1> QED BY <1>1, <1>2, <1>3, <1>4, <1>5, <1>6, Zenon DEF TypeOK

\* The updates of one Writer object keep its type.
LEMMA WriterUpdates ==
  ASSUME w \in [Threads -> WriterObjects], NEW t \in Threads, NEW b \in BOOLEAN
  PROVE  /\ [w EXCEPT ![t].ok = b] \in [Threads -> WriterObjects]
         /\ [w EXCEPT ![t].delay = b] \in [Threads -> WriterObjects]
         /\ [w EXCEPT ![t].force = b] \in [Threads -> WriterObjects]
         /\ [w[t] EXCEPT !.done = TRUE, !.ok = b] \in WriterObjects
         /\ [w EXCEPT ![t] = Idle] \in [Threads -> WriterObjects]
<1>1. [w[t] EXCEPT !.ok = b] \in WriterObjects BY Zenon DEF WriterObjects
<1>2. [w[t] EXCEPT !.delay = b] \in WriterObjects BY DEF WriterObjects
<1>3. [w[t] EXCEPT !.force = b] \in WriterObjects BY DEF WriterObjects
<1>4. [w[t] EXCEPT !.done = TRUE, !.ok = b] \in WriterObjects BY ZenonT(60) DEF WriterObjects
<1>5. Idle \in WriterObjects BY BoundAssumption DEF WriterObjects, Idle
<1> QED BY <1>1, <1>2, <1>3, <1>4, <1>5, Zenon

\* Sizes and counts are those of a batch or of NULL.
LEMMA WriterNumbers ==
  ASSUME w \in [Threads -> WriterObjects], NEW t \in Threads
  PROVE  /\ w[t].batch.size \in Nat /\ w[t].batch.count \in Nat
         /\ w[t].size \in Nat /\ w[t].count \in Nat /\ w[t].group \in Nat
         /\ w[t].first \in Nat /\ w[t].last \in Nat
         /\ w[t].ok \in BOOLEAN /\ w[t].sync \in BOOLEAN
<1>1. w[t].batch \in Batches \cup {NullBatch} BY Zenon DEF WriterObjects
<1>2. w[t].batch.size \in Nat /\ w[t].batch.count \in Nat
  BY <1>1, BatchAssumption DEF NullBatch
<1> QED BY <1>2, Zenon DEF WriterObjects

\* A thread that leads the queue is its front, its group is a prefix of the queue,
\* and the tickets of the group have been drawn.
LEMMA Leadership ==
  ASSUME TypeOK, QueueConsistent, NEW t \in Threads, pc[t] \in Leads
  PROVE  /\ writers # <<>> /\ writers[1] = t /\ Head(writers) = t
         /\ w[t].group \in 1..Len(writers)
         /\ w[t].ticket \in Tickets
         /\ GroupTickets(t) \subseteq Tickets
         /\ Followers(t) \subseteq Threads
<1>1. writers \in Seq(Threads) BY Zenon DEF TypeOK, TypeWrite
<1>2. Len(writers) > 0 /\ writers[1] = t /\ w[t].group \in 1..Len(writers)
  BY Zenon DEF QueueConsistent
<1>3. w[t].ticket \in Tickets BY <1>1, <1>2 DEF QueueConsistent
<1>4. \A i \in 1..w[t].group : i \in 1..Len(writers) /\ writers[i] \in Threads
  BY <1>1, <1>2
<1>5. GroupTickets(t) \subseteq Tickets
  BY <1>4 DEF GroupTickets, QueueConsistent
<1>6. Followers(t) \subseteq Threads BY <1>4, <1>2 DEF Followers
<1> QED BY <1>1, <1>2, <1>3, <1>5, <1>6

\* What Write returns is a result.
LEMMA AckType ==
  ASSUME TypeOK, NEW t \in Threads, w[t].ticket \in Tickets
  PROVE  Ack(t, w[t].ok) \in Acks
<1>1. w[t].ok \in BOOLEAN /\ w[t].sync \in BOOLEAN
  BY WriterNumbers, Zenon DEF TypeOK, TypeWrite
<1> QED BY <1>1, Zenon DEF Ack, Acks

\* A group of variables that a step leaves alone keeps its type.
LEMMA TypeFrame ==
  ASSUME TypeOK
  PROVE  /\ UNCHANGED <<mutex, pc, signaled, bg_error, shutdown>> => TypeControl'
         /\ UNCHANGED writeVars => TypeWrite'
         /\ UNCHANGED switchVars => TypeSwitch'
         /\ UNCHANGED levelVars => TypeLevel'
         /\ UNCHANGED bgVars => TypeBg'
         /\ UNCHANGED manualVars => TypeManual'
<1>1. UNCHANGED <<mutex, pc, signaled, bg_error, shutdown>> => TypeControl'
  BY Zenon DEF TypeOK, TypeControl
<1>2. UNCHANGED writeVars => TypeWrite'
  BY Zenon DEF TypeOK, TypeWrite, writeVars
<1>3. UNCHANGED switchVars => TypeSwitch'
  BY Zenon DEF TypeOK, TypeSwitch, switchVars
<1>4. UNCHANGED levelVars => TypeLevel'
  BY Zenon DEF TypeOK, TypeLevel, levelVars
<1>5. UNCHANGED bgVars => TypeBg'
  BY Zenon DEF TypeOK, TypeBg, bgVars
<1>6. UNCHANGED manualVars => TypeManual'
  BY Zenon DEF TypeOK, TypeManual, manualVars
<1> QED BY <1>1, <1>2, <1>3, <1>4, <1>5, <1>6, Zenon

\* A compaction that VersionSet sets up is a compaction.
LEMMA CompactionsTyped ==
  ASSUME TypeOK, NEW zero, NEW above0, NEW man \in BOOLEAN
  PROVE  CompactionsAt(zero, above0, man) \subseteq Compactions
<1>1. (IF zero THEN {0} ELSE {}) \cup (IF above0 THEN {1} ELSE {}) \subseteq {0, 1}
  OBVIOUS
<1>2. 0..l0 \subseteq Nat /\ 1..MaxKeys \subseteq Nat
  BY BoundAssumption DEF TypeOK, TypeLevel
<1> QED BY <1>1, <1>2, Zenon DEF CompactionsAt, Compactions

\* Every step keeps the types.  BuildBatchGroup indexes writers_ by the group, which
\* needs the queue's invariant, and a compaction subtracts its inputs from level 0.
LEMMA TypeStep == TypeOK /\ QueueConsistent /\ InputsStay /\ [Next]_vars => TypeOK'
<1> SUFFICES ASSUME TypeOK, QueueConsistent, InputsStay, [Next]_vars PROVE TypeOK'
  OBVIOUS
<1>1. ASSUME NEW t \in Threads, ClientStep(t) PROVE TypeOK'
  <2>1. CASE WaitTurn(t)
    <3>1. TypeControl'
      BY <2>1, Zenon DEF WaitTurn, TypeOK, TypeControl, Goto, Labels, HoldsMutex, Leads,
           Waiting, Unlocked
    <3> QED BY <2>1, <3>1, TypeFrame, Zenon DEF WaitTurn, TypeOK
  <2>2. CASE Lead(t)
    <3>1. TypeControl'
      BY <2>2, Zenon DEF Lead, TypeOK, TypeControl, Goto, Labels, HoldsMutex, Leads,
           Waiting, Unlocked
    <3>2. TypeWrite'
      <4>1. (w[t].batch = NullBatch) \in BOOLEAN /\ (w[t].batch # NullBatch) \in
             BOOLEAN OBVIOUS
      <4>2. \A b, d \in BOOLEAN : [w[t] EXCEPT !.force = b, !.delay = d, !.group = 1,
                   !.size = w[t].batch.size, !.count = w[t].batch.count] \in WriterObjects
        <5>1. \A x \in WriterObjects, m, n, k \in Nat, b, d \in BOOLEAN :
                [x EXCEPT !.force = b, !.delay = d, !.group = k, !.size = m, !.count = n]
                  \in WriterObjects
          BY ZenonT(90) DEF WriterObjects
        <5>2. w \in [Threads -> WriterObjects] BY Zenon DEF TypeOK, TypeWrite
        <5>3. w[t] \in WriterObjects BY <5>2, Zenon
        <5>4. w[t].batch.size \in Nat /\ w[t].batch.count \in Nat
          BY <5>2, WriterNumbers, Zenon
        <5>5. 1 \in Nat OBVIOUS
        <5> QED BY <5>1, <5>3, <5>4, <5>5, ZenonT(30)
      <4>3. w' \in [Threads -> WriterObjects]
        BY <2>2, <4>1, <4>2, ZenonT(30) DEF Lead, TypeOK, TypeWrite
      <4> QED BY <2>2, <4>3, Zenon DEF Lead, TypeOK, TypeWrite
    <3> QED BY <2>2, <3>1, <3>2, TypeFrame, Zenon DEF Lead, TypeOK
  <2>3. CASE Resume(t)
    <3>1. TypeControl'
      BY <2>3, Zenon DEF Resume, TypeOK, TypeControl, Goto, Labels, HoldsMutex, Leads,
           Waiting, Unlocked, ResumeAt
    <3> QED BY <2>3, <3>1, TypeFrame, Zenon DEF Resume, TypeOK
  <2>4. CASE ReturnDone(t)
    <3>1. TypeControl'
      BY <2>4, Zenon DEF ReturnDone, TypeOK, TypeControl, Goto, Labels, HoldsMutex, Leads,
           Waiting, Unlocked, ReturnLabel
    <3>2. TypeWrite'
      <4>1. Ack(t, w[t].ok) \in Acks
        BY <2>4, AckType, Zenon DEF ReturnDone, TypeOK, QueueConsistent
      <4> QED BY <2>4, <4>1, WriterUpdates, ZenonT(30) DEF ReturnDone, TypeOK, TypeWrite
    <3> QED BY <2>4, <3>1, <3>2, TypeFrame, Zenon DEF ReturnDone, TypeOK
  <2>5. CASE RoomError(t)
    <3>1. TypeControl'
      BY <2>5, Zenon DEF RoomError, TypeOK, TypeControl, Goto, Labels, HoldsMutex, Leads,
           Waiting, Unlocked, InRoom
    <3>2. TypeWrite' BY <2>5, WriterUpdates, ZenonT(30) DEF RoomError, TypeOK, TypeWrite
    <3> QED BY <2>5, <3>1, <3>2, TypeFrame, Zenon DEF RoomError, TypeOK
  <2>6. CASE RoomDelay(t)
    <3>1. TypeControl'
      BY <2>6, Zenon DEF RoomDelay, TypeOK, TypeControl, Goto, Labels, HoldsMutex, Leads,
           Waiting, Unlocked, InRoom
    <3>2. TypeWrite' BY <2>6, WriterUpdates, ZenonT(30) DEF RoomDelay, TypeOK, TypeWrite
    <3> QED BY <2>6, <3>1, <3>2, TypeFrame, Zenon DEF RoomDelay, TypeOK
  <2>7. CASE RoomFound(t)
    <3>1. TypeControl'
      BY <2>7, Zenon DEF RoomFound, TypeOK, TypeControl, Goto, Labels, HoldsMutex, Leads,
           Waiting, Unlocked, InRoom
    <3> QED BY <2>7, <3>1, TypeFrame, Zenon DEF RoomFound, TypeOK
  <2>8. CASE RoomWait(t)
    <3>1. TypeControl'
      BY <2>8, Zenon DEF RoomWait, TypeOK, TypeControl, Goto, Labels, HoldsMutex, Leads,
           Waiting, Unlocked, InRoom
    <3> QED BY <2>8, <3>1, TypeFrame, Zenon DEF RoomWait, TypeOK
  <2>9. CASE RoomSwitch(t)
    <3>1. TypeControl' BY <2>9, Zenon DEF RoomSwitch, TypeOK, TypeControl
    <3>2. TypeWrite' BY <2>9, WriterUpdates, ZenonT(30) DEF RoomSwitch, TypeOK, TypeWrite
    <3>3. TypeSwitch' BY <2>9 DEF RoomSwitch, TypeOK, TypeSwitch, TypeWrite, NewLog
    <3>4. TypeBg' BY <2>9, Zenon DEF RoomSwitch, TypeOK, TypeBg, MaybeSchedule
    <3> QED BY <2>9, <3>1, <3>2, <3>3, <3>4, TypeFrame, Zenon DEF RoomSwitch, TypeOK
  <2>10. CASE RoomSwitchFails(t)
    <3>1. TypeControl'
      BY <2>10, Zenon DEF RoomSwitchFails, TypeOK, TypeControl, Goto, Labels, HoldsMutex,
           Leads, Waiting, Unlocked
    <3>2. TypeWrite' BY <2>10, WriterUpdates, ZenonT(30) DEF RoomSwitchFails, TypeOK, TypeWrite
    <3> QED BY <2>10, <3>1, <3>2, TypeFrame, Zenon DEF RoomSwitchFails, TypeOK
  <2>11. CASE JoinGroup(t)
    <3> DEFINE this == w[writers[w[t].group + 1]]
    <3>1. TypeControl' BY <2>11, ZenonT(30) DEF JoinGroup, TypeOK, TypeControl
    <3>2. TypeWrite'
      <4>1. writers[w[t].group + 1] \in Threads
        <5>1. w \in [Threads -> WriterObjects] /\ writers \in Seq(Threads)
          BY Zenon DEF TypeOK, TypeWrite
        <5>2. w[t].group \in Nat BY <5>1, WriterNumbers, Zenon
        <5>3. w[t].group < Len(writers) BY <2>11, Zenon DEF JoinGroup, Joins
        <5> QED BY <5>1, <5>2, <5>3, SMTT(30)
      <4>2. /\ w[t].group + 1 \in Nat /\ w[t].size + this.batch.size \in Nat
            /\ w[t].count + this.batch.count \in Nat
        <5>1. this.batch.size \in Nat /\ this.batch.count \in Nat
          BY <4>1, WriterNumbers, Zenon DEF TypeOK, TypeWrite
        <5>2. w[t].group \in Nat /\ w[t].size \in Nat /\ w[t].count \in Nat
          BY WriterNumbers, Zenon DEF TypeOK, TypeWrite
        <5>3. \A m, n \in Nat : m + 1 \in Nat /\ m + n \in Nat OBVIOUS
        <5> QED BY <5>1, <5>2, <5>3, Zenon
      <4>3. \A k, m, n \in Nat :
              [w[t] EXCEPT !.group = k, !.size = m, !.count = n] \in WriterObjects
        BY ZenonT(60) DEF TypeOK, TypeWrite, WriterObjects
      <4>4. w' \in [Threads -> WriterObjects]
        BY <2>11, <4>2, <4>3, ZenonT(30) DEF JoinGroup, TypeOK, TypeWrite
      <4> QED BY <2>11, <4>4, ZenonT(30) DEF JoinGroup, TypeOK, TypeWrite
    <3> QED BY <2>11, <3>1, <3>2, TypeFrame, ZenonT(30) DEF JoinGroup, TypeOK
  <2>12. CASE CloseGroup(t)
    <3>1. TypeControl'
      BY <2>12, Zenon DEF CloseGroup, TypeOK, TypeControl, Goto, Labels, HoldsMutex, Leads,
           Waiting, Unlocked
    <3>2. TypeWrite'
      <4>1. \A m, n \in Nat : [w[t] EXCEPT !.first = m, !.last = n] \in WriterObjects
        BY ZenonT(60) DEF TypeOK, TypeWrite, WriterObjects
      <4>2. last_seq + 1 \in Nat /\ last_seq + w[t].count \in Nat
        BY WriterNumbers DEF TypeOK, TypeWrite
      <4>3. w' \in [Threads -> WriterObjects]
        BY <2>12, <4>1, <4>2, ZenonT(30) DEF CloseGroup, TypeOK, TypeWrite
      <4> QED BY <2>12, <4>3, Zenon DEF CloseGroup, TypeOK, TypeWrite
    <3> QED BY <2>12, <3>1, <3>2, TypeFrame, Zenon DEF CloseGroup, TypeOK
  <2>13. CASE AddRecord(t)
    <3>1. TypeControl'
      BY <2>13, Zenon DEF AddRecord, TypeOK, TypeControl, Goto, Labels, HoldsMutex, Leads,
           Waiting, Unlocked
    <3>2. TypeWrite'
      <4>1. LogRecord(t) \in LogRecords
        BY <2>13, Leadership, WriterNumbers, Zenon DEF AddRecord, Leads, LogRecord,
             LogRecords, TypeOK, TypeWrite, TypeSwitch
      <4> HIDE DEF LogRecord
      <4>a. Append(log, LogRecord(t)) \in Seq(LogRecords)
        BY <4>1 DEF TypeOK, TypeWrite
      <4>2. log' \in Seq(LogRecords)
        BY <2>13, <4>a, Zenon DEF AddRecord, TypeOK, TypeWrite
      <4>3. w' \in [Threads -> WriterObjects]
        BY <2>13, WriterUpdates, ZenonT(30) DEF AddRecord, TypeOK, TypeWrite
      <4> QED BY <2>13, <4>2, <4>3, Zenon DEF AddRecord, TypeOK, TypeWrite
    <3> QED BY <2>13, <3>1, <3>2, TypeFrame, Zenon DEF AddRecord, TypeOK
  <2>14. CASE SyncLog(t)
    <3>1. TypeControl'
      BY <2>14, Zenon DEF SyncLog, TypeOK, TypeControl, Goto, Labels, HoldsMutex, Leads,
           Waiting, Unlocked
    <3>2. TypeWrite'
      <4>1. \A r \in LogRecords : [r EXCEPT !.synced = @ \/ r.file = logfile] \in LogRecords
        BY Zenon DEF LogRecords
      <4>2. log' \in Seq(LogRecords) BY <2>14, <4>1 DEF SyncLog, TypeOK, TypeWrite
      <4>3. w' \in [Threads -> WriterObjects]
        BY <2>14, WriterUpdates, ZenonT(30) DEF SyncLog, TypeOK, TypeWrite
      <4> QED BY <2>14, <4>2, <4>3, Zenon DEF SyncLog, TypeOK, TypeWrite
    <3> QED BY <2>14, <3>1, <3>2, TypeFrame, Zenon DEF SyncLog, TypeOK
  <2>15. CASE InsertInto(t)
    <3>1. TypeControl'
      BY <2>15, Zenon DEF InsertInto, TypeOK, TypeControl, Goto, Labels, HoldsMutex, Leads,
           Waiting, Unlocked
    <3>2. TypeWrite'
      <4>1. GroupTickets(t) \subseteq Tickets
        BY <2>15, Leadership, Zenon DEF InsertInto, Leads
      <4>2. usage' \in Nat BY <2>15, WriterNumbers DEF InsertInto, TypeOK, TypeWrite
      <4> QED BY <2>15, <4>1, <4>2, Zenon DEF InsertInto, TypeOK, TypeWrite
    <3> QED BY <2>15, <3>1, <3>2, TypeFrame, Zenon DEF InsertInto, TypeOK
  <2>16. CASE Publish(t)
    <3>1. TypeControl'
      BY <2>16, Zenon DEF Publish, TypeOK, TypeControl, Goto, Labels, HoldsMutex, Leads,
           Waiting, Unlocked, SignalAll, BgWaiters, BgCvClients
    <3>2. TypeWrite' BY <2>16, Zenon DEF Publish, TypeOK, TypeWrite, WriterObjects, Published
    <3> QED BY <2>16, <3>1, <3>2, TypeFrame, Zenon DEF Publish, TypeOK
  <2>17. CASE Pop(t)
    <3>1. TypeControl'
      <4>1. Followers(t) \subseteq Threads /\ w[t].group \in 1..Len(writers)
        BY <2>17, Leadership, ZenonT(30) DEF Pop, Leads
      <4>2. SubSeq(writers, w[t].group + 1, Len(writers)) \in Seq(Threads)
        BY <4>1 DEF TypeOK, TypeWrite
      <4>3. signaled' \subseteq Threads \cup {Dtor}
        <5>1. \A s \in Seq(Threads) : NextHead(s) \subseteq Threads BY DEF NextHead
        <5> QED BY <2>17, <4>1, <4>2, <5>1, ZenonT(30) DEF Pop, TypeOK, TypeControl
      <4>4. pc' \in [Threads -> Labels]
        BY <2>17, ZenonT(30) DEF Pop, Goto, ReturnLabel, Labels, Unlocked, TypeOK, TypeControl
      <4> QED BY <2>17, <4>3, <4>4, ZenonT(30) DEF Pop, TypeOK, TypeControl
    <3>2. TypeWrite'
      <4>1. w[t].group \in 1..Len(writers) /\ w[t].ticket \in Tickets
        BY <2>17, Leadership, ZenonT(30) DEF Pop, Leads
      <4>2. SubSeq(writers, w[t].group + 1, Len(writers)) \in Seq(Threads)
        BY <4>1 DEF TypeOK, TypeWrite
      <4>3. Ack(t, w[t].ok) \in Acks BY <4>1, AckType, Zenon
      <4>4. Idle \in WriterObjects BY BoundAssumption DEF WriterObjects, Idle
      <4>5. \A u \in Threads : [w[u] EXCEPT !.done = TRUE, !.ok = w[t].ok] \in WriterObjects
        BY WriterUpdates, WriterNumbers, ZenonT(30) DEF TypeOK, TypeWrite
      <4>6. w' \in [Threads -> WriterObjects]
        BY <2>17, <4>4, <4>5, ZenonT(30) DEF Pop, TypeOK, TypeWrite
      <4> QED BY <2>17, <4>2, <4>3, <4>6, ZenonT(30) DEF Pop, TypeOK, TypeWrite
    <3> QED BY <2>17, <3>1, <3>2, TypeFrame, ZenonT(30) DEF Pop, TypeOK
  <2>18. CASE WaitFlushed(t)
    <3>1. TypeControl'
      BY <2>18, Zenon DEF WaitFlushed, TypeOK, TypeControl, Goto, Labels, HoldsMutex, Leads,
           Waiting, Unlocked
    <3> QED BY <2>18, <3>1, TypeFrame, Zenon DEF WaitFlushed, TypeOK
  <2>19. CASE RegisterManual(t)
    <3>1. TypeControl' BY <2>19, Zenon DEF RegisterManual, TypeOK, TypeControl
    <3>2. TypeBg' BY <2>19, Zenon DEF RegisterManual, TypeOK, TypeBg, MaybeSchedule
    <3>3. TypeManual' BY <2>19, Zenon DEF RegisterManual, TypeOK, TypeManual
    <3> QED BY <2>19, <3>1, <3>2, <3>3, TypeFrame, Zenon DEF RegisterManual, TypeOK
  <2>20. CASE WaitManual(t)
    <3>1. TypeControl'
      BY <2>20, Zenon DEF WaitManual, TypeOK, TypeControl, Goto, Labels, HoldsMutex, Leads,
           Waiting, Unlocked
    <3> QED BY <2>20, <3>1, TypeFrame, Zenon DEF WaitManual, TypeOK
  <2>21. CASE LeaveManual(t)
    <3>1. TypeControl'
      BY <2>21, Zenon DEF LeaveManual, TypeOK, TypeControl, Goto, Labels, HoldsMutex, Leads,
           Waiting, Unlocked
    <3>2. TypeManual' BY <2>21, SMTT(60) DEF LeaveManual, TypeOK, TypeManual
    <3> QED BY <2>21, <3>1, <3>2, TypeFrame, Zenon DEF LeaveManual, TypeOK
  <2> QED
    BY <1>1, <2>1, <2>2, <2>3, <2>4, <2>5, <2>6, <2>7, <2>8, <2>9, <2>10, <2>11,
         <2>12, <2>13, <2>14, <2>15, <2>16, <2>17, <2>18, <2>19, <2>20,
         <2>21, Zenon DEF ClientStep
<1>2. CASE BackgroundCall
  <2>1. TypeControl' BY <1>2, Zenon DEF BackgroundCall, TypeOK, TypeControl
  <2>2. TypeBg' BY <1>2, Zenon DEF BackgroundCall, TypeOK, TypeBg, BgLabels
  <2> QED BY <1>2, <2>1, <2>2, TypeFrame, Zenon DEF BackgroundCall, TypeOK
<1>3. CASE SkipWork
  <2>1. TypeBg' BY <1>3, Zenon DEF SkipWork, TypeOK, TypeBg, BgLabels
  <2> QED BY <1>3, <2>1, TypeFrame, Zenon DEF SkipWork, TypeOK
<1>4. CASE StartFlush
  <2>1. TypeControl' BY <1>4, Zenon DEF StartFlush, TypeOK, TypeControl
  <2>2. TypeSwitch' BY <1>4 DEF StartFlush, TypeOK, TypeSwitch
  <2>3. TypeBg' BY <1>4, Zenon DEF StartFlush, TypeOK, TypeBg, BgLabels
  <2> QED BY <1>4, <2>1, <2>2, <2>3, TypeFrame, Zenon DEF StartFlush, TypeOK
<1>5. CASE StartManual
  <2>1. TypeControl' BY <1>5, Zenon DEF StartManual, TypeOK, TypeControl, StartCompaction
  <2>2. TypeBg'
    <3>1. bgpc' \in BgLabels /\ scheduled' = scheduled
      BY <1>5, Zenon DEF StartManual, StartCompaction, BgLabels
    <3>2. comp' = comp \/ comp' \in CompactionsAt(l0 > 0, above > 0, TRUE)
      BY <1>5, Zenon DEF StartManual, StartCompaction
    <3>3. comp' \in Compactions BY <3>2, CompactionsTyped, Zenon DEF TypeOK, TypeBg
    <3> QED BY <3>1, <3>3, Zenon DEF TypeOK, TypeBg
  <2>3. TypeManual' BY <1>5, Zenon DEF StartManual, TypeOK, TypeManual, manualVars
  <2> QED BY <1>5, <2>1, <2>2, <2>3, TypeFrame, Zenon DEF StartManual, TypeOK
<1>6. CASE PickCompaction
  <2>1. TypeControl' BY <1>6, Zenon DEF PickCompaction, TypeOK, TypeControl, StartCompaction
  <2>2. TypeBg'
    <3>1. bgpc' \in BgLabels /\ scheduled' = scheduled
      BY <1>6, Zenon DEF PickCompaction, StartCompaction, BgLabels
    <3>2. \/ comp' = comp
            \/ comp' \in CompactionsAt(l0 >= CompactionTrigger, above > 1, FALSE)
            \/ comp' \in CompactionsAt(l0 > 0, above > 0, FALSE)
      BY <1>6, Zenon DEF PickCompaction, StartCompaction
    <3>3. comp' \in Compactions BY <3>2, CompactionsTyped, Zenon DEF TypeOK, TypeBg
    <3> QED BY <3>1, <3>3, Zenon DEF TypeOK, TypeBg
  <2> QED BY <1>6, <2>1, <2>2, TypeFrame, Zenon DEF PickCompaction, TypeOK
<1>7. CASE CompactKey
  <2>1. TypeBg' BY <1>7 DEF CompactKey, TypeOK, TypeBg, Compactions
  <2> QED BY <1>7, <2>1, TypeFrame, Zenon DEF CompactKey, TypeOK
<1>8. CASE CompactKeyFlush
  <2>1. TypeSwitch' BY <1>8 DEF CompactKeyFlush, TypeOK, TypeSwitch
  <2>2. TypeBg'
    <3>1. comp.keys - 1 \in Nat
      BY <1>8 DEF CompactKeyFlush, TypeOK, TypeBg, Compactions
    <3>2. \A n \in Nat : [comp EXCEPT !.keys = n, !.nested = TRUE] \in Compactions
      BY Zenon DEF TypeOK, TypeBg, Compactions
    <3> QED BY <1>8, <3>1, <3>2, ZenonT(30) DEF CompactKeyFlush, TypeOK, TypeBg, BgLabels
  <2> QED BY <1>8, <2>1, <2>2, TypeFrame, Zenon DEF CompactKeyFlush, TypeOK
<1>9. CASE BuildTable
  <2>1. TypeControl'
    BY <1>9, Zenon DEF BuildTable, TypeOK, TypeControl, FlushReturns, RecordBackgroundError,
         SignalAll, BgWaiters, BgCvClients
  <2>2. TypeBg'
    BY <1>9, Zenon DEF BuildTable, TypeOK, TypeBg, BgLabels, Compactions, FlushReturns
  <2> QED BY <1>9, <2>1, <2>2, TypeFrame, Zenon DEF BuildTable, TypeOK
<1>10. CASE InstallFlush
  <2>1. TypeControl'
    BY <1>10, Zenon DEF InstallFlush, TypeOK, TypeControl, FlushReturns,
         RecordBackgroundError, SignalAll, BgWaiters, BgCvClients
  <2>2. TypeSwitch' BY <1>10, Zenon DEF InstallFlush, TypeOK, TypeSwitch
  <2>3. TypeLevel'
    <3>0. l0' = l0 \/ l0' = l0 + 1 BY <1>10, Zenon DEF InstallFlush
    <3>1. l0' \in Nat BY <3>0 DEF TypeOK, TypeLevel
    <3>4. above' = above \/ MoreAbove BY <1>10, Zenon DEF InstallFlush
    <3>5. above' \in Nat
      BY <3>4, BoundAssumption DEF MoreAbove, SomeAbove, TypeOK, TypeLevel
    <3>2. tables' \subseteq Tickets
      BY <1>10, Zenon DEF InstallFlush, TypeOK, TypeLevel, TypeSwitch
    <3>3. seek' \in BOOLEAN /\ samples' = samples
      BY <1>10, Zenon DEF InstallFlush, TypeOK, TypeLevel
    <3> QED BY <3>1, <3>2, <3>3, <3>5, Zenon DEF TypeOK, TypeLevel
  <2>4. TypeBg'
    BY <1>10, Zenon DEF InstallFlush, TypeOK, TypeBg, BgLabels, Compactions, FlushReturns
  <2> QED BY <1>10, <2>1, <2>2, <2>3, <2>4, TypeFrame, Zenon DEF InstallFlush, TypeOK
<1>11. CASE EndCompactionLoop
  <2>1. TypeControl'
    BY <1>11, Zenon DEF EndCompactionLoop, TypeOK, TypeControl, RecordBackgroundError,
         SignalAll, BgWaiters, BgCvClients
  <2>2. TypeBg' BY <1>11, Zenon DEF EndCompactionLoop, TypeOK, TypeBg, BgLabels, Compactions
  <2> QED BY <1>11, <2>1, <2>2, TypeFrame, Zenon DEF EndCompactionLoop, TypeOK
<1>12. CASE InstallCompaction
  <2>1. TypeControl'
    BY <1>12, Zenon DEF InstallCompaction, TypeOK, TypeControl, RecordBackgroundError,
         SignalAll, BgWaiters, BgCvClients
  <2>2. TypeLevel'
    <3>0. above' = above \/ CompactedAbove
      BY <1>12, Zenon DEF InstallCompaction
    <3>1. above' \in Nat
      BY <3>0, BoundAssumption DEF CompactedAbove, SomeAbove, TypeOK, TypeLevel
    <3>2. l0' \in Nat
      BY <1>12 DEF InstallCompaction, InputsStay, TypeOK, TypeLevel, TypeBg,
           Compactions
    <3>3. seek' \in BOOLEAN /\ tables' = tables /\ samples' = samples
      BY <1>12, Zenon DEF InstallCompaction, TypeOK, TypeLevel
    <3> QED BY <3>1, <3>2, <3>3, Zenon DEF TypeOK, TypeLevel
  <2>3. TypeBg' BY <1>12, Zenon DEF InstallCompaction, TypeOK, TypeBg, BgLabels, Compactions
  <2> QED BY <1>12, <2>1, <2>2, <2>3, TypeFrame, Zenon DEF InstallCompaction, TypeOK
<1>13. CASE FinishCompaction
  <2>1. TypeBg' BY <1>13, Zenon DEF FinishCompaction, TypeOK, TypeBg, BgLabels
  <2>2. TypeManual'
    <3> DEFINE M == [left : Int, done : BOOLEAN]
    <3>1. \A m \in M : m.left \in Int /\ \A n \in Int : [m EXCEPT !.left = n] \in M
      OBVIOUS
    <3>2. \A m \in M : [m EXCEPT !.done = TRUE] \in M BY Zenon
    <3>3. mc \in [Threads -> M] /\ manual \in Threads \cup {Free}
      BY Zenon DEF TypeOK, TypeManual
    <3> HIDE DEF M
    <3>4. CASE ~comp.manual
      BY <1>13, <3>3, <3>4, Zenon DEF FinishCompaction, manualVars, TypeManual, M
    <3>5. CASE comp.manual
      <4>1. manual \in Threads BY <1>13, <3>3, <3>5, Zenon DEF FinishCompaction
      <4> DEFINE m == mc[manual]
      <4>0. m \in M BY <3>3, <4>1, Zenon
      <4>5. m.left - 1 \in Int BY <3>1, <4>0
      <4>2. [m EXCEPT !.left = @ - 1] \in M BY <3>1, <4>0, <4>5, Zenon
      <4>3. [m EXCEPT !.done = TRUE] \in M BY <3>2, <4>0, Zenon
      <4>4. mc' \in [Threads -> M]
        <5>1. \/ mc' = [mc EXCEPT ![manual] = [m EXCEPT !.left = @ - 1]]
              \/ mc' = [mc EXCEPT ![manual] = [m EXCEPT !.done = TRUE]]
          <6>1. comp.ok \in BOOLEAN BY Zenon DEF TypeOK, TypeBg, Compactions
          <6> QED BY <1>13, <3>5, <6>1, Zenon DEF FinishCompaction
        <5> HIDE DEF m
        <5> QED BY <3>3, <4>1, <4>2, <4>3, <5>1, ZenonT(30)
      <4> QED BY <1>13, <3>5, <4>4, Zenon DEF FinishCompaction, TypeManual, M
    <3> QED BY <3>4, <3>5, Zenon
  <2> QED BY <1>13, <2>1, <2>2, TypeFrame, Zenon DEF FinishCompaction, TypeOK
<1>14. CASE EndCall
  <2>1. TypeControl'
    BY <1>14, Zenon DEF EndCall, TypeOK, TypeControl, SignalAll, BgWaiters, BgCvClients
  <2>2. TypeBg'
    BY <1>14, Zenon DEF EndCall, TypeOK, TypeBg, BgLabels, NoCompaction, Compactions,
         MaybeSchedule
  <2> QED BY <1>14, <2>1, <2>2, TypeFrame, Zenon DEF EndCall, TypeOK
<1>15. CASE UpdateStats
  <2>1. TypeLevel' BY <1>15, BoundAssumption DEF UpdateStats, TypeOK, TypeLevel
  <2>2. TypeBg' BY <1>15, Zenon DEF UpdateStats, TypeOK, TypeBg, MaybeSchedule
  <2> QED BY <1>15, <2>1, <2>2, TypeFrame, Zenon DEF UpdateStats, TypeOK
<1>16. CASE Destroy
  <2>1. TypeControl' BY <1>16, Zenon DEF Destroy, TypeOK, TypeControl
  <2> QED BY <1>16, <2>1, TypeFrame, Zenon DEF Destroy, TypeOK
<1>17. ASSUME NEW t \in Threads, BeginWrite(t) \/ BeginCompactRange(t) PROVE TypeOK'
  <2>1. PICK b \in Batches \cup {NullBatch}, sync \in BOOLEAN : Enter(t, b, sync)
    BY <1>17, Zenon DEF BeginWrite, BeginCompactRange
  <2>2. TypeControl'
    BY <2>1, Zenon DEF Enter, TypeOK, TypeControl, Goto, Labels, HoldsMutex, Leads, Waiting, Unlocked
  <2>3. TypeWrite'
    <3>1. tickets + 1 \in Tickets BY <2>1, BoundAssumption DEF Enter, TypeOK, TypeWrite, Tickets
    <3>2. \A k \in 0..MaxTickets :
            [Idle EXCEPT !.ticket = k, !.batch = b, !.sync = sync] \in WriterObjects
      BY ZenonT(30) DEF Idle, WriterObjects
    <3>4. tickets + 1 \in 0..MaxTickets BY <3>1 DEF Tickets
    <3>3. writers' \in Seq(Threads) BY <2>1 DEF Enter, TypeOK, TypeWrite
    <3> QED BY <2>1, <3>4, <3>2, <3>3, ZenonT(30) DEF Enter, TypeOK, TypeWrite
  <2>4. TypeManual'
    <3>1. \A n \in 0..MaxRounds : [left |-> n, done |-> FALSE] \in [left : Int, done : BOOLEAN]
      BY BoundAssumption
    <3>2. CASE BeginWrite(t)
      BY <3>2, TypeFrame, Zenon DEF BeginWrite, TypeOK
    <3>3. CASE BeginCompactRange(t)
      BY <3>1, <3>3, Zenon DEF BeginCompactRange, TypeOK, TypeManual
    <3> QED BY <1>17, <3>2, <3>3, Zenon
  <2> QED BY <2>1, <2>2, <2>3, <2>4, TypeFrame, Zenon DEF Enter, TypeOK
<1>18. CASE UNCHANGED vars
  BY <1>18, TypeFrame, Zenon DEF vars, TypeOK, writeVars, switchVars, levelVars, bgVars, manualVars
<1> QED
  BY <1>1, <1>2, <1>3, <1>4, <1>5, <1>6, <1>7, <1>8, <1>9, <1>10, <1>11, <1>12,
       <1>13, <1>14, <1>15, <1>16, <1>17, <1>18, Zenon DEF Next, BackgroundStep, Closed

-----------------------------------------------------------------------------
(* Steps that do not touch the queue.                                      *)

\* The background thread, reads and the destructor leave the clients alone.
LEMMA ClientFrame ==
  ASSUME BackgroundStep \/ UpdateStats \/ Destroy \/ UNCHANGED vars
  PROVE  UNCHANGED <<pc, w, writers, mem, acked>>
<1> USE DEF writeVars
<1>1. CASE BackgroundCall BY <1>1, Zenon DEF BackgroundCall
<1>2. CASE SkipWork BY <1>2, Zenon DEF SkipWork
<1>3. CASE StartFlush BY <1>3, Zenon DEF StartFlush
<1>4. CASE StartManual BY <1>4, Zenon DEF StartManual
<1>5. CASE PickCompaction BY <1>5, Zenon DEF PickCompaction
<1>6. CASE CompactKey BY <1>6, Zenon DEF CompactKey
<1>7. CASE CompactKeyFlush BY <1>7, Zenon DEF CompactKeyFlush
<1>8. CASE BuildTable BY <1>8, Zenon DEF BuildTable
<1>9. CASE InstallFlush BY <1>9, Zenon DEF InstallFlush
<1>10. CASE EndCompactionLoop BY <1>10, Zenon DEF EndCompactionLoop
<1>11. CASE InstallCompaction BY <1>11, Zenon DEF InstallCompaction
<1>12. CASE FinishCompaction BY <1>12, Zenon DEF FinishCompaction
<1>13. CASE EndCall BY <1>13, Zenon DEF EndCall
<1>14. CASE UpdateStats BY <1>14, Zenon DEF UpdateStats
<1>15. CASE Destroy BY <1>15, Zenon DEF Destroy
<1>16. CASE UNCHANGED vars BY <1>16, Zenon DEF vars
<1> QED
  BY <1>1, <1>2, <1>3, <1>4, <1>5, <1>6, <1>7, <1>8, <1>9, <1>10, <1>11, <1>12,
     <1>13, <1>14, <1>15, <1>16, Zenon
  DEF BackgroundStep

\* The fields of a Writer object that the queue's invariant reads.
Kept(r, s) ==
  r.ticket = s.ticket /\ r.batch = s.batch /\ r.done = s.done /\ r.group = s.group

\* Setting a status, a flag of MakeRoomForWrite or the sequence numbers of the
\* group leaves those fields alone, in every thread.
LEMMA SlotsKept ==
  ASSUME TypeOK, NEW t \in Threads, NEW b \in BOOLEAN, NEW m \in Nat, NEW n \in Nat,
         \/ w' = w
         \/ w' = [w EXCEPT ![t].ok = b]
         \/ w' = [w EXCEPT ![t].delay = b]
         \/ w' = [w EXCEPT ![t].force = b]
         \/ w' = [w EXCEPT ![t].first = m, ![t].last = n]
  PROVE  /\ \A u \in Threads : Kept(w'[u], w[u])
         /\ \A u \in Threads \ {t} : w'[u] = w[u]
<1>1. w \in [Threads -> WriterObjects] BY Zenon DEF TypeOK, TypeWrite
<1>2. \A x \in WriterObjects :
        /\ Kept(x, x)
        /\ Kept([x EXCEPT !.ok = b], x) /\ Kept([x EXCEPT !.delay = b], x)
        /\ Kept([x EXCEPT !.force = b], x)
        /\ Kept([x EXCEPT !.first = m, !.last = n], x)
  BY Zenon DEF WriterObjects, Kept
<1> QED BY <1>1, <1>2, ZenonT(30)

\* A thread moves inside its part of Write, and the queue stays as it is.
LEMMA QueueMove ==
  ASSUME TypeOK, QueueConsistent, NEW t \in Threads, NEW l,
         writers' = writers, pc' = [pc EXCEPT ![t] = l],
         \A u \in Threads : Kept(w'[u], w[u]),
         \/ pc[t] \in Leads /\ l \in Leads
         \/ pc[t] \in {"check", "cv"} /\ l \in {"check", "cv"}
         \/ pc[t] \notin Queued /\ l \notin Queued,
         l \in {"room", "roomcv", "sleep"} => w[t].group = 1
  PROVE  QueueConsistent'
<1>1. pc \in [Threads -> Labels] /\ writers \in Seq(Threads)
  BY ZenonT(60) DEF TypeOK, TypeControl, TypeWrite
<1>2. \A u \in Threads : /\ pc'[u] \in Leads <=> pc[u] \in Leads
                         /\ pc'[u] \in {"check", "cv"} <=> pc[u] \in {"check", "cv"}
                         /\ pc'[u] \in Queued <=> pc[u] \in Queued
                         /\ pc'[u] \in {"room", "roomcv", "sleep"} => w[u].group = 1
  BY <1>1 DEF Queued, Leads, QueueConsistent
<1>3. \A i \in 1..Len(writers) : writers[i] \in Threads BY <1>1
<1> QED BY <1>1, <1>2, <1>3 DEF QueueConsistent, Kept

\* What is left of a sequence when a prefix is dropped.
LEMMA DropPrefix ==
  ASSUME NEW S, NEW s \in Seq(S), NEW g \in 1..Len(s)
  PROVE  LET r == SubSeq(s, g + 1, Len(s))
         IN  Len(r) = Len(s) - g /\ \A i \in 1..Len(r) : r[i] = s[i + g]
OBVIOUS

\* The queue's invariant is kept by every step.
LEMMA QueueStep == TypeOK /\ QueueConsistent /\ [Next]_vars => QueueConsistent'
<1> SUFFICES ASSUME TypeOK, QueueConsistent, [Next]_vars PROVE QueueConsistent'
  OBVIOUS
<1>1. /\ pc \in [Threads -> Labels] /\ writers \in Seq(Threads)
      /\ w \in [Threads -> WriterObjects]
      /\ \A i \in 1..Len(writers) : writers[i] \in Threads
  BY SMTT(60) DEF TypeOK, TypeControl, TypeWrite
<1>2. CASE BackgroundStep \/ UpdateStats \/ Destroy \/ UNCHANGED vars
  BY <1>2, ClientFrame, SMTT(60) DEF QueueConsistent
<1>3. ASSUME NEW t \in Threads, BeginWrite(t) \/ BeginCompactRange(t)
      PROVE  QueueConsistent'
  <2>1. PICK b \in Batches \cup {NullBatch}, sync \in BOOLEAN : Enter(t, b, sync)
    BY <1>3, Zenon DEF BeginWrite, BeginCompactRange
  <2>2. /\ w'[t].ticket = tickets + 1 /\ ~w'[t].done
        /\ \A u \in Threads \ {t} : w'[u] = w[u] /\ pc'[u] = pc[u]
        /\ pc'[t] = "check" /\ pc[t] = "idle"
    BY <2>1, <1>1, Zenon DEF Enter, Goto, Idle
  <2>3. tickets + 1 \in Tickets
    BY <2>1, BoundAssumption, SMTT(60) DEF Enter, TypeOK, TypeWrite, Tickets
  <2>4. \A i \in 1..Len(writers) : writers[i] # t
    BY <2>2, Zenon DEF QueueConsistent, Queued, Leads
  <2>5. /\ Len(writers') = Len(writers) + 1
        /\ \A i \in 1..Len(writers) : writers'[i] = writers[i]
        /\ writers'[Len(writers) + 1] = t
    BY <2>1, <1>1, SMTT(60) DEF Enter
  <2>6. \A i \in 1..Len(writers') :
          /\ pc'[writers'[i]] \in Queued /\ ~w'[writers'[i]].done
          /\ w'[writers'[i]].ticket \in Tickets
          /\ \A j \in 1..Len(writers') : writers'[i] = writers'[j] => i = j
    BY <1>1, <2>2, <2>3, <2>4, <2>5, SMTT(60) DEF QueueConsistent, Queued
  <2>7. \A u \in Threads :
          /\ pc'[u] \in Leads =>
               Len(writers') > 0 /\ writers'[1] = u /\ w'[u].group \in 1..Len(writers')
          /\ pc'[u] \in {"room", "roomcv", "sleep"} => w'[u].group = 1
          /\ pc'[u] \in {"check", "cv"} /\ ~w'[u].done =>
               \E i \in 1..Len(writers') : writers'[i] = u
          /\ pc'[u] \in {"check", "cv"} => w'[u].ticket \in Tickets
    <3>1. CASE Len(writers) = 0
      BY <3>1, <1>1, <2>2, <2>3, <2>5, SMTT(60) DEF QueueConsistent, Leads
    <3>2. CASE Len(writers) > 0
      BY <3>2, <1>1, <2>2, <2>3, <2>5, SMTT(60) DEF QueueConsistent, Leads
    <3> QED BY <3>1, <3>2, <1>1, SMTT(60)
  <2> QED BY <2>6, <2>7, Zenon DEF QueueConsistent
<1>4. ASSUME NEW t \in Threads, ClientStep(t) PROVE QueueConsistent'
  <2>1. CASE WaitTurn(t)
    BY <2>1, QueueMove, SlotsKept, ZenonT(30) DEF WaitTurn, Goto, writeVars
  <2>2. CASE Lead(t)
    <3>1. PICK k \in 1..Len(writers) : writers[k] = t
      BY <2>2, Zenon DEF Lead, QueueConsistent
    <3>2. Len(writers) > 0 /\ writers[1] = t
      BY <2>2, <3>1, <1>1, SMTT(60) DEF Lead, MyTurn
    <3>3. /\ w'[t].ticket = w[t].ticket /\ w'[t].done = w[t].done /\ w'[t].group = 1
          /\ \A u \in Threads \ {t} : w'[u] = w[u] /\ pc'[u] = pc[u]
          /\ pc'[t] = "room" /\ writers' = writers
      BY <2>2, <1>1 DEF Lead, Goto, WriterObjects
    <3>4. pc[t] = "check" /\ ~w[t].done /\ w[t].ticket \in Tickets
      BY <2>2, Zenon DEF Lead, QueueConsistent
    <3>5. \A u \in Threads \ {t} : pc[u] \notin Leads
      BY <3>2, Zenon DEF QueueConsistent
    <3>6. \A u \in Threads \ {t} : pc'[u] \notin {"room", "roomcv", "sleep"}
      BY <3>3, <3>5, Zenon DEF Leads
    <3>7. \A i \in 1..Len(writers) :
            /\ pc'[writers[i]] \in Queued /\ ~w'[writers[i]].done
            /\ w'[writers[i]].ticket \in Tickets
      BY <1>1, <3>3, <3>4 DEF QueueConsistent, Queued, Leads
    <3>8. "room" \in Leads /\ "room" \notin {"check", "cv"} BY Zenon DEF Leads
    <3> QED BY <1>1, <3>2, <3>3, <3>5, <3>6, <3>7, <3>8, SMTT(30) DEF QueueConsistent
  <2>3. CASE Resume(t)
    <3>1. writers' = writers /\ w' = w /\ pc' = [pc EXCEPT ![t] = ResumeAt(pc[t])]
      BY <2>3, Zenon DEF Resume, Goto, writeVars
    <3>2. CASE pc[t] = "cv"
      BY <3>1, <3>2, QueueMove, SlotsKept, Zenon DEF ResumeAt
    <3>3. CASE pc[t] \in {"roomcv", "sleep"}
      BY <3>1, <3>3, QueueMove, SlotsKept, ZenonT(30) DEF ResumeAt, Leads, QueueConsistent
    <3>4. CASE pc[t] \in {"memcv", "memlock", "manualcv", "manlock"}
      BY <3>1, <3>4, QueueMove, SlotsKept, Zenon DEF ResumeAt, Leads, Queued
    <3> QED BY <2>3, <3>2, <3>3, <3>4, Zenon DEF Resume, Waiting, Unlocked
  <2>4. CASE ReturnDone(t)
    <3>1. \A i \in 1..Len(writers) : writers[i] # t
      BY <2>4, Zenon DEF ReturnDone, QueueConsistent
    <3>2. /\ \A u \in Threads \ {t} : w'[u] = w[u] /\ pc'[u] = pc[u]
          /\ pc'[t] \notin Queued /\ writers' = writers
      BY <2>4, <1>1, Zenon DEF ReturnDone, Goto, ReturnLabel, Queued, Leads
    <3> QED BY <1>1, <3>1, <3>2, SMTT(60) DEF QueueConsistent, Queued, Leads
  <2>5. CASE RoomError(t)
    BY <2>5, QueueMove, SlotsKept, Zenon DEF RoomError, InRoom, Goto, Leads
  <2>6. CASE RoomDelay(t)
    BY <2>6, QueueMove, SlotsKept, Zenon DEF RoomDelay, InRoom, Goto, Leads, QueueConsistent
  <2>7. CASE RoomFound(t)
    <3>1. pc' = [pc EXCEPT ![t] = "pop"] \/ pc' = [pc EXCEPT ![t] = "build"]
      BY <2>7, Zenon DEF RoomFound, Goto
    <3> QED BY <2>7, <3>1, QueueMove, SlotsKept, Zenon DEF RoomFound, InRoom, Leads, writeVars
  <2>8. CASE RoomWait(t)
    BY <2>8, QueueMove, SlotsKept, Zenon
    DEF RoomWait, InRoom, Goto, Leads, writeVars, QueueConsistent
  <2>9. CASE RoomSwitch(t)
    <3>1. pc' = [pc EXCEPT ![t] = "room"]
      BY <2>9, <1>1, Zenon DEF RoomSwitch, CanSwitch, InRoom
    <3>2. \A u \in Threads : Kept(w'[u], w[u])
      BY <2>9, SlotsKept, ZenonT(30) DEF RoomSwitch
    <3>3. writers' = writers /\ pc[t] = "room"
      BY <2>9, Zenon DEF RoomSwitch, CanSwitch, InRoom
    <3>4. pc[t] \in Leads /\ "room" \in Leads /\ w[t].group = 1
      BY <3>3, Zenon DEF Leads, QueueConsistent
    <3> QED BY <3>1, <3>2, <3>3, <3>4, QueueMove, ZenonT(30)
  <2>10. CASE RoomSwitchFails(t)
    BY <2>10, QueueMove, SlotsKept, ZenonT(60) DEF RoomSwitchFails, CanSwitch, InRoom, Goto, Leads
  <2>11. CASE JoinGroup(t)
    <3>1. w[t].group + 1 \in 1..Len(writers)
      <4>1. w[t].group \in 1..Len(writers) BY <2>11, Leadership, Zenon DEF JoinGroup, Leads
      <4>2. w[t].group < Len(writers) BY <2>11, ZenonT(30) DEF JoinGroup, Joins
      <4> QED BY <1>1, <4>1, <4>2, SMTT(30)
    <3>2. /\ w'[t].ticket = w[t].ticket /\ w'[t].done = w[t].done
          /\ w'[t].group = w[t].group + 1
          /\ \A u \in Threads \ {t} : w'[u] = w[u]
          /\ pc' = pc /\ writers' = writers /\ pc[t] = "build"
      <4>1. \A x \in WriterObjects : \A m, n, k :
              /\ [x EXCEPT !.group = k, !.size = m, !.count = n].ticket = x.ticket
              /\ [x EXCEPT !.group = k, !.size = m, !.count = n].done = x.done
              /\ [x EXCEPT !.group = k, !.size = m, !.count = n].group = k
        BY Zenon DEF WriterObjects
      <4>2. pc' = pc /\ writers' = writers /\ pc[t] = "build"
        BY <2>11, Zenon DEF JoinGroup
      <4>3. PICK m, n :
              w' = [w EXCEPT ![t] = [w[t] EXCEPT !.group = w[t].group + 1,
                                                 !.size = m, !.count = n]]
        BY <2>11, ZenonT(30) DEF JoinGroup
      <4>4. w[t] \in WriterObjects BY <1>1, Zenon
      <4>5. w'[t] = [w[t] EXCEPT !.group = w[t].group + 1, !.size = m, !.count = n]
        BY <4>3, <1>1, ZenonT(30)
      <4>6. \A u \in Threads \ {t} : w'[u] = w[u] BY <4>3, <1>1, ZenonT(30)
      <4>7. w'[t].ticket = w[t].ticket /\ w'[t].done = w[t].done
        BY <4>1, <4>4, <4>5, SMTT(30)
      <4>8. w'[t].group = w[t].group + 1 BY <4>1, <4>4, <4>5, SMTT(30)
      <4> QED BY <4>2, <4>6, <4>7, <4>8, Zenon
    <3> QED BY <1>1, <3>1, <3>2, SMTT(60) DEF QueueConsistent, Queued, Leads
  <2>12. CASE CloseGroup(t)
    <3>1. last_seq + 1 \in Nat /\ last_seq + w[t].count \in Nat
      BY WriterNumbers DEF TypeOK, TypeWrite
    <3> QED BY <2>12, <3>1, QueueMove, SlotsKept, Zenon DEF CloseGroup, Goto, Leads
  <2>13. CASE AddRecord(t)
    BY <2>13, QueueMove, SlotsKept, Zenon DEF AddRecord, Goto, Leads
  <2>14. CASE SyncLog(t)
    BY <2>14, QueueMove, SlotsKept, Zenon DEF SyncLog, Goto, Leads
  <2>15. CASE InsertInto(t)
    BY <2>15, QueueMove, SlotsKept, Zenon DEF InsertInto, Goto, Leads
  <2>16. CASE Publish(t)
    BY <2>16, QueueMove, SlotsKept, ZenonT(30) DEF Publish, Goto, Leads
  <2>17. CASE Pop(t)
    <3> DEFINE g == w[t].group
    <3>1. pc[t] = "pop" /\ writers[1] = t /\ g \in 1..Len(writers)
      BY <2>17, ZenonT(30) DEF Pop, QueueConsistent, Leads
    <3>2. /\ Len(writers') = Len(writers) - g
          /\ \A i \in 1..Len(writers') : writers'[i] = writers[i + g]
      <4> HIDE DEF g
      <4>1. writers' = SubSeq(writers, g + 1, Len(writers)) BY <2>17, ZenonT(30) DEF Pop, g
      <4> QED BY <4>1, <3>1, <1>1, DropPrefix, Zenon
    <3>3. \A u \in Threads : u # t => pc'[u] = pc[u]
      BY <2>17, <1>1, ZenonT(30) DEF Pop, Goto
    <3>4. pc'[t] \notin Queued
      BY <2>17, <1>1, ZenonT(30) DEF Pop, Goto, ReturnLabel, Queued, Leads
    <3>5. \A u \in Threads \ {t} : u \notin Followers(t) => w'[u] = w[u]
      BY <2>17, ZenonT(30) DEF Pop
    <3>6. \A u \in Followers(t) : u # t => w'[u].done /\ w'[u].ticket = w[u].ticket
      <4>1. Followers(t) \subseteq Threads BY <3>1, Leadership, Zenon DEF Leads
      <4> SUFFICES ASSUME NEW u \in Followers(t), u # t
                   PROVE  w'[u].done /\ w'[u].ticket = w[u].ticket
        OBVIOUS
      <4>2. u \in Threads /\ w[u] \in WriterObjects BY <1>1, <4>1, Zenon
      <4>3. w'[u] = [w[u] EXCEPT !.done = TRUE, !.ok = w[t].ok]
        BY <2>17, <4>2, ZenonT(30) DEF Pop
      <4> QED BY <4>2, <4>3, Zenon DEF WriterObjects
    <3>7. \A i \in 1..Len(writers) :
            /\ writers[i] \in Followers(t) <=> i \in 2..g
            /\ writers[i] = t <=> i = 1
      BY <3>1, SMTT(60) DEF Followers, QueueConsistent
    <3>8. \A i \in 1..Len(writers') :
            /\ i + g \in 1..Len(writers) /\ i + g # 1 /\ i + g \notin 2..g
      BY <3>1, <3>2, <1>1, SMTT(30)
    <3>9. \A i \in 1..Len(writers') :
            /\ writers'[i] \in Threads \ {t} /\ writers'[i] \notin Followers(t)
            /\ pc'[writers'[i]] \in Queued /\ ~w'[writers'[i]].done
            /\ w'[writers'[i]].ticket \in Tickets
            /\ \A j \in 1..Len(writers') : writers'[i] = writers'[j] => i = j
      <4> SUFFICES ASSUME NEW i \in 1..Len(writers')
                   PROVE  /\ writers'[i] \in Threads \ {t} /\ writers'[i] \notin Followers(t)
                          /\ pc'[writers'[i]] \in Queued /\ ~w'[writers'[i]].done
                          /\ w'[writers'[i]].ticket \in Tickets
                          /\ \A j \in 1..Len(writers') : writers'[i] = writers'[j] => i = j
        OBVIOUS
      <4>1. writers'[i] \in Threads \ {t} /\ writers'[i] \notin Followers(t)
        BY <1>1, <3>2, <3>7, <3>8, ZenonT(30)
      <4>2. pc[writers[i + g]] \in Queued /\ ~w[writers[i + g]].done
            /\ w[writers[i + g]].ticket \in Tickets
        BY <3>8, ZenonT(60) DEF QueueConsistent
      <4>3. \A j \in 1..Len(writers') : writers[i + g] = writers[j + g] => i + g = j + g
        BY <3>8, Zenon DEF QueueConsistent
      <4>4. \A j \in 1..Len(writers') : i + g = j + g => i = j BY <3>1, <3>2, <1>1
      <4>5. /\ writers'[i] = writers[i + g]
            /\ \A j \in 1..Len(writers') : writers'[j] = writers[j + g]
        BY <3>2, Zenon
      <4>6. pc'[writers'[i]] = pc[writers[i + g]] /\ w'[writers'[i]] = w[writers[i + g]]
        BY <3>3, <3>5, <4>1, <4>5, ZenonT(30)
      <4>7. \A j \in 1..Len(writers') : writers'[i] = writers'[j] => i = j
        BY <4>3, <4>4, <4>5, ZenonT(30)
      <4> QED BY <4>1, <4>2, <4>6, <4>7, ZenonT(30)
    <3>10. \A u \in Threads : pc'[u] \notin Leads
      BY <3>1, <3>3, <3>4, Zenon DEF QueueConsistent, Queued
    <3>11. ASSUME NEW u \in Threads, pc'[u] \in {"check", "cv"}
           PROVE  /\ w'[u].ticket \in Tickets
                  /\ ~w'[u].done => \E i \in 1..Len(writers') : writers'[i] = u
      <4>1. u # t /\ pc[u] \in {"check", "cv"} /\ w[u].ticket \in Tickets
        BY <3>3, <3>4, <3>11, Zenon DEF Queued, QueueConsistent
      <4>2. CASE u \in Followers(t)
        BY <4>1, <4>2, <3>6, Zenon
      <4>3. CASE u \notin Followers(t) /\ w[u].done
        BY <4>1, <4>3, <3>5, Zenon
      <4>4. CASE u \notin Followers(t) /\ ~w[u].done
        <5>1. PICK i \in 1..Len(writers) : writers[i] = u
          BY <4>1, <4>4, ZenonT(60) DEF QueueConsistent
        <5>2. i \notin 1..g BY <5>1, <4>1, <4>4, <3>1, <3>7
        <5>3. i - g \in 1..Len(writers') /\ writers'[i - g] = u
          <6>1. i - g \in 1..Len(writers') /\ (i - g) + g = i
            <7>1. Len(writers) \in Nat /\ Len(writers') = Len(writers) - g /\ g \in 1..Len(writers)
              BY <3>1, <3>2, <1>1
            <7> QED BY <5>2, <7>1
          <6> QED BY <5>1, <6>1, <3>2, ZenonT(60)
        <5> QED BY <4>1, <4>4, <5>3, <3>5, ZenonT(60)
      <4> QED BY <4>2, <4>3, <4>4, Zenon
    <3>12. \A u \in Threads : pc'[u] \notin {"room", "roomcv", "sleep"}
      BY <3>10, Zenon DEF Leads
    <3> QED BY <3>9, <3>10, <3>11, <3>12, Zenon DEF QueueConsistent
  <2>18. CASE WaitFlushed(t)
    BY <2>18, QueueMove, SlotsKept, Zenon DEF WaitFlushed, Goto, Leads, Queued, writeVars
  <2>19. CASE RegisterManual(t)
    BY <2>19, SMTT(60) DEF RegisterManual, writeVars, QueueConsistent
  <2>20. CASE WaitManual(t)
    BY <2>20, QueueMove, SlotsKept, Zenon DEF WaitManual, Goto, Leads, Queued, writeVars
  <2>21. CASE LeaveManual(t)
    BY <2>21, QueueMove, SlotsKept, Zenon DEF LeaveManual, Goto, Leads, Queued, writeVars
  <2> QED
    BY <1>4, <2>1, <2>2, <2>3, <2>4, <2>5, <2>6, <2>7, <2>8, <2>9, <2>10, <2>11, <2>12,
       <2>13, <2>14, <2>15, <2>16, <2>17, <2>18, <2>19, <2>20, <2>21, Zenon
    DEF ClientStep
<1> QED BY <1>2, <1>3, <1>4, Zenon DEF Next, Closed

-----------------------------------------------------------------------------
(* The background thread's invariants.                                     *)

\* Nothing that can be read goes away: a switch finds imm_ gone, and a flush moves
\* imm_ into the tables.
LEMMA ReadableGrows == TypeOK /\ FlushHasImm /\ [Next]_vars => Readable \subseteq Readable'
<1> SUFFICES ASSUME TypeOK, FlushHasImm, [Next]_vars PROVE Readable \subseteq Readable'
  OBVIOUS
<1> USE DEF writeVars, switchVars, levelVars, Readable
<1>1. ASSUME NEW t \in Threads, BeginWrite(t) \/ BeginCompactRange(t)
      PROVE  Readable \subseteq Readable'
  BY <1>1, ZenonT(30) DEF BeginWrite, BeginCompactRange, Enter
<1>2. ASSUME NEW t \in Threads, ClientStep(t) PROVE Readable \subseteq Readable'
  <2>1. CASE RoomSwitch(t)
    BY <2>1, Zenon DEF RoomSwitch, CanSwitch, FlushHasImm
  <2>2. CASE InsertInto(t) BY <2>2, Zenon DEF InsertInto
  <2>3. CASE WaitTurn(t) \/ Lead(t) \/ Resume(t) \/ ReturnDone(t)
    BY <2>3, Zenon DEF WaitTurn, Lead, Resume, ReturnDone
  <2>4. CASE RoomError(t) \/ RoomDelay(t) \/ RoomFound(t) \/ RoomWait(t) \/ RoomSwitchFails(t)
    BY <2>4, Zenon DEF RoomError, RoomDelay, RoomFound, RoomWait, RoomSwitchFails
  <2>5. CASE JoinGroup(t) \/ CloseGroup(t) \/ AddRecord(t) \/ SyncLog(t)
    BY <2>5, ZenonT(30) DEF JoinGroup, CloseGroup, AddRecord, SyncLog
  <2>6. CASE Publish(t) \/ Pop(t) BY <2>6, ZenonT(30) DEF Publish, Pop
  <2>7. CASE WaitFlushed(t) \/ RegisterManual(t) \/ WaitManual(t) \/ LeaveManual(t)
    BY <2>7, ZenonT(30) DEF WaitFlushed, RegisterManual, WaitManual, LeaveManual
  <2> QED BY <1>2, <2>1, <2>2, <2>3, <2>4, <2>5, <2>6, <2>7, Zenon DEF ClientStep
<1>3. CASE BackgroundStep
  <2>1. CASE InstallFlush BY <2>1, Zenon DEF InstallFlush
  <2>2. CASE BackgroundCall \/ SkipWork \/ StartFlush
    BY <2>2, Zenon DEF BackgroundCall, SkipWork, StartFlush
  <2>3. CASE StartManual \/ PickCompaction BY <2>3, Zenon DEF StartManual, PickCompaction
  <2>4. CASE CompactKey \/ CompactKeyFlush \/ BuildTable
    BY <2>4, Zenon DEF CompactKey, CompactKeyFlush, BuildTable
  <2>5. CASE EndCompactionLoop \/ InstallCompaction
    BY <2>5, Zenon DEF EndCompactionLoop, InstallCompaction
  <2>6. CASE FinishCompaction \/ EndCall BY <2>6, Zenon DEF FinishCompaction, EndCall
  <2> QED BY <1>3, <2>1, <2>2, <2>3, <2>4, <2>5, <2>6, Zenon DEF BackgroundStep
<1>4. CASE UpdateStats \/ Destroy \/ UNCHANGED vars
  BY <1>4, ZenonT(30) DEF UpdateStats, Destroy, vars
<1> QED BY <1>1, <1>2, <1>3, <1>4, Zenon DEF Next, Closed

\* The steps of the clients that leave the level counters and imm_ to others.
LEMMA LevelFrame ==
  ASSUME NEW t \in Threads,
         BeginWrite(t) \/ BeginCompactRange(t) \/ (ClientStep(t) /\ ~RoomSwitch(t))
  PROVE  UNCHANGED <<imm, has_imm, tables, l0, bgpc, comp>>
<1> USE DEF switchVars, levelVars, bgVars
<1>1. CASE BeginWrite(t) \/ BeginCompactRange(t)
  BY <1>1, ZenonT(30) DEF BeginWrite, BeginCompactRange, Enter
<1>2. CASE WaitTurn(t) \/ Lead(t) \/ Resume(t) \/ ReturnDone(t)
  BY <1>2, Zenon DEF WaitTurn, Lead, Resume, ReturnDone
<1>3. CASE RoomError(t) \/ RoomDelay(t) \/ RoomFound(t) \/ RoomWait(t) \/ RoomSwitchFails(t)
  BY <1>3, Zenon DEF RoomError, RoomDelay, RoomFound, RoomWait, RoomSwitchFails
<1>4. CASE JoinGroup(t) \/ CloseGroup(t) \/ AddRecord(t) \/ SyncLog(t) \/ InsertInto(t)
  BY <1>4, ZenonT(30) DEF JoinGroup, CloseGroup, AddRecord, SyncLog, InsertInto
<1>5. CASE Publish(t) \/ Pop(t) BY <1>5, ZenonT(30) DEF Publish, Pop
<1>6. CASE WaitFlushed(t) \/ RegisterManual(t) \/ WaitManual(t) \/ LeaveManual(t)
  BY <1>6, ZenonT(30) DEF WaitFlushed, RegisterManual, WaitManual, LeaveManual
<1> QED BY <1>1, <1>2, <1>3, <1>4, <1>5, <1>6, Zenon DEF ClientStep

\* What the background thread holds on to, and the bound on level 0, are kept by
\* every step.
LEMMA LevelStep ==
  TypeOK /\ FlushHasImm /\ InputsStay /\ [Next]_vars =>
    FlushHasImm' /\ InputsStay' /\ (LevelZeroBounded => LevelZeroBounded')
<1> DEFINE Goal == FlushHasImm' /\ InputsStay' /\ (LevelZeroBounded => LevelZeroBounded')
<1> SUFFICES ASSUME TypeOK, FlushHasImm, InputsStay, [Next]_vars PROVE Goal
  OBVIOUS
<1>1. /\ has_imm \in BOOLEAN /\ l0 \in Nat /\ comp.inputs \in Nat /\ StopTrigger \in Nat
      /\ comp \in Compactions
  BY TriggerAssumption, Zenon DEF TypeOK, TypeSwitch, TypeLevel, TypeBg, Compactions
<1> USE DEF FlushHasImm, InputsStay, LevelZeroBounded, switchVars, levelVars, bgVars
<1>2. CASE UNCHANGED <<imm, has_imm, l0, bgpc, comp>>
  BY <1>2, Zenon
<1>3. ASSUME NEW t \in Threads, RoomSwitch(t) PROVE Goal
  BY <1>1, <1>3 DEF RoomSwitch, CanSwitch
<1>4. CASE BackgroundCall
  BY <1>1, <1>4, Zenon DEF BackgroundCall
<1>5. CASE SkipWork
  BY <1>1, <1>5, Zenon DEF SkipWork
<1>6. CASE StartFlush
  BY <1>1, <1>6 DEF StartFlush, BeginWork
<1>7. CASE StartManual \/ PickCompaction
  <2>1. UNCHANGED <<imm, has_imm, l0>>
    BY <1>7, Zenon DEF StartManual, PickCompaction
  <2>2. \/ bgpc' = "end"
        \/ bgpc' = "compact" /\ comp'.inputs \in 0..l0
    BY <1>7, Zenon DEF StartManual, PickCompaction, StartCompaction, CompactionsAt
  <2> QED BY <1>1, <2>1, <2>2
<1>8. CASE CompactKey \/ CompactKeyFlush
  <2>1. comp'.inputs = comp.inputs
    BY <1>1, <1>8, Zenon DEF CompactKey, CompactKeyFlush, Compactions
  <2> QED BY <1>1, <1>8, <2>1 DEF CompactKey, CompactKeyFlush
<1>9. ASSUME NEW failed \in BOOLEAN, FlushReturns(failed)
      PROVE  bgpc' \in {"compact", "end"} /\ comp'.inputs = comp.inputs
  BY <1>1, <1>9, Zenon DEF FlushReturns, Compactions
<1>10. CASE BuildTable
  BY <1>1, <1>9, <1>10, Zenon DEF BuildTable
<1>11. CASE InstallFlush
  <2>1. bgpc' \in {"compact", "end"} /\ comp'.inputs = comp.inputs
    BY <1>9, <1>11, Zenon DEF InstallFlush
  <2>2. bgpc = "manifest" BY <1>11, Zenon DEF InstallFlush
  <2>3. \/ has_imm' = FALSE /\ imm' = {} /\ l0' \in {l0, l0 + 1}
        \/ UNCHANGED <<imm, has_imm, l0>>
    BY <1>11, Zenon DEF InstallFlush
  <2>4. FlushHasImm' BY <2>1, <2>3, Zenon
  <2>5. comp.inputs <= l0 /\ has_imm BY <2>2, Zenon
  <2>6. \/ l0' = l0 + 1 /\ ~has_imm'
        \/ l0' = l0 /\ (has_imm' => has_imm)
    BY <2>3, Zenon
  <2>7. comp'.inputs <= l0' BY <1>1, <2>1, <2>5, <2>6
  <2>8. InputsStay' BY <2>1, <2>7, Zenon
  <2>9. LevelZeroBounded => LevelZeroBounded'
    <3>1. CASE l0' = l0 + 1 /\ ~has_imm' BY <1>1, <2>5, <3>1
    <3>2. CASE l0' = l0 /\ (has_imm' => has_imm) BY <1>1, <2>5, <3>2
    <3> QED BY <2>6, <3>1, <3>2, Zenon
  <2> QED BY <2>4, <2>8, <2>9, Zenon
<1>12. CASE EndCompactionLoop
  <2>1. comp'.inputs = comp.inputs
    BY <1>1, <1>12, Zenon DEF EndCompactionLoop, Compactions
  <2> QED BY <1>1, <1>12, <2>1, Zenon DEF EndCompactionLoop
<1>13. CASE InstallCompaction
  <2>1. l0' \in {l0, l0 - comp.inputs} /\ comp.inputs <= l0
    BY <1>13, Zenon DEF InstallCompaction
  <2> QED BY <1>1, <1>13, <2>1 DEF InstallCompaction
<1>14. CASE FinishCompaction
  BY <1>1, <1>14, Zenon DEF FinishCompaction
<1>15. CASE EndCall
  BY <1>1, <1>15, Zenon DEF EndCall, NoCompaction
<1>16. CASE BackgroundStep
  BY <1>16, <1>4, <1>5, <1>6, <1>7, <1>8, <1>10, <1>11, <1>12, <1>13, <1>14, <1>15, ZenonT(30)
  DEF BackgroundStep
<1>17. CASE UpdateStats \/ Destroy \/ UNCHANGED vars
  BY <1>2, <1>17, Zenon DEF UpdateStats, Destroy, vars
<1> HIDE DEF Goal
<1> QED BY <1>2, <1>3, <1>16, <1>17, LevelFrame, Zenon DEF Next, Closed

-----------------------------------------------------------------------------
(* What a status of OK promises.                                           *)

\* A leader's group brings the same tickets as long as the queue only grows and the
\* queued Writer objects keep their batches.
LEMMA GroupKept ==
  ASSUME TypeOK, QueueConsistent, NEW t \in Threads, pc[t] \in Leads,
         writers' = writers \/ (\E x \in Threads : writers' = Append(writers, x)),
         \A i \in 1..Len(writers) : Kept(w'[writers[i]], w[writers[i]])
  PROVE  GroupTickets(t)' = GroupTickets(t)
<1>1. writers[1] = t /\ w[t].group \in 1..Len(writers) /\ writers \in Seq(Threads)
  BY Leadership, Zenon DEF TypeOK, TypeWrite
<1>2. 1 \in 1..Len(writers) BY <1>1, SMTT(30)
<1>3. w'[t].group = w[t].group BY <1>1, <1>2, Zenon DEF Kept
<1>4. \A i \in 1..Len(writers) : writers'[i] = writers[i] BY <1>1
<1>5. \A i \in 1..w[t].group : i \in 1..Len(writers) BY <1>1, SMTT(60)
<1>6. \A i \in 1..w[t].group : /\ w'[writers'[i]].ticket = w[writers[i]].ticket
                               /\ w'[writers'[i]].batch = w[writers[i]].batch
  BY <1>4, <1>5, Zenon DEF Kept
<1> QED BY <1>3, <1>6, ZenonT(30) DEF GroupTickets

\* A thread moves inside its part of Write, and the promises survive.
LEMMA DoneMove ==
  ASSUME TypeOK, QueueConsistent, DoneIsReadable, Readable \subseteq Readable',
         NEW t \in Threads, NEW l, pc' = [pc EXCEPT ![t] = l], writers' = writers,
         \A u \in Threads : Kept(w'[u], w[u]),
         \A u \in Threads \ {t} : w'[u] = w[u],
         l \in {"logged", "pop"} =>
           pc[t] \in Leads /\ (w'[t].ok => GroupTickets(t) \subseteq Readable'),
         l \in {"check", "cv"} => pc[t] \in {"check", "cv"} /\ w'[t] = w[t],
         l = "syncfail" => ~w'[t].ok
  PROVE  DoneIsReadable'
<1>1. pc \in [Threads -> Labels] /\ \A i \in 1..Len(writers) : writers[i] \in Threads
  BY SMTT(60) DEF TypeOK, TypeControl, TypeWrite
<1>2. \A u \in Threads : pc[u] \in Leads => GroupTickets(u)' = GroupTickets(u)
  <2>1. \A i \in 1..Len(writers) : Kept(w'[writers[i]], w[writers[i]]) BY <1>1, ZenonT(30)
  <2> QED BY <2>1, GroupKept, Zenon
<1>3. ASSUME NEW u \in Threads \ {t}
      PROVE  /\ pc'[u] \in {"logged", "pop"} /\ w'[u].ok => GroupTickets(u)' \subseteq Readable'
             /\ pc'[u] \in {"check", "cv"} /\ w'[u].done /\ w'[u].ok /\ w'[u].batch # NullBatch
                  => w'[u].ticket \in Readable'
             /\ pc'[u] = "syncfail" => ~w'[u].ok
  <2>1. u \in Threads /\ pc'[u] = pc[u] /\ w'[u] = w[u] BY <1>1, <1>3, ZenonT(30)
  <2>2. "logged" \in Leads /\ "pop" \in Leads BY Zenon DEF Leads
  <2>3. pc[u] \in {"logged", "pop"} => GroupTickets(u)' = GroupTickets(u)
    BY <2>1, <2>2, <1>2, ZenonT(30)
  <2> QED BY <2>1, <2>3, <1>1, ZenonT(30) DEF DoneIsReadable
<1>4. /\ pc'[t] \in {"logged", "pop"} /\ w'[t].ok => GroupTickets(t)' \subseteq Readable'
      /\ pc'[t] \in {"check", "cv"} /\ w'[t].done /\ w'[t].ok /\ w'[t].batch # NullBatch
           => w'[t].ticket \in Readable'
      /\ pc'[t] = "syncfail" => ~w'[t].ok
  BY <1>1, <1>2, ZenonT(30) DEF DoneIsReadable
<1> QED BY <1>3, <1>4, ZenonT(30) DEF DoneIsReadable

\* The promises are kept by every step.
LEMMA DoneStep ==
  TypeOK /\ QueueConsistent /\ FlushHasImm /\ DoneIsReadable /\ [Next]_vars => DoneIsReadable'
<1> SUFFICES ASSUME TypeOK, QueueConsistent, FlushHasImm, DoneIsReadable, [Next]_vars
             PROVE  DoneIsReadable'
  OBVIOUS
<1>1. /\ pc \in [Threads -> Labels] /\ writers \in Seq(Threads)
      /\ w \in [Threads -> WriterObjects]
      /\ \A i \in 1..Len(writers) : writers[i] \in Threads
  BY DEF TypeOK, TypeControl, TypeWrite
<1>2. Readable \subseteq Readable' BY ReadableGrows, Zenon
<1>3. CASE BackgroundStep \/ UpdateStats \/ Destroy \/ UNCHANGED vars
  <2>1. UNCHANGED <<pc, w, writers>> BY <1>3, ClientFrame, Zenon
  <2>2. \A u \in Threads : GroupTickets(u)' = GroupTickets(u) BY <2>1, Zenon DEF GroupTickets
  <2> QED BY <1>2, <2>1, <2>2, ZenonT(60) DEF DoneIsReadable
<1>4. ASSUME NEW t \in Threads, BeginWrite(t) \/ BeginCompactRange(t)
      PROVE  DoneIsReadable'
  <2>1. PICK b \in Batches \cup {NullBatch}, sync \in BOOLEAN : Enter(t, b, sync)
    BY <1>4, ZenonT(30) DEF BeginWrite, BeginCompactRange
  <2>2. /\ ~w'[t].done /\ pc'[t] = "check" /\ pc[t] = "idle"
        /\ \A u \in Threads \ {t} : w'[u] = w[u] /\ pc'[u] = pc[u]
        /\ writers' = Append(writers, t)
    BY <2>1, <1>1, Zenon DEF Enter, Goto, Idle
  <2>3. \A i \in 1..Len(writers) : writers[i] # t
    BY <2>2, ZenonT(60) DEF QueueConsistent, Queued, Leads
  <2>4. \A i \in 1..Len(writers) : Kept(w'[writers[i]], w[writers[i]])
    BY <1>1, <2>2, <2>3, ZenonT(60) DEF Kept
  <2>5. \A u \in Threads : pc[u] \in Leads => GroupTickets(u)' = GroupTickets(u)
    BY <2>2, <2>4, GroupKept, Zenon
  <2>6. "logged" \in Leads /\ "pop" \in Leads BY Zenon DEF Leads
  <2> QED BY <1>2, <2>2, <2>5, <2>6, Zenon DEF DoneIsReadable
<1>5. ASSUME NEW t \in Threads, ClientStep(t) PROVE DoneIsReadable'
  <2>1. CASE WaitTurn(t)
    BY <2>1, <1>2, DoneMove, SlotsKept, Zenon DEF WaitTurn, Goto, writeVars
  <2>2. CASE Lead(t)
    <3>1. \A u \in Threads \ {t} : pc[u] \notin Leads
      <4>1. writers[1] = t
        <5>1. pc[t] = "check" /\ ~w[t].done /\ t = Head(writers)
          BY <2>2, Zenon DEF Lead, MyTurn
        <5>2. \E i \in 1..Len(writers) : writers[i] = t
          BY <5>1, ZenonT(30) DEF QueueConsistent
        <5> QED BY <1>1, <5>1, <5>2, SMTT(30)
      <4> QED BY <4>1, ZenonT(30) DEF QueueConsistent
    <3>2. /\ \A u \in Threads \ {t} : w'[u] = w[u] /\ pc'[u] = pc[u]
          /\ pc'[t] = "room"
      BY <2>2, <1>1, Zenon DEF Lead, Goto
    <3> QED BY <1>2, <3>1, <3>2, ZenonT(30) DEF DoneIsReadable, Leads
  <2>3. CASE Resume(t)
    <3>1. writers' = writers /\ w' = w /\ pc' = [pc EXCEPT ![t] = ResumeAt(pc[t])]
      BY <2>3, Zenon DEF Resume, Goto, writeVars
    <3>2. /\ ResumeAt(pc[t]) \notin {"logged", "pop", "syncfail", "cv"}
          /\ ResumeAt(pc[t]) = "check" => pc[t] = "cv"
      BY Zenon DEF ResumeAt
    <3> QED BY <1>2, <3>1, <3>2, DoneMove, SlotsKept, ZenonT(30)
  <2>4. CASE ReturnDone(t)
    <3>1. /\ \A i \in 1..Len(writers) : writers[i] # t
          /\ \A u \in Threads \ {t} : w'[u] = w[u] /\ pc'[u] = pc[u]
          /\ pc'[t] \in {"idle", "memlock", "manlock"} /\ writers' = writers
      BY <2>4, <1>1, SMTT(60) DEF ReturnDone, QueueConsistent, Goto, ReturnLabel
    <3>2. \A u \in Threads : pc[u] \in Leads => GroupTickets(u)' = GroupTickets(u)
      BY <1>1, <3>1, GroupKept, ZenonT(30) DEF Kept
    <3>3. "logged" \in Leads /\ "pop" \in Leads BY Zenon DEF Leads
    <3> QED BY <1>2, <3>1, <3>2, <3>3, SMTT(60) DEF DoneIsReadable
  <2>5. CASE RoomError(t) \/ RoomSwitchFails(t)
    <3>1. pc[t] \in Leads
      BY <2>5, Zenon DEF RoomError, RoomSwitchFails, CanSwitch, InRoom, Leads
    <3>2. ~w'[t].ok BY <1>1, <2>5, Zenon DEF RoomError, RoomSwitchFails, WriterObjects
    <3> QED BY <2>5, <1>2, <3>1, <3>2, DoneMove, SlotsKept, Zenon
            DEF RoomError, RoomSwitchFails, Goto
  <2>6. CASE RoomDelay(t)
    BY <2>6, <1>2, DoneMove, SlotsKept, Zenon DEF RoomDelay, Goto
  <2>7. CASE RoomFound(t)
    <3>1. CASE w[t].batch # NullBatch
      BY <2>7, <1>2, <3>1, DoneMove, SlotsKept, Zenon DEF RoomFound, Goto, writeVars
    <3>2. CASE w[t].batch = NullBatch
      <4>1. pc[t] \in Leads /\ w[t].group = 1 /\ writers[1] = t
        BY <2>7, ZenonT(30) DEF RoomFound, InRoom, Leads, QueueConsistent
      <4>2. GroupTickets(t) = {} BY <3>2, <4>1 DEF GroupTickets
      <4> QED BY <2>7, <1>2, <3>2, <4>1, <4>2, DoneMove, SlotsKept, Zenon
              DEF RoomFound, Goto, writeVars
    <3> QED BY <3>1, <3>2, Zenon
  <2>8. CASE RoomWait(t)
    BY <2>8, <1>2, DoneMove, SlotsKept, Zenon DEF RoomWait, Goto, writeVars
  <2>9. CASE RoomSwitch(t)
    <3>1. pc' = [pc EXCEPT ![t] = "room"]
      BY <2>9, <1>1, Zenon DEF RoomSwitch, CanSwitch, InRoom
    <3> QED BY <2>9, <1>2, <3>1, DoneMove, SlotsKept, ZenonT(30) DEF RoomSwitch
  <2>10. CASE JoinGroup(t)
    <3>1. /\ pc[t] = "build" /\ pc' = pc /\ \A u \in Threads \ {t} : w'[u] = w[u]
          /\ \A u \in Threads \ {t} : pc[u] \notin Leads
      BY <2>10, <1>1, SMTT(60) DEF JoinGroup, QueueConsistent, Leads
    <3> QED BY <1>2, <3>1, ZenonT(60) DEF DoneIsReadable, Leads
  <2>11. CASE CloseGroup(t)
    <3>1. last_seq + 1 \in Nat /\ last_seq + w[t].count \in Nat
      BY WriterNumbers DEF TypeOK, TypeWrite
    <3> QED BY <2>11, <1>2, <3>1, DoneMove, SlotsKept, Zenon DEF CloseGroup, Goto
  <2>12. CASE AddRecord(t)
    <3>1. pc[t] \in Leads BY <2>12, Zenon DEF AddRecord, Leads
    <3>2. \/ w' = w /\ pc' = [pc EXCEPT ![t] = "sync"]
          \/ w' = w /\ pc' = [pc EXCEPT ![t] = "insert"]
          \/ w' = [w EXCEPT ![t].ok = FALSE] /\ pc' = [pc EXCEPT ![t] = "logged"]
      BY <2>12, Zenon DEF AddRecord, Goto
    <3>3. w' = [w EXCEPT ![t].ok = FALSE] => ~w'[t].ok BY <1>1, Zenon DEF WriterObjects
    <3>4. writers' = writers BY <2>12, Zenon DEF AddRecord
    <3> QED BY <1>2, <3>1, <3>2, <3>3, <3>4, DoneMove, SlotsKept, Zenon
  <2>13. CASE SyncLog(t)
    <3>1. \/ w' = w /\ pc' = [pc EXCEPT ![t] = "insert"]
          \/ w' = [w EXCEPT ![t].ok = FALSE] /\ pc' = [pc EXCEPT ![t] = "syncfail"]
      BY <2>13, Zenon DEF SyncLog, Goto
    <3>2. w' = [w EXCEPT ![t].ok = FALSE] => ~w'[t].ok BY <1>1, Zenon DEF WriterObjects
    <3>3. writers' = writers BY <2>13, Zenon DEF SyncLog
    <3> QED BY <1>2, <3>1, <3>2, <3>3, DoneMove, SlotsKept, Zenon
  <2>14. CASE InsertInto(t)
    <3>1. pc[t] \in Leads /\ GroupTickets(t) \subseteq Readable'
      BY <2>14, ZenonT(30) DEF InsertInto, Leads, Readable
    <3> QED BY <2>14, <1>2, <3>1, DoneMove, SlotsKept, Zenon DEF InsertInto, Goto
  <2>15. CASE Publish(t)
    <3>1. pc[t] \in Leads /\ (w[t].ok => GroupTickets(t) \subseteq Readable')
      BY <2>15, <1>2, ZenonT(30) DEF Publish, Leads, DoneIsReadable
    <3> QED BY <2>15, <1>2, <3>1, DoneMove, SlotsKept, ZenonT(60) DEF Publish, Goto
  <2>16. CASE Pop(t)
    <3>1. pc[t] = "pop" /\ pc[t] \in Leads BY <2>16, ZenonT(30) DEF Pop, Leads
    <3>2. pc'[t] \in {"idle", "memlock", "manlock"} /\ \A u \in Threads \ {t} : pc'[u] = pc[u]
      BY <2>16, <1>1, ZenonT(30) DEF Pop, Goto, ReturnLabel
    <3>3. \A u \in Threads : pc'[u] \notin Leads
      <4>1. \A u \in Threads \ {t} : pc[u] \notin Leads BY <3>1, SMTT(60) DEF QueueConsistent
      <4>2. {"idle", "memlock", "manlock"} \cap Leads = {} BY Zenon DEF Leads
      <4> QED BY <3>2, <4>1, <4>2, ZenonT(30)
    <3>4. ASSUME NEW u \in Threads, pc'[u] \in {"check", "cv"}, w'[u].done, w'[u].ok,
                 w'[u].batch # NullBatch
          PROVE  w'[u].ticket \in Readable'
      <4>1. u # t /\ pc[u] \in {"check", "cv"} BY <3>2, <3>4, Zenon
      <4>2. CASE u \in Followers(t)
        <5>1. w'[u] = [w[u] EXCEPT !.done = TRUE, !.ok = w[t].ok]
          BY <2>16, <4>1, <4>2, ZenonT(30) DEF Pop
        <5>2. w'[u].ticket = w[u].ticket /\ w'[u].batch = w[u].batch /\ w'[u].ok = w[t].ok
          BY <5>1, <1>1, SMTT(30) DEF WriterObjects
        <5>3. w[u].ticket \in GroupTickets(t)
          BY <3>4, <4>2, <5>2, SMTT(60) DEF Followers, GroupTickets
        <5>4. GroupTickets(t) \subseteq Readable
          BY <3>1, <3>4, <5>2, ZenonT(60) DEF DoneIsReadable
        <5> QED BY <1>2, <5>2, <5>3, <5>4, Zenon
      <4>3. CASE u \notin Followers(t)
        <5>1. w'[u] = w[u] BY <2>16, <4>1, <4>3, ZenonT(30) DEF Pop
        <5> QED BY <1>2, <3>4, <4>1, <5>1, Zenon DEF DoneIsReadable
      <4> QED BY <4>2, <4>3, Zenon
    <3> QED BY <3>3, <3>4, ZenonT(30) DEF DoneIsReadable, Leads
  <2>17. CASE WaitFlushed(t)
    BY <2>17, <1>2, DoneMove, SlotsKept, Zenon DEF WaitFlushed, Goto, writeVars
  <2>18. CASE RegisterManual(t)
    <3>1. UNCHANGED <<pc, w, writers>> BY <2>18, Zenon DEF RegisterManual, writeVars
    <3>2. \A u \in Threads : GroupTickets(u)' = GroupTickets(u) BY <3>1, Zenon DEF GroupTickets
    <3> QED BY <1>2, <3>1, <3>2, Zenon DEF DoneIsReadable
  <2>19. CASE WaitManual(t)
    BY <2>19, <1>2, DoneMove, SlotsKept, Zenon DEF WaitManual, Goto, writeVars
  <2>20. CASE LeaveManual(t)
    BY <2>20, <1>2, DoneMove, SlotsKept, Zenon DEF LeaveManual, Goto, writeVars
  <2> QED
    BY <1>5, <2>1, <2>2, <2>3, <2>4, <2>5, <2>6, <2>7, <2>8, <2>9, <2>10, <2>11, <2>12,
       <2>13, <2>14, <2>15, <2>16, <2>17, <2>18, <2>19, <2>20, Zenon
    DEF ClientStep
<1> QED BY <1>3, <1>4, <1>5, Zenon DEF Next, Closed

\* Results are returned by ReturnDone and Pop only.
LEMMA AckedFrame ==
  ASSUME NEW t \in Threads,
         \/ BeginWrite(t) \/ BeginCompactRange(t)
         \/ ClientStep(t) /\ ~ReturnDone(t) /\ ~Pop(t)
  PROVE  acked' = acked
<1> USE DEF writeVars
<1>1. CASE BeginWrite(t) \/ BeginCompactRange(t)
  BY <1>1, ZenonT(30) DEF BeginWrite, BeginCompactRange, Enter
<1>2. CASE WaitTurn(t) \/ Lead(t) \/ Resume(t)
  BY <1>2, Zenon DEF WaitTurn, Lead, Resume
<1>3. CASE RoomError(t) \/ RoomDelay(t) \/ RoomFound(t) \/ RoomWait(t) \/ RoomSwitchFails(t)
  BY <1>3, Zenon DEF RoomError, RoomDelay, RoomFound, RoomWait, RoomSwitchFails
<1>4. CASE RoomSwitch(t) BY <1>4, Zenon DEF RoomSwitch
<1>5. CASE JoinGroup(t) \/ CloseGroup(t) \/ AddRecord(t) \/ SyncLog(t) \/ InsertInto(t)
  BY <1>5, ZenonT(30) DEF JoinGroup, CloseGroup, AddRecord, SyncLog, InsertInto
<1>6. CASE Publish(t) BY <1>6, Zenon DEF Publish
<1>7. CASE WaitFlushed(t) \/ RegisterManual(t) \/ WaitManual(t) \/ LeaveManual(t)
  BY <1>7, ZenonT(30) DEF WaitFlushed, RegisterManual, WaitManual, LeaveManual
<1> QED BY <1>1, <1>2, <1>3, <1>4, <1>5, <1>6, <1>7, Zenon DEF ClientStep

\* A result of OK is returned only for a batch that can be read.
LEMMA AckedStep ==
  WriteInvariant /\ AckedIsReadable /\ [Next]_vars => AckedIsReadable'
<1> SUFFICES ASSUME WriteInvariant, AckedIsReadable, [Next]_vars PROVE AckedIsReadable'
  OBVIOUS
<1> USE DEF WriteInvariant
<1>1. Readable \subseteq Readable' BY ReadableGrows, Zenon
<1>2. CASE acked' = acked BY <1>1, <1>2, Zenon DEF AckedIsReadable
<1>3. ASSUME NEW t \in Threads, ReturnDone(t) PROVE AckedIsReadable'
  <2>1. /\ acked' = acked \cup {Ack(t, w[t].ok)} /\ pc[t] = "check" /\ w[t].done
    BY <1>3, ZenonT(30) DEF ReturnDone
  <2>2. w[t].ok /\ w[t].batch # NullBatch => w[t].ticket \in Readable
    BY <2>1, ZenonT(60) DEF DoneIsReadable
  <2>4. LET a == Ack(t, w[t].ok) IN a.ok /\ ~a.null => a.ticket \in Readable
    BY <2>2, ZenonT(60) DEF Ack
  <2> QED BY <1>1, <2>1, <2>4, Zenon DEF AckedIsReadable
<1>4. ASSUME NEW t \in Threads, Pop(t) PROVE AckedIsReadable'
  <2>1. acked' = acked \cup {Ack(t, w[t].ok)} /\ pc[t] = "pop" /\ pc[t] \in Leads
    BY <1>4, ZenonT(30) DEF Pop, Leads
  <2>2. w[t].batch # NullBatch => w[t].ticket \in GroupTickets(t)
    <3>1. writers[1] = t /\ 1 \in 1..w[t].group BY <2>1, Leadership, SMTT(30)
    <3> QED BY <3>1, Zenon DEF GroupTickets
  <2>3. w[t].ok /\ w[t].batch # NullBatch => w[t].ticket \in Readable
    BY <2>1, <2>2, ZenonT(60) DEF DoneIsReadable
  <2>4. LET a == Ack(t, w[t].ok) IN a.ok /\ ~a.null => a.ticket \in Readable
    BY <2>3, Zenon DEF Ack
  <2> QED BY <1>1, <2>1, <2>4, Zenon DEF AckedIsReadable
<1> QED BY <1>2, <1>3, <1>4, ClientFrame, AckedFrame, Zenon DEF Next, Closed

-----------------------------------------------------------------------------
(* The theorems.                                                           *)

\* The invariants hold initially.
LEMMA WriteInit == Init => WriteInvariant /\ LevelZeroBounded /\ AckedIsReadable
<1> SUFFICES ASSUME Init PROVE WriteInvariant /\ LevelZeroBounded /\ AckedIsReadable
  OBVIOUS
<1>1. TypeOK BY TypeInit, Zenon
<1>2. QueueConsistent BY SMTT(30) DEF Init, QueueConsistent, Leads
<1>3. DoneIsReadable BY Zenon DEF Init, DoneIsReadable
<1>4. FlushHasImm /\ InputsStay BY ZenonT(60) DEF Init, FlushHasImm, InputsStay, NoCompaction
<1>5. LevelZeroBounded BY TriggerAssumption, SMTT(60) DEF Init, LevelZeroBounded
<1>6. AckedIsReadable BY Zenon DEF Init, AckedIsReadable
<1> QED BY <1>1, <1>2, <1>3, <1>4, <1>5, <1>6, Zenon DEF WriteInvariant

\* The invariant of the write path holds whatever the threads, the batches, the
\* options and the errors of the environment are: in particular every variable keeps
\* its type, and the queue, its leader and its group agree.
THEOREM WritePathInvariant == Spec => []WriteInvariant
<1>1. Init => WriteInvariant BY WriteInit, Zenon
<1>2. WriteInvariant /\ [Next]_vars => WriteInvariant'
  BY TypeStep, QueueStep, LevelStep, DoneStep, Zenon DEF WriteInvariant
<1> QED BY <1>1, <1>2, PTL DEF Spec

\* Write's "&w is currently responsible for logging and protects against concurrent
\* loggers and concurrent writes into mem_": only the front of writers_ is ever
\* inside MakeRoomForWrite, the log or the memtable.
THEOREM OneLogger == Spec => []LoggerIsFront
<1>1. WriteInvariant => LoggerIsFront
  BY Leadership, Zenon DEF WriteInvariant, LoggerIsFront
<1> QED BY <1>1, WritePathInvariant, PTL

\* Switches and flushes never leave more than kL0_StopWritesTrigger files in level 0,
\* the immutable memtable included.
THEOREM LevelZeroStaysBounded == Spec => []LevelZeroBounded
<1>1. Init => LevelZeroBounded BY WriteInit, Zenon
<1>2. WriteInvariant /\ LevelZeroBounded /\ [Next]_vars => LevelZeroBounded'
  BY LevelStep, Zenon DEF WriteInvariant
<1> QED BY <1>1, <1>2, WritePathInvariant, PTL DEF Spec

\* A batch whose Write returned OK stays in mem_, imm_ or a table of the current
\* version, across switches, flushes, failed flushes and compactions.
THEOREM AcknowledgedStaysReadable == Spec => []AckedIsReadable
<1>1. Init => AckedIsReadable BY WriteInit, Zenon
<1>2. WriteInvariant /\ AckedIsReadable /\ [Next]_vars => AckedIsReadable'
  BY AckedStep, Zenon
<1> QED BY <1>1, <1>2, WritePathInvariant, PTL DEF Spec

\* What a Get can find stays in mem_, imm_ or a table: imm_ is overwritten only when it
\* is NULL and given up only when its table is installed.
THEOREM ReadableNeverLost == Spec => ReadableStays
<1>1. WriteInvariant /\ [Next]_vars => [Readable \subseteq Readable']_vars
  BY ReadableGrows, Zenon DEF WriteInvariant
<1> QED BY <1>1, WritePathInvariant, PTL DEF Spec, ReadableStays
=============================================================================
