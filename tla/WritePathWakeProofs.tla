------------------------- MODULE WritePathWakeProofs -------------------------
(***************************************************************************)
(* Nobody waits in vain on the condition variables of the write path, for  *)
(* any number of threads, any batches and options and with or without      *)
(* errors of the environment.                                              *)
(*                                                                         *)
(* The inductive invariant is WakeInvariant on top of WriteInvariant.      *)
(* BackgroundHolds says when the background thread holds mutex_, so that   *)
(* a wakeup it still owes, at the labels "finish" and "end", cannot be     *)
(* overtaken; CallersKeepOpen keeps the destructor and a finished manual   *)
(* compaction away from the waiters.                                       *)
(***************************************************************************)
EXTENDS WritePathLogProofs

-----------------------------------------------------------------------------
(* What the steps of a client leave alone.                                 *)

\* A step of one client thread, seen from the others.
ClientShape(t) ==
  /\ UNCHANGED <<bgpc, shutdown>>
  /\ \A u \in Threads \ {t} : pc'[u] = pc[u]
  /\ \A u \in Threads \ {t} : u \in signaled => u \in signaled'
  /\ mutex' = mutex \/ (mutex # Bg /\ mutex' # Bg)
  /\ shutdown = "open" \/ pc[t] # "idle"
  /\ scheduled => scheduled'
  /\ bg_error => bg_error'

\* Every step of a client has that shape.
LEMMA ClientShapes ==
  ASSUME TypeOK, NEW t \in Threads, BeginWrite(t) \/ BeginCompactRange(t) \/ ClientStep(t)
  PROVE  ClientShape(t)
<1> USE DEF bgVars
<1>1. pc \in [Threads -> Labels] BY Zenon DEF TypeOK, TypeControl
<1>2. t # Bg /\ Free # Bg BY ThreadsAssumption, Zenon DEF Bg, Free
<1>3. ASSUME NEW l, pc' = [pc EXCEPT ![t] = l] PROVE \A u \in Threads \ {t} : pc'[u] = pc[u]
  BY <1>1, <1>3, Zenon
<1>4. signaled' = signaled \ {t} => \A u \in Threads \ {t} : u \in signaled => u \in signaled'
  BY Zenon
<1>5. CASE BeginWrite(t) \/ BeginCompactRange(t)
  <2>1. PICK b \in Batches \cup {NullBatch}, sync \in BOOLEAN : Enter(t, b, sync)
    BY <1>5, Zenon DEF BeginWrite, BeginCompactRange
  <2> QED BY <1>2, <1>3, <2>1, Zenon DEF Enter, Goto, ClientShape
<1>6. CASE WaitTurn(t) BY <1>2, <1>3, <1>4, <1>6, Zenon DEF WaitTurn, Goto, ClientShape
<1>7. CASE Lead(t) BY <1>2, <1>3, <1>7, Zenon DEF Lead, Goto, ClientShape
<1>8. CASE Resume(t)
  <2>1. pc[t] # "idle" BY <1>8, Zenon DEF Resume, Waiting, Unlocked
  <2> QED BY <1>2, <1>3, <1>4, <1>8, <2>1, Zenon DEF Resume, Goto, ClientShape
<1>9. CASE ReturnDone(t) BY <1>2, <1>3, <1>9, Zenon DEF ReturnDone, Goto, ClientShape
<1>10. CASE RoomError(t) BY <1>2, <1>3, <1>10, Zenon DEF RoomError, InRoom, Goto, ClientShape
<1>11. CASE RoomDelay(t) BY <1>2, <1>3, <1>11, Zenon DEF RoomDelay, InRoom, Goto, ClientShape
<1>12. CASE RoomFound(t) BY <1>2, <1>3, <1>12, Zenon DEF RoomFound, InRoom, Goto, ClientShape
<1>13. CASE RoomWait(t)
  BY <1>2, <1>3, <1>4, <1>13, Zenon DEF RoomWait, InRoom, Goto, ClientShape
<1>14. CASE RoomSwitch(t)
  BY <1>2, <1>14, Zenon DEF RoomSwitch, CanSwitch, InRoom, MaybeSchedule, ClientShape
<1>15. CASE RoomSwitchFails(t)
  BY <1>2, <1>3, <1>15, Zenon DEF RoomSwitchFails, CanSwitch, InRoom, Goto, ClientShape
<1>16. CASE JoinGroup(t) BY <1>2, <1>16, Zenon DEF JoinGroup, ClientShape
<1>17. CASE CloseGroup(t) BY <1>2, <1>3, <1>17, Zenon DEF CloseGroup, Goto, ClientShape
<1>18. CASE AddRecord(t) BY <1>3, <1>18, Zenon DEF AddRecord, Goto, ClientShape
<1>19. CASE SyncLog(t) BY <1>3, <1>19, Zenon DEF SyncLog, Goto, ClientShape
<1>20. CASE InsertInto(t) BY <1>3, <1>20, Zenon DEF InsertInto, Goto, ClientShape
<1>21. CASE Publish(t)
  BY <1>2, <1>3, <1>21, ZenonT(30) DEF Publish, Goto, SignalAll, ClientShape
<1>22. CASE Pop(t) BY <1>2, <1>3, <1>22, ZenonT(30) DEF Pop, Goto, ClientShape
<1>23. CASE WaitFlushed(t)
  BY <1>2, <1>3, <1>4, <1>23, ZenonT(30) DEF WaitFlushed, Goto, ClientShape
<1>24. CASE RegisterManual(t)
  BY <1>2, <1>24, Zenon DEF RegisterManual, MaybeSchedule, ClientShape
<1>25. CASE WaitManual(t)
  BY <1>2, <1>3, <1>4, <1>25, Zenon DEF WaitManual, Goto, ClientShape
<1>26. CASE LeaveManual(t) BY <1>2, <1>3, <1>26, Zenon DEF LeaveManual, Goto, ClientShape
<1> QED
  BY <1>5, <1>6, <1>7, <1>8, <1>9, <1>10, <1>11, <1>12, <1>13, <1>14, <1>15, <1>16, <1>17,
     <1>18, <1>19, <1>20, <1>21, <1>22, <1>23, <1>24, <1>25, <1>26, Zenon
  DEF ClientStep

\* No step takes the notice of a wakeup from a client but the client's own.
LEMMA SignalsStay ==
  ASSUME BackgroundStep \/ UpdateStats \/ Destroy \/ UNCHANGED vars
  PROVE  \A u \in Threads : u \in signaled => u \in signaled'
<1> USE DEF SignalAll, RecordBackgroundError
<1>1. CASE BackgroundCall \/ SkipWork \/ StartFlush \/ CompactKey \/ CompactKeyFlush
  BY <1>1, Zenon DEF BackgroundCall, SkipWork, StartFlush, CompactKey, CompactKeyFlush
<1>2. CASE StartManual \/ PickCompaction BY <1>2, Zenon DEF StartManual, PickCompaction
<1>3. CASE BuildTable BY <1>3, ZenonT(30) DEF BuildTable, FlushReturns
<1>4. CASE InstallFlush BY <1>4, ZenonT(30) DEF InstallFlush, FlushReturns
<1>5. CASE EndCompactionLoop \/ InstallCompaction
  BY <1>5, ZenonT(30) DEF EndCompactionLoop, InstallCompaction
<1>6. CASE FinishCompaction \/ EndCall BY <1>6, ZenonT(30) DEF FinishCompaction, EndCall
<1>7. CASE UpdateStats \/ UNCHANGED vars BY <1>7, Zenon DEF UpdateStats, vars
<1>8. CASE Destroy
  <2>1. Dtor \notin Threads BY ThreadsAssumption, Zenon
  <2> QED BY <1>8, <2>1, Zenon DEF Destroy
<1> QED BY <1>1, <1>2, <1>3, <1>4, <1>5, <1>6, <1>7, <1>8, Zenon DEF BackgroundStep

-----------------------------------------------------------------------------
(* Who holds mutex_, and who keeps the DB open.                            *)

\* The background thread holds mutex_ exactly where it says, and stays scheduled.
LEMMA HoldStep ==
  ASSUME TypeOK, BackgroundHolds, [Next]_vars
  PROVE  BackgroundHolds'
<1> USE DEF BackgroundHolds
<1>1. ASSUME NEW t \in Threads, BeginWrite(t) \/ BeginCompactRange(t) \/ ClientStep(t)
      PROVE  BackgroundHolds'
  BY <1>1, ClientShapes, Zenon DEF ClientShape
<1>2. Free # Bg BY Zenon DEF Bg, Free
<1>3. CASE BackgroundCall BY <1>3, Zenon DEF BackgroundCall
<1>4. CASE SkipWork BY <1>4, Zenon DEF SkipWork
<1>5. CASE StartFlush BY <1>2, <1>5, Zenon DEF StartFlush, BeginWork
<1>6. CASE StartManual \/ PickCompaction
  <2>1. /\ bgpc = "begin" /\ mutex = Bg /\ scheduled' = scheduled
        /\ (bgpc' = "end" /\ mutex' = mutex) \/ (bgpc' = "compact" /\ mutex' = Free)
    BY <1>6, Zenon DEF StartManual, PickCompaction, BeginWork, StartCompaction
  <2> QED BY <1>2, <2>1, Zenon
<1>7. CASE CompactKey \/ CompactKeyFlush
  BY <1>2, <1>7, Zenon DEF CompactKey, CompactKeyFlush
<1>8. CASE BuildTable \/ InstallFlush
  <2>1. /\ bgpc \in {"table", "manifest"} /\ mutex = Free /\ scheduled' = scheduled
        /\ \/ bgpc' \in {"manifest", "compact"} /\ mutex' = mutex
           \/ bgpc' = "end" /\ mutex' = Bg
    BY <1>8, Zenon DEF BuildTable, InstallFlush, FlushReturns
  <2> QED BY <1>2, <2>1, Zenon
<1>9. CASE EndCompactionLoop BY <1>2, <1>9, Zenon DEF EndCompactionLoop
<1>10. CASE InstallCompaction BY <1>2, <1>10, Zenon DEF InstallCompaction
<1>11. CASE FinishCompaction BY <1>11, Zenon DEF FinishCompaction
<1>12. CASE EndCall BY <1>2, <1>12, Zenon DEF EndCall
<1>13. CASE UpdateStats BY <1>13, Zenon DEF UpdateStats, MaybeSchedule
<1>14. CASE Destroy \/ UNCHANGED vars BY <1>14, Zenon DEF Destroy, vars, bgVars
<1> HIDE DEF BackgroundHolds
<1> QED BY <1>1, <1>3, <1>4, <1>5, <1>6, <1>7, <1>8, <1>9, <1>10, <1>11, <1>12, <1>13, <1>14,
           Zenon
        DEF Next, Closed, BackgroundStep

\* A call in progress keeps the destructor away, and a manual compaction that is done
\* is not registered any more.
LEMMA OpenStep ==
  ASSUME TypeOK, CallersKeepOpen, [Next]_vars
  PROVE  CallersKeepOpen'
<1> USE DEF manualVars
<1>1. manual \in Threads \cup {Free} /\ mc \in [Threads -> [left : Int, done : BOOLEAN]]
  BY Zenon DEF TypeOK, TypeManual
<1>2. /\ shutdown # "open" => \A t \in Threads : pc[t] = "idle"
      /\ manual # Free => ~mc[manual].done
  BY Zenon DEF CallersKeepOpen
<1>3. ASSUME UNCHANGED manualVars PROVE manual' # Free => ~mc'[manual'].done
  BY <1>2, <1>3, Zenon
<1>4. ASSUME NEW t \in Threads, BeginWrite(t) \/ BeginCompactRange(t) \/ ClientStep(t)
      PROVE  shutdown' # "open" => \A u \in Threads : pc'[u] = "idle"
  <2>1. ClientShape(t) BY <1>4, ClientShapes, Zenon
  <2>2. shutdown = "open" BY <1>2, <2>1, Zenon DEF ClientShape
  <2> QED BY <2>1, <2>2, Zenon DEF ClientShape
<1>5. ASSUME NEW t \in Threads, BeginWrite(t) \/ BeginCompactRange(t) \/ ClientStep(t)
      PROVE  manual' # Free => ~mc'[manual'].done
  <2>1. \A n : /\ [mc EXCEPT ![t] = [left |-> n, done |-> FALSE]][t].done = FALSE
               /\ \A u \in Threads \ {t} :
                    [mc EXCEPT ![t] = [left |-> n, done |-> FALSE]][u] = mc[u]
    BY <1>1, Zenon
  <2>2. CASE BeginCompactRange(t)
    <3>1. PICK n : manual' = manual /\ mc' = [mc EXCEPT ![t] = [left |-> n, done |-> FALSE]]
      BY <2>2, Zenon DEF BeginCompactRange
    <3> QED BY <1>1, <1>2, <2>1, <3>1, Zenon
  <2>3. CASE LeaveManual(t)
    <3>1. /\ manual' = Free \/ manual' = manual
          /\ mc' = [mc EXCEPT ![t] = [left |-> 0, done |-> FALSE]]
      BY <2>3, Zenon DEF LeaveManual
    <3> QED BY <1>1, <1>2, <2>1, <3>1, Zenon
  <2>4. CASE RegisterManual(t)
    <3>1. manual' = t /\ mc' = mc /\ ~mc[t].done
      BY <2>4, Zenon DEF RegisterManual, ManualGoesOn
    <3> QED BY <3>1, Zenon
  <2>5. CASE BeginWrite(t) BY <1>3, <2>5, Zenon DEF BeginWrite
  <2>6. CASE WaitTurn(t) \/ Lead(t) \/ Resume(t) \/ ReturnDone(t)
    BY <1>3, <2>6, Zenon DEF WaitTurn, Lead, Resume, ReturnDone
  <2>7. CASE RoomError(t) \/ RoomDelay(t) \/ RoomFound(t) \/ RoomWait(t) \/ RoomSwitchFails(t)
    BY <1>3, <2>7, Zenon DEF RoomError, RoomDelay, RoomFound, RoomWait, RoomSwitchFails
  <2>8. CASE RoomSwitch(t) \/ JoinGroup(t) \/ CloseGroup(t)
    BY <1>3, <2>8, Zenon DEF RoomSwitch, JoinGroup, CloseGroup
  <2>9. CASE AddRecord(t) \/ SyncLog(t) \/ InsertInto(t)
    BY <1>3, <2>9, Zenon DEF AddRecord, SyncLog, InsertInto
  <2>10. CASE Publish(t) \/ Pop(t) \/ WaitFlushed(t) \/ WaitManual(t)
    BY <1>3, <2>10, Zenon DEF Publish, Pop, WaitFlushed, WaitManual
  <2> QED BY <1>5, <2>2, <2>3, <2>4, <2>5, <2>6, <2>7, <2>8, <2>9, <2>10, Zenon DEF ClientStep
<1>6. CASE BackgroundStep
  <2>1. shutdown' = shutdown
    <3>1. CASE BackgroundCall \/ SkipWork \/ StartFlush \/ CompactKey \/ CompactKeyFlush
      BY <3>1, Zenon DEF BackgroundCall, SkipWork, StartFlush, CompactKey, CompactKeyFlush
    <3>2. CASE StartManual \/ PickCompaction BY <3>2, Zenon DEF StartManual, PickCompaction
    <3>3. CASE BuildTable \/ InstallFlush BY <3>3, Zenon DEF BuildTable, InstallFlush
    <3>4. CASE EndCompactionLoop \/ InstallCompaction
      BY <3>4, Zenon DEF EndCompactionLoop, InstallCompaction
    <3>5. CASE FinishCompaction \/ EndCall BY <3>5, Zenon DEF FinishCompaction, EndCall
    <3> QED BY <1>6, <3>1, <3>2, <3>3, <3>4, <3>5, Zenon DEF BackgroundStep
  <2>2. pc' = pc BY <1>6, ClientFrame, Zenon
  <2>3. manual' = Free \/ UNCHANGED manualVars
    <3>1. CASE BackgroundCall \/ SkipWork \/ StartFlush \/ CompactKey \/ CompactKeyFlush
      BY <3>1, Zenon DEF BackgroundCall, SkipWork, StartFlush, CompactKey, CompactKeyFlush
    <3>2. CASE StartManual \/ PickCompaction BY <3>2, Zenon DEF StartManual, PickCompaction
    <3>3. CASE BuildTable \/ InstallFlush BY <3>3, Zenon DEF BuildTable, InstallFlush
    <3>4. CASE EndCompactionLoop \/ InstallCompaction
      BY <3>4, Zenon DEF EndCompactionLoop, InstallCompaction
    <3>5. CASE FinishCompaction \/ EndCall BY <3>5, Zenon DEF FinishCompaction, EndCall
    <3> QED BY <1>6, <3>1, <3>2, <3>3, <3>4, <3>5, Zenon DEF BackgroundStep
  <2> QED BY <1>2, <1>3, <2>1, <2>2, <2>3, Zenon DEF CallersKeepOpen
<1>7. CASE UpdateStats \/ UNCHANGED vars
  BY <1>2, <1>7, Zenon DEF UpdateStats, vars, CallersKeepOpen
<1>8. CASE Destroy
  <2>1. pc' = pc /\ UNCHANGED manualVars /\ \A t \in Threads : pc[t] = "idle"
    BY <1>2, <1>8, Zenon DEF Destroy
  <2> QED BY <1>3, <2>1, Zenon DEF CallersKeepOpen
<1> QED BY <1>4, <1>5, <1>6, <1>7, <1>8, Zenon DEF Next, Closed, CallersKeepOpen

-----------------------------------------------------------------------------
(* The writers' own condition variables.                                   *)

\* What a writer on its own condition variable waits for.
TurnCame(u) == pc[u] = "cv" /\ (w[u].done \/ Head(writers) = u)

\* A step that leaves the queue alone wakes nobody up there.
LEMMA TurnFrame ==
  ASSUME TypeOK, NEW t \in Threads, ClientShape(t), writers' = writers,
         \A u \in Threads \ {t} : w'[u].done = w[u].done,
         pc'[t] = "cv" => ~w'[t].done /\ Head(writers) # t,
         \A u \in Threads : TurnCame(u) => u \in signaled
  PROVE  \A u \in Threads : TurnCame(u)' => u \in signaled'
<1>1. ASSUME NEW u \in Threads, u # t, TurnCame(u)' PROVE u \in signaled'
  <2>1. pc'[u] = pc[u] /\ w'[u].done = w[u].done BY <1>1, Zenon DEF ClientShape
  <2>2. TurnCame(u) BY <1>1, <2>1, Zenon DEF TurnCame
  <2> QED BY <1>1, <2>2, Zenon DEF ClientShape
<1>2. ~TurnCame(t)' BY Zenon DEF TurnCame
<1> QED BY <1>1, <1>2, Zenon

\* A writer whose turn has come, or that is done, has been signalled.
LEMMA TurnStep ==
  ASSUME TypeOK, QueueConsistent, [Next]_vars,
         \A u \in Threads : TurnCame(u) => u \in signaled
  PROVE  \A u \in Threads : TurnCame(u)' => u \in signaled'
<1>1. /\ pc \in [Threads -> Labels] /\ w \in [Threads -> WriterObjects]
      /\ writers \in Seq(Threads)
  BY Zenon DEF TypeOK, TypeControl, TypeWrite
<1>2. CASE BackgroundStep \/ UpdateStats \/ Destroy \/ UNCHANGED vars
  <2>1. UNCHANGED <<pc, w, writers>> BY <1>2, ClientFrame, Zenon
  <2> QED BY <1>2, <2>1, SignalsStay, Zenon DEF TurnCame
<1>3. ASSUME NEW t \in Threads, BeginWrite(t) \/ BeginCompactRange(t)
      PROVE  \A u \in Threads : TurnCame(u)' => u \in signaled'
  <2>1. PICK b \in Batches \cup {NullBatch}, sync \in BOOLEAN : Enter(t, b, sync)
    BY <1>3, Zenon DEF BeginWrite, BeginCompactRange
  <2>2. /\ pc'[t] = "check" /\ writers' = Append(writers, t) /\ signaled' = signaled
        /\ \A u \in Threads \ {t} : w'[u] = w[u] /\ pc'[u] = pc[u]
    BY <1>1, <2>1, Zenon DEF Enter, Goto
  <2>3. CASE writers = <<>>
    <3>1. ASSUME NEW u \in Threads, TurnCame(u)' PROVE u \in signaled'
      <4>1. u # t /\ pc[u] = "cv" /\ w'[u] = w[u] BY <2>2, <3>1, Zenon DEF TurnCame
      <4>2. w[u].done BY <2>3, <4>1, SMTT(30) DEF QueueConsistent
      <4> QED BY <2>2, <4>1, <4>2, Zenon DEF TurnCame
    <3> QED BY <3>1, Zenon
  <2>4. CASE writers # <<>>
    <3>1. Head(writers') = Head(writers) BY <1>1, <2>2, <2>4
    <3>2. ASSUME NEW u \in Threads, TurnCame(u)' PROVE u \in signaled'
      <4>1. u # t /\ pc[u] = "cv" /\ w'[u] = w[u] BY <2>2, <3>2, Zenon DEF TurnCame
      <4> QED BY <2>2, <3>1, <3>2, <4>1, Zenon DEF TurnCame
    <3> QED BY <3>2, Zenon
  <2> QED BY <2>3, <2>4, Zenon
<1>4. ASSUME NEW t \in Threads, Pop(t)
      PROVE  \A u \in Threads : TurnCame(u)' => u \in signaled'
  <2>1. QueueConsistent'
    <3>1. [Next]_vars BY <1>4, Zenon DEF Next, ClientStep
    <3> QED BY <3>1, QueueStep, Zenon
  <2>2. /\ signaled' = signaled \cup Followers(t) \cup NextHead(writers')
        /\ \A u \in Threads \ {t} : u \notin Followers(t) => w'[u] = w[u]
        /\ pc' = [pc EXCEPT ![t] = ReturnLabel(t, w[t].ok)]
    BY <1>4, ZenonT(30) DEF Pop, Goto
  <2>3. pc'[t] # "cv" /\ \A u \in Threads \ {t} : pc'[u] = pc[u]
    BY <1>1, <2>2, Zenon DEF ReturnLabel
  <2>4. ASSUME NEW u \in Threads, TurnCame(u)' PROVE u \in signaled'
    <3>1. u # t /\ pc[u] = "cv" /\ pc'[u] = "cv" BY <2>3, <2>4, Zenon DEF TurnCame
    <3>2. CASE u \in Followers(t) BY <2>2, <3>2, Zenon
    <3>3. CASE u \notin Followers(t) /\ w'[u].done
      <4>1. w[u].done BY <2>2, <3>1, <3>3, Zenon
      <4> QED BY <2>2, <3>1, <4>1, Zenon DEF TurnCame
    <3>4. CASE ~w'[u].done
      <4>1. Head(writers') = u BY <2>4, <3>4, Zenon DEF TurnCame
      <4>2. PICK i \in 1..Len(writers') : writers'[i] = u
        BY <2>1, <3>1, <3>4, ZenonT(30) DEF QueueConsistent
      <4>3. writers' # <<>> BY <4>2
      <4> QED BY <2>2, <4>1, <4>3, Zenon DEF NextHead
    <3> QED BY <3>2, <3>3, <3>4, Zenon
  <2> QED BY <2>4, Zenon
<1>5. ASSUME NEW t \in Threads, ClientStep(t), ~Pop(t)
      PROVE  /\ writers' = writers /\ \A u \in Threads \ {t} : w'[u].done = w[u].done
             /\ pc'[t] = "cv" => ~w'[t].done /\ Head(writers) # t
  <2> DEFINE Goal == /\ writers' = writers /\ \A u \in Threads \ {t} : w'[u].done = w[u].done
                     /\ pc'[t] = "cv" => ~w'[t].done /\ Head(writers) # t
  <2>1. ASSUME NEW l, pc' = [pc EXCEPT ![t] = l] PROVE pc'[t] = l BY <1>1, <2>1, Zenon
  <2>2. ASSUME NEW x, w' = [w EXCEPT ![t] = x] PROVE \A u \in Threads \ {t} : w'[u] = w[u]
    BY <1>1, <2>2, Zenon
  <2> USE DEF writeVars, Goto
  <2>3. CASE WaitTurn(t) BY <2>3, Zenon DEF WaitTurn, MyTurn
  <2>4. CASE Lead(t)
    <3>1. \A u \in Threads \ {t} : w'[u] = w[u] BY <1>1, <2>4, ZenonT(30) DEF Lead
    <3> QED BY <2>1, <2>4, <3>1, Zenon DEF Lead
  <2>5. CASE Resume(t)
    <3>1. ResumeAt(pc[t]) # "cv" BY Zenon DEF ResumeAt
    <3> QED BY <2>1, <2>5, <3>1, Zenon DEF Resume
  <2>6. CASE ReturnDone(t)
    <3>1. ReturnLabel(t, w[t].ok) # "cv" BY Zenon DEF ReturnLabel
    <3> QED BY <2>1, <2>2, <2>6, <3>1, Zenon DEF ReturnDone
  <2>7. CASE RoomError(t) BY <2>1, <2>2, <2>7, Zenon DEF RoomError
  <2>8. CASE RoomDelay(t) BY <2>1, <2>2, <2>8, Zenon DEF RoomDelay
  <2>9. CASE RoomFound(t)
    <3>1. (IF w[t].batch = NullBatch THEN "pop" ELSE "build") # "cv" OBVIOUS
    <3> QED BY <2>1, <2>9, <3>1, Zenon DEF RoomFound
  <2>10. CASE RoomWait(t) BY <2>1, <2>10, Zenon DEF RoomWait
  <2>11. CASE RoomSwitch(t) BY <2>2, <2>11, Zenon DEF RoomSwitch, CanSwitch, InRoom
  <2>12. CASE RoomSwitchFails(t) BY <2>1, <2>2, <2>12, Zenon DEF RoomSwitchFails
  <2>13. CASE JoinGroup(t)
    <3>1. \A u \in Threads \ {t} : w'[u] = w[u] BY <1>1, <2>13, ZenonT(30) DEF JoinGroup
    <3> QED BY <2>13, <3>1, Zenon DEF JoinGroup
  <2>14. CASE CloseGroup(t)
    <3>1. \A u \in Threads \ {t} : w'[u] = w[u] BY <1>1, <2>14, ZenonT(30) DEF CloseGroup
    <3> QED BY <2>1, <2>14, <3>1, Zenon DEF CloseGroup
  <2>15. CASE AddRecord(t)
    <3>1. (IF w[t].sync THEN "sync" ELSE "insert") # "cv" OBVIOUS
    <3> QED BY <2>1, <2>2, <2>15, <3>1, ZenonT(30) DEF AddRecord
  <2>16. CASE SyncLog(t) BY <2>1, <2>2, <2>16, ZenonT(30) DEF SyncLog
  <2>17. CASE InsertInto(t) BY <2>1, <2>17, Zenon DEF InsertInto
  <2>18. CASE Publish(t) BY <2>1, <2>18, Zenon DEF Publish
  <2>19. CASE WaitFlushed(t) BY <2>1, <2>19, Zenon DEF WaitFlushed
  <2>20. CASE RegisterManual(t) BY <2>20, Zenon DEF RegisterManual
  <2>21. CASE WaitManual(t) BY <2>1, <2>21, Zenon DEF WaitManual
  <2>22. CASE LeaveManual(t) BY <2>1, <2>22, Zenon DEF LeaveManual
  <2> HIDE DEF Goal
  <2> QED BY <1>5, <2>3, <2>4, <2>5, <2>6, <2>7, <2>8, <2>9, <2>10, <2>11, <2>12, <2>13, <2>14,
             <2>15, <2>16, <2>17, <2>18, <2>19, <2>20, <2>21, <2>22, Zenon
          DEF ClientStep
<1>6. ASSUME NEW t \in Threads, ClientStep(t), ~Pop(t)
      PROVE  \A u \in Threads : TurnCame(u)' => u \in signaled'
  <2>1. ClientShape(t) BY <1>6, ClientShapes, Zenon
  <2> QED BY <1>5, <1>6, <2>1, TurnFrame, Zenon
<1> QED BY <1>2, <1>3, <1>4, <1>6, Zenon DEF Next, Closed

-----------------------------------------------------------------------------
(* bg_cv_.                                                                 *)

\* What a client on bg_cv_ waits for.
EventCame(u) ==
  \/ pc[u] = "roomcv" /\ (bg_error \/ (~has_imm /\ l0 < StopTrigger))
  \/ pc[u] = "memcv" /\ (bg_error \/ ~has_imm)
  \/ pc[u] = "manualcv" /\ (~ManualGoesOn(u) \/ manual = Free)

\* The background thread is between its work and its SignalAll.
Owes == bgpc \in {"finish", "end"}

\* A step of a client after which the others wait for what they waited for.
LEMMA EventFrame ==
  ASSUME NEW t \in Threads, ClientShape(t), ~EventCame(t)',
         \A u \in Threads \ {t} : EventCame(u)' => EventCame(u) \/ u \in signaled',
         \A u \in Threads : EventCame(u) => u \in signaled \/ Owes
  PROVE  \A u \in Threads : EventCame(u)' => u \in signaled' \/ Owes'
<1>1. bgpc' = bgpc BY Zenon DEF ClientShape
<1>2. ASSUME NEW u \in Threads, u # t, EventCame(u)' PROVE u \in signaled' \/ Owes'
  <2>1. CASE u \in signaled' BY <2>1, Zenon
  <2>2. CASE EventCame(u)
    <3>1. u \in signaled \/ Owes BY <2>2, Zenon
    <3>2. u \in signaled => u \in signaled' BY <1>2, Zenon DEF ClientShape
    <3> QED BY <1>1, <3>1, <3>2, Zenon DEF Owes
  <2> QED BY <1>2, <2>1, <2>2, Zenon
<1> QED BY <1>2, Zenon

\* The steps of a client that leave what others wait for alone.
LEMMA EventsKept ==
  ASSUME TypeOK, NEW t \in Threads, BeginWrite(t) \/ BeginCompactRange(t) \/ ClientStep(t),
         ~RoomSwitch(t), ~Publish(t), ~RegisterManual(t), ~LeaveManual(t)
  PROVE  /\ UNCHANGED <<bg_error, has_imm, l0, manual>>
         /\ \A u \in Threads \ {t} : mc'[u] = mc[u]
<1> USE DEF switchVars, levelVars, manualVars
<1>1. mc \in [Threads -> [left : Int, done : BOOLEAN]] BY Zenon DEF TypeOK, TypeManual
<1>2. CASE BeginWrite(t) BY <1>2, Zenon DEF BeginWrite, Enter
<1>3. CASE BeginCompactRange(t) BY <1>1, <1>3, ZenonT(30) DEF BeginCompactRange, Enter
<1>4. CASE WaitTurn(t) \/ Lead(t) \/ Resume(t) \/ ReturnDone(t)
  BY <1>4, Zenon DEF WaitTurn, Lead, Resume, ReturnDone
<1>5. CASE RoomError(t) \/ RoomDelay(t) \/ RoomFound(t) \/ RoomWait(t) \/ RoomSwitchFails(t)
  BY <1>5, Zenon DEF RoomError, RoomDelay, RoomFound, RoomWait, RoomSwitchFails
<1>6. CASE JoinGroup(t) \/ CloseGroup(t) BY <1>6, Zenon DEF JoinGroup, CloseGroup
<1>7. CASE AddRecord(t) \/ SyncLog(t) \/ InsertInto(t)
  BY <1>7, Zenon DEF AddRecord, SyncLog, InsertInto
<1>8. CASE Pop(t) \/ WaitFlushed(t) \/ WaitManual(t)
  BY <1>8, Zenon DEF Pop, WaitFlushed, WaitManual
<1> QED BY <1>2, <1>3, <1>4, <1>5, <1>6, <1>7, <1>8, Zenon DEF ClientStep

\* A client that comes to wait on bg_cv_ has tested its condition under mutex_.
LEMMA TestedFirst ==
  ASSUME TypeOK, NEW t \in Threads, BeginWrite(t) \/ BeginCompactRange(t) \/ ClientStep(t)
  PROVE  ~EventCame(t)'
<1> USE DEF writeVars, switchVars, levelVars, manualVars
<1>1. /\ pc \in [Threads -> Labels] /\ l0 \in Nat /\ StopTrigger \in Nat
  BY TriggerAssumption, Zenon DEF TypeOK, TypeControl, TypeLevel
<1>2. ASSUME NEW l, pc' = [pc EXCEPT ![t] = l] PROVE pc'[t] = l BY <1>1, <1>2, Zenon
<1>3. ASSUME pc'[t] \notin {"roomcv", "memcv", "manualcv"} PROVE ~EventCame(t)'
  BY <1>3, Zenon DEF EventCame
<1>4. CASE RoomWait(t)
  <2>1. /\ pc'[t] = "roomcv" /\ ~bg_error' /\ UNCHANGED <<has_imm, l0>>
        /\ has_imm \/ l0 >= StopTrigger
    BY <1>2, <1>4, Zenon DEF RoomWait, Goto
  <2>2. l0 >= StopTrigger => ~(l0 < StopTrigger) BY <1>1
  <2> QED BY <2>1, <2>2, Zenon DEF EventCame
<1>5. CASE WaitFlushed(t)
  <2>1. \/ pc' = [pc EXCEPT ![t] = "memcv"] /\ has_imm /\ ~bg_error
        \/ pc' = [pc EXCEPT ![t] = "manlock"]
    BY <1>5, Zenon DEF WaitFlushed, Goto
  <2>2. UNCHANGED <<bg_error, has_imm>> BY <1>5, Zenon DEF WaitFlushed
  <2> QED BY <1>2, <1>3, <2>1, <2>2, ZenonT(30) DEF EventCame
<1>6. CASE WaitManual(t)
  <2>1. /\ pc'[t] = "manualcv" /\ ManualGoesOn(t) /\ manual # Free
        /\ UNCHANGED <<bg_error, shutdown, manual, mc>>
    BY <1>2, <1>6, Zenon DEF WaitManual, Goto
  <2>2. ManualGoesOn(t)' BY <2>1, Zenon DEF ManualGoesOn
  <2> QED BY <2>1, <2>2, Zenon DEF EventCame
<1>7. ASSUME ~RoomWait(t), ~WaitFlushed(t), ~WaitManual(t)
      PROVE  pc'[t] \notin {"roomcv", "memcv", "manualcv"}
  <2> USE DEF Goto
  <2>1. CASE BeginWrite(t) \/ BeginCompactRange(t)
    BY <1>2, <2>1, Zenon DEF BeginWrite, BeginCompactRange, Enter
  <2>2. CASE WaitTurn(t) \/ Lead(t) BY <1>2, <2>2, Zenon DEF WaitTurn, Lead
  <2>3. CASE Resume(t)
    <3>1. ResumeAt(pc[t]) \notin {"roomcv", "memcv", "manualcv"} BY Zenon DEF ResumeAt
    <3> QED BY <1>2, <2>3, <3>1, Zenon DEF Resume
  <2>4. CASE ReturnDone(t) \/ Pop(t)
    <3>1. ReturnLabel(t, w[t].ok) \notin {"roomcv", "memcv", "manualcv"} BY Zenon DEF ReturnLabel
    <3> QED BY <1>2, <2>4, <3>1, Zenon DEF ReturnDone, Pop
  <2>5. CASE RoomError(t) \/ RoomDelay(t) \/ RoomSwitchFails(t)
    BY <1>2, <2>5, Zenon DEF RoomError, RoomDelay, RoomSwitchFails
  <2>6. CASE RoomFound(t)
    <3>1. (IF w[t].batch = NullBatch THEN "pop" ELSE "build")
            \notin {"roomcv", "memcv", "manualcv"}
      OBVIOUS
    <3> QED BY <1>2, <2>6, <3>1, Zenon DEF RoomFound
  <2>7. CASE RoomSwitch(t) BY <2>7, Zenon DEF RoomSwitch, CanSwitch, InRoom
  <2>8. CASE JoinGroup(t) BY <2>8, Zenon DEF JoinGroup
  <2>9. CASE CloseGroup(t) \/ InsertInto(t) \/ Publish(t)
    BY <1>2, <2>9, Zenon DEF CloseGroup, InsertInto, Publish
  <2>10. CASE AddRecord(t)
    <3>1. (IF w[t].sync THEN "sync" ELSE "insert") \notin {"roomcv", "memcv", "manualcv"}
      OBVIOUS
    <3> QED BY <1>2, <2>10, <3>1, Zenon DEF AddRecord
  <2>11. CASE SyncLog(t) BY <1>2, <2>11, Zenon DEF SyncLog
  <2>12. CASE RegisterManual(t) BY <2>12, Zenon DEF RegisterManual
  <2>13. CASE LeaveManual(t) BY <1>2, <2>13, Zenon DEF LeaveManual
  <2> QED BY <1>7, <2>1, <2>2, <2>3, <2>4, <2>5, <2>6, <2>7, <2>8, <2>9, <2>10, <2>11, <2>12,
             <2>13, Zenon
          DEF ClientStep
<1> QED BY <1>3, <1>4, <1>5, <1>6, <1>7, Zenon

\* A client that waits on bg_cv_ for what has come is woken up by its SignalAll.
LEMMA AllSignalled ==
  ASSUME NEW u \in Threads, pc'[u] = pc[u], EventCame(u)', SignalAll
  PROVE  u \in signaled'
<1>1. pc[u] \in {"roomcv", "memcv", "manualcv"} BY Zenon DEF EventCame
<1>2. u \in BgWaiters BY <1>1, Zenon DEF BgWaiters, BgCvClients
<1> QED BY <1>2, Zenon DEF SignalAll

\* No wakeup of a client on bg_cv_ is lost by a step of a client.
LEMMA ClientEvents ==
  ASSUME TypeOK, CallersKeepOpen, NEW t \in Threads,
         BeginWrite(t) \/ BeginCompactRange(t) \/ ClientStep(t),
         \A u \in Threads : EventCame(u) => u \in signaled \/ Owes
  PROVE  \A u \in Threads : EventCame(u)' => u \in signaled' \/ Owes'
<1> USE DEF switchVars, levelVars, manualVars
<1>1. ClientShape(t) /\ ~EventCame(t)' BY ClientShapes, TestedFirst, Zenon
<1>2. SUFFICES \A u \in Threads \ {t} : EventCame(u)' => EventCame(u) \/ u \in signaled'
  BY <1>1, <1>2, EventFrame, Zenon
<1>3. UNCHANGED shutdown /\ \A u \in Threads \ {t} : pc'[u] = pc[u]
  BY <1>1, Zenon DEF ClientShape
<1>4. CASE RoomSwitch(t)
  <2>1. has_imm' = TRUE /\ UNCHANGED <<bg_error, manual, mc>> BY <1>4, Zenon DEF RoomSwitch
  <2> QED BY <1>3, <2>1, ZenonT(30) DEF EventCame, ManualGoesOn
<1>5. CASE Publish(t)
  <2>1. UNCHANGED <<has_imm, l0, manual, mc>> BY <1>5, Zenon DEF Publish
  <2>2. CASE bg_error' = bg_error BY <1>3, <2>1, <2>2, ZenonT(30) DEF EventCame, ManualGoesOn
  <2>3. CASE bg_error' # bg_error
    <3>1. SignalAll
      <4>1. bg_error \in BOOLEAN BY Zenon DEF TypeOK, TypeControl
      <4>2. pc[t] = "syncfail" /\ ~bg_error BY <1>5, <2>3, <4>1, Zenon DEF Publish
      <4> QED BY <1>5, <4>2, Zenon DEF Publish
    <3> QED BY <1>3, <3>1, AllSignalled, Zenon
  <2> QED BY <2>2, <2>3, Zenon
<1>6. CASE RegisterManual(t)
  <2>1. manual' = t /\ UNCHANGED <<bg_error, has_imm, l0, mc>> BY <1>6, Zenon DEF RegisterManual
  <2>2. t # Free BY ThreadsAssumption, Zenon
  <2> QED BY <1>3, <2>1, <2>2, ZenonT(30) DEF EventCame, ManualGoesOn
<1>7. CASE LeaveManual(t)
  <2>1. mc \in [Threads -> [left : Int, done : BOOLEAN]] BY Zenon DEF TypeOK, TypeManual
  <2>2. /\ pc[t] = "manual" /\ ~ManualGoesOn(t) /\ UNCHANGED <<bg_error, has_imm, l0>>
        /\ manual' = IF manual = t THEN Free ELSE manual
        /\ mc' = [mc EXCEPT ![t] = [left |-> 0, done |-> FALSE]]
    BY <1>7, Zenon DEF LeaveManual
  <2>3. \A u \in Threads \ {t} : mc'[u] = mc[u] BY <2>1, <2>2, Zenon
  <2>4. CASE manual # t BY <1>3, <2>2, <2>3, <2>4, ZenonT(30) DEF EventCame, ManualGoesOn
  <2>5. CASE manual = t
    <3>1. shutdown = "open" BY <2>2, Zenon DEF CallersKeepOpen
    <3>2. t # Free BY ThreadsAssumption, Zenon
    <3>3. bg_error BY <2>2, <2>5, <3>1, <3>2, Zenon DEF CallersKeepOpen, ManualGoesOn
    <3> QED BY <1>3, <2>2, <3>3, ZenonT(30) DEF EventCame, ManualGoesOn
  <2> QED BY <2>4, <2>5, Zenon
<1>8. CASE ~RoomSwitch(t) /\ ~Publish(t) /\ ~RegisterManual(t) /\ ~LeaveManual(t)
  <2>1. /\ UNCHANGED <<bg_error, has_imm, l0, manual>>
        /\ \A u \in Threads \ {t} : mc'[u] = mc[u]
    BY <1>8, EventsKept, Zenon
  <2> QED BY <1>3, <2>1, ZenonT(30) DEF EventCame, ManualGoesOn
<1> QED BY <1>4, <1>5, <1>6, <1>7, <1>8, Zenon

\* A step of the background thread ends at a label where it owes a wakeup, wakes
\* everybody up, or changes nothing anybody waits for.
LEMMA BackgroundEvents ==
  ASSUME BackgroundStep
  PROVE  \/ Owes' \/ SignalAll
         \/ ~Owes /\ UNCHANGED <<bg_error, has_imm, l0, manual, mc, shutdown, signaled>>
<1> USE DEF switchVars, levelVars, manualVars, Owes
<1>1. CASE BackgroundCall \/ SkipWork \/ StartFlush
  BY <1>1, Zenon DEF BackgroundCall, SkipWork, StartFlush, BeginWork
<1>2. CASE StartManual \/ PickCompaction
  <2>1. \/ bgpc' = "end"
        \/ /\ bgpc = "begin"
           /\ UNCHANGED <<bg_error, has_imm, l0, manual, mc, shutdown, signaled>>
    BY <1>2, Zenon DEF StartManual, PickCompaction, BeginWork
  <2> QED BY <2>1, Zenon
<1>3. CASE CompactKey \/ CompactKeyFlush BY <1>3, Zenon DEF CompactKey, CompactKeyFlush
<1>4. ASSUME NEW failed \in BOOLEAN, FlushReturns(failed) PROVE bgpc' = "end" \/ SignalAll
  BY <1>4, Zenon DEF FlushReturns
<1>5. CASE BuildTable
  <2>1. \/ FlushReturns(TRUE)
        \/ /\ bgpc = "table"
           /\ UNCHANGED <<bg_error, has_imm, l0, manual, mc, shutdown, signaled>>
    BY <1>5, Zenon DEF BuildTable
  <2> QED BY <1>4, <2>1, Zenon
<1>6. CASE InstallFlush
  <2>1. FlushReturns(FALSE) \/ FlushReturns(TRUE) BY <1>6, Zenon DEF InstallFlush
  <2> QED BY <1>4, <2>1, Zenon
<1>7. CASE EndCompactionLoop BY <1>7, Zenon DEF EndCompactionLoop
<1>8. CASE InstallCompaction BY <1>8, Zenon DEF InstallCompaction
<1>9. CASE FinishCompaction BY <1>9, Zenon DEF FinishCompaction
<1>10. CASE EndCall BY <1>10, Zenon DEF EndCall
<1> HIDE DEF Owes
<1> QED BY <1>1, <1>2, <1>3, <1>5, <1>6, <1>7, <1>8, <1>9, <1>10, Zenon DEF BackgroundStep

\* No wakeup of a client on bg_cv_ is lost.
LEMMA EventStep ==
  ASSUME TypeOK, CallersKeepOpen, [Next]_vars,
         \A u \in Threads : EventCame(u) => u \in signaled \/ Owes
  PROVE  \A u \in Threads : EventCame(u)' => u \in signaled' \/ Owes'
<1>1. ASSUME NEW t \in Threads, BeginWrite(t) \/ BeginCompactRange(t) \/ ClientStep(t)
      PROVE  \A u \in Threads : EventCame(u)' => u \in signaled' \/ Owes'
  BY <1>1, ClientEvents, Zenon
<1>2. CASE BackgroundStep
  <2>1. pc' = pc BY <1>2, ClientFrame, Zenon
  <2>2. CASE Owes' BY <2>2, Zenon
  <2>3. CASE SignalAll BY <2>1, <2>3, AllSignalled, Zenon
  <2>4. CASE ~Owes /\ UNCHANGED <<bg_error, has_imm, l0, manual, mc, shutdown, signaled>>
    <3>1. \A u \in Threads : EventCame(u)' => EventCame(u)
      BY <2>1, <2>4, ZenonT(30) DEF EventCame, ManualGoesOn
    <3> QED BY <2>4, <3>1, Zenon
  <2> QED BY <1>2, <2>2, <2>3, <2>4, BackgroundEvents, Zenon
<1>3. CASE UpdateStats \/ UNCHANGED vars
  <2>1. UNCHANGED <<pc, bg_error, has_imm, l0, manual, mc, shutdown, signaled, bgpc>>
    BY <1>3, ZenonT(30) DEF UpdateStats, vars, switchVars, levelVars, manualVars, bgVars
  <2>2. \A u \in Threads : EventCame(u)' => EventCame(u)
    BY <2>1, ZenonT(30) DEF EventCame, ManualGoesOn
  <2> QED BY <2>1, <2>2, Zenon DEF Owes
<1>4. CASE Destroy
  <2>1. pc' = pc /\ \A u \in Threads : pc[u] = "idle"
    BY <1>4, Zenon DEF Destroy, CallersKeepOpen
  <2> QED BY <2>1, Zenon DEF EventCame
<1> QED BY <1>1, <1>2, <1>3, <1>4, Zenon DEF Next, Closed

-----------------------------------------------------------------------------
(* The background thread is scheduled when it is needed.                   *)

\* Whoever waits for the background thread keeps waiting for something.
LEMMA HelperStep ==
  ASSUME TypeOK, BackgroundHolds, StalledHasHelper, [Next]_vars
  PROVE  StalledHasHelper'
<1> USE DEF StalledHasHelper, switchVars, levelVars, manualVars
<1>1. l0 \in Nat /\ StopTrigger \in Nat /\ CompactionTrigger \in Nat
      /\ CompactionTrigger <= StopTrigger
  BY TriggerAssumption, Zenon DEF TypeOK, TypeLevel
<1>2. ASSUME NEW t \in Threads, BeginWrite(t) \/ BeginCompactRange(t) \/ ClientStep(t)
      PROVE  StalledHasHelper'
  <2>1. ClientShape(t) BY <1>2, ClientShapes, Zenon
  <2>2. scheduled \/ bg_error \/ shutdown # "open" => StalledHasHelper'
    BY <2>1, Zenon DEF ClientShape
  <2>3. CASE RoomSwitch(t) BY <2>3, Zenon DEF RoomSwitch, MaybeSchedule
  <2>4. CASE RegisterManual(t)
    <3>1. t # Free BY ThreadsAssumption, Zenon
    <3> QED BY <2>4, <3>1, Zenon DEF RegisterManual, MaybeSchedule
  <2>5. CASE Publish(t)
    <3>1. UNCHANGED <<has_imm, l0, manual>> BY <2>5, Zenon DEF Publish
    <3> QED BY <2>2, <3>1, Zenon
  <2>6. CASE LeaveManual(t)
    <3>1. UNCHANGED <<has_imm, l0>> /\ (manual' = Free \/ manual' = manual)
      BY <2>6, Zenon DEF LeaveManual
    <3> QED BY <2>2, <3>1, Zenon
  <2>7. CASE ~RoomSwitch(t) /\ ~Publish(t) /\ ~RegisterManual(t) /\ ~LeaveManual(t)
    <3>1. UNCHANGED <<has_imm, l0, manual>> BY <1>2, <2>7, EventsKept, Zenon
    <3> QED BY <2>2, <3>1, Zenon
  <2> QED BY <2>3, <2>4, <2>5, <2>6, <2>7, Zenon
<1>3. CASE BackgroundStep /\ ~EndCall
  <2>1. bgpc # "idle" \/ scheduled
    BY <1>3, Zenon
    DEF BackgroundStep, BackgroundCall, SkipWork, StartFlush, StartManual, PickCompaction,
        CompactKey, CompactKeyFlush, BuildTable, InstallFlush, EndCompactionLoop,
        InstallCompaction, FinishCompaction, BeginWork
  <2>2. scheduled BY <2>1, Zenon DEF BackgroundHolds
  <2>3. scheduled' = scheduled
    <3>1. CASE BackgroundCall \/ SkipWork \/ StartFlush \/ CompactKey \/ CompactKeyFlush
      BY <3>1, Zenon DEF BackgroundCall, SkipWork, StartFlush, CompactKey, CompactKeyFlush
    <3>2. CASE StartManual \/ PickCompaction BY <3>2, Zenon DEF StartManual, PickCompaction
    <3>3. CASE BuildTable \/ InstallFlush BY <3>3, Zenon DEF BuildTable, InstallFlush
    <3>4. CASE EndCompactionLoop \/ InstallCompaction \/ FinishCompaction
      BY <3>4, Zenon DEF EndCompactionLoop, InstallCompaction, FinishCompaction
    <3> QED BY <1>3, <3>1, <3>2, <3>3, <3>4, Zenon DEF BackgroundStep
  <2> QED BY <2>2, <2>3, Zenon
<1>4. CASE EndCall
  <2>1. l0 >= StopTrigger => l0 >= CompactionTrigger BY <1>1
  <2>2. /\ scheduled' = MaybeSchedule(FALSE, has_imm, manual, NeedsCompaction(l0, above, seek))
        /\ UNCHANGED <<bg_error, shutdown, has_imm, l0, manual>>
    BY <1>4, Zenon DEF EndCall
  <2> QED BY <2>1, <2>2, Zenon DEF MaybeSchedule, NeedsCompaction
<1>5. CASE UpdateStats BY <1>5, Zenon DEF UpdateStats, MaybeSchedule
<1>6. CASE Destroy
  <2>1. shutdown' # "open" BY <1>6, Zenon DEF Destroy
  <2> QED BY <2>1, Zenon
<1>7. CASE UNCHANGED vars BY <1>7, Zenon DEF vars, bgVars
<1> HIDE DEF StalledHasHelper
<1> QED BY <1>2, <1>3, <1>4, <1>5, <1>6, <1>7, Zenon DEF Next, Closed

-----------------------------------------------------------------------------
(* The theorems.                                                           *)

\* The invariant of the wakeups holds with that of the queue: the background thread
\* holds mutex_ from its work to its SignalAll, and it is scheduled when needed.
THEOREM WakeInvariantHolds == Spec => []WakeInvariant
<1>1. Init => WakeInvariant
  <2> SUFFICES ASSUME Init PROVE WakeInvariant
    OBVIOUS
  <2>1. BackgroundHolds BY Zenon DEF Init, BackgroundHolds, Bg, Free
  <2>2. \A t \in Threads : pc[t] = "idle" BY Zenon DEF Init
  <2>3. CallersKeepOpen BY Zenon DEF Init, CallersKeepOpen
  <2>4. WakeupOwed BY <2>2, Zenon DEF WakeupOwed
  <2>5. StalledHasHelper BY TriggerAssumption DEF Init, StalledHasHelper
  <2> QED BY <2>1, <2>3, <2>4, <2>5, Zenon DEF WakeInvariant
<1>2. WriteInvariant /\ WakeInvariant /\ [Next]_vars => WakeInvariant'
  <2> SUFFICES ASSUME WriteInvariant, WakeInvariant, [Next]_vars PROVE WakeInvariant'
    OBVIOUS
  <2> USE DEF WriteInvariant, WakeInvariant
  <2>1. BackgroundHolds' BY HoldStep, Zenon
  <2>2. CallersKeepOpen' BY OpenStep, Zenon
  <2>3. StalledHasHelper' BY HelperStep, Zenon
  <2>4. \A u \in Threads : TurnCame(u)' => u \in signaled'
    <3>1. \A u \in Threads : TurnCame(u) => u \in signaled
      BY Zenon DEF WakeupOwed, TurnCame
    <3> QED BY <3>1, TurnStep, Zenon
  <2>5. \A u \in Threads : EventCame(u)' => u \in signaled' \/ Owes'
    <3>1. \A u \in Threads : EventCame(u) => u \in signaled \/ Owes
      BY ZenonT(30) DEF WakeupOwed, EventCame, Owes
    <3> QED BY <3>1, EventStep, Zenon
  <2>6. WakeupOwed' BY <2>4, <2>5, ZenonT(30) DEF WakeupOwed, TurnCame, EventCame, Owes
  <2> QED BY <2>1, <2>2, <2>3, <2>6, Zenon
<1> QED BY <1>1, <1>2, WritePathInvariant, PTL DEF Spec

\* Nobody waits in vain.  A writer whose turn has come or that is done, and a client on
\* bg_cv_ whose condition holds, has been signalled or will be by the background
\* thread, which holds mutex_ until then; and whoever waits for the background thread
\* has it scheduled, unless an error or the destructor has stopped it for good.
THEOREM NobodyEverWaitsInVain == Spec => []NobodyWaitsInVain
<1>1. WakeInvariant => NobodyWaitsInVain
  <2> SUFFICES ASSUME WakeInvariant PROVE NoLostWakeup
    BY Zenon DEF WakeInvariant, NobodyWaitsInVain
  <2>1. bgpc \in {"finish", "end"} => mutex = Bg BY Zenon DEF WakeInvariant, BackgroundHolds
  <2> QED BY <2>1, ZenonT(30) DEF WakeInvariant, WakeupOwed, NoLostWakeup
<1> QED BY <1>1, WakeInvariantHolds, PTL

\* The whole inductive invariant of the write path: the queue and the group, the log
\* and the wakeups.
THEOREM PathInvariantHolds == Spec => []PathInvariant
<1>1. WriteInvariant /\ LogInvariant /\ WakeInvariant => PathInvariant BY Zenon DEF PathInvariant
<1> QED BY <1>1, WritePathInvariant, LogInvariantHolds, WakeInvariantHolds, PTL
=============================================================================
