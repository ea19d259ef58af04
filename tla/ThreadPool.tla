----------------------------- MODULE ThreadPool -----------------------------
(***************************************************************************)
(* The pool of background threads (util/threadpool_imp.cc).  One step is   *)
(* one stretch of code under mu_.  A thread is "wait" on bgsignal_,        *)
(* "ready" to take mu_, or "run"ning a job; a thread that is "gone" has    *)
(* left BGThread and its place may be used by a new thread.                *)
(***************************************************************************)
EXTENDS Integers, Sequences, FiniteSets, SequencesExt

CONSTANTS
    PoolThreads, \* 1 .. n, the threads that may exist at once
    PoolTags,    \* tags a job is scheduled with
    MaxJobs,     \* bound on the jobs submitted
    MaxPoolCalls \* bound on the calls that change the number of threads

VARIABLES
    tpLimit,   \* total_threads_limit_
    tpQueue,   \* queue_: <<job, tag>>
    tpThreads, \* bgthreads_
    tpPc, tpId, tpJob, \* per thread: where it is, its thread_id, its job
    tpExit,    \* exit_all_threads_ and wait_for_jobs_to_complete_
    tpJobs,    \* jobs submitted so far
    tpStarted, \* history: the jobs in the order they were started
    tpCalls

tpVars == <<tpLimit, tpQueue, tpThreads, tpPc, tpId, tpJob, tpExit, tpJobs, tpStarted, tpCalls>>

tpInit ==
    /\ tpLimit = 0 /\ tpQueue = <<>> /\ tpThreads = <<>>
    /\ tpPc = [t \in PoolThreads |-> "gone"]
    /\ tpId = [t \in PoolThreads |-> 0]
    /\ tpJob = [t \in PoolThreads |-> 0]
    /\ tpExit = "no" /\ tpJobs = 0 /\ tpStarted = <<>> /\ tpCalls = 0

HasExcessiveThread(ths, limit) == Len(ths) > limit
IsLastExcessiveThread(t) == HasExcessiveThread(tpThreads, tpLimit) /\ tpId[t] = Len(tpThreads) - 1
IsExcessiveThread(t) == tpId[t] >= tpLimit

WakeUpAllThreads(pc) == [t \in PoolThreads |-> IF pc[t] = "wait" THEN "ready" ELSE pc[t]]
NotifyOne(pc) ==
    LET waiting == {t \in PoolThreads : pc[t] = "wait"}
    IN  IF waiting = {} THEN {pc} ELSE {[pc EXCEPT ![t] = "ready"] : t \in waiting}

\* StartBGThreads: threads are added until there are limit of them.
FreeThreads(pc) == SelectSeq([i \in 1 .. Cardinality(PoolThreads) |-> i], LAMBDA t : pc[t] = "gone")
StartBGThreads(limit, pc) ==
    LET new == SubSeq(FreeThreads(pc), 1, limit - Len(tpThreads))
        ths == tpThreads \o new
    IN  [ths |-> ths,
         pc |-> [t \in PoolThreads |-> IF Contains(new, t) THEN "ready" ELSE pc[t]],
         id |-> [t \in PoolThreads |->
                    IF Contains(new, t) THEN (CHOOSE i \in DOMAIN ths : ths[i] = t) - 1 ELSE tpId[t]]]

\* Mutant: wakes one thread though the last one is about to leave.
MutantSubmitNotify(ths, pc) == NotifyOne(pc)

SubmitNotify(ths, pc) ==
    IF HasExcessiveThread(ths, tpLimit) THEN {WakeUpAllThreads(pc)} ELSE NotifyOne(pc)

Submit(tag) ==
    /\ tpJobs < MaxJobs
    /\ tpJobs' = tpJobs + 1
    /\ IF tpExit # "no" THEN UNCHANGED <<tpQueue, tpThreads, tpPc, tpId>>
       ELSE LET s == StartBGThreads(tpLimit, tpPc)
            IN  /\ tpThreads' = s.ths /\ tpId' = s.id
                /\ tpQueue' = Append(tpQueue, <<tpJobs + 1, tag>>)
                /\ tpPc' \in SubmitNotify(s.ths, s.pc)
    /\ UNCHANGED <<tpLimit, tpJob, tpExit, tpStarted, tpCalls>>

UnSchedule(tag) ==
    /\ \E i \in DOMAIN tpQueue : tpQueue[i][2] = tag
    /\ tpQueue' = SelectSeq(tpQueue, LAMBDA j : j[2] # tag)
    /\ UNCHANGED <<tpLimit, tpThreads, tpPc, tpId, tpJob, tpExit, tpJobs, tpStarted, tpCalls>>

\* SetBackgroundThreads (allow_reduce) and IncBackgroundThreadsIfNeeded.
SetBackgroundThreadsInternal(num, allow_reduce) ==
    /\ tpCalls < MaxPoolCalls /\ tpExit = "no"
    /\ num > tpLimit \/ (num < tpLimit /\ allow_reduce)
    /\ tpCalls' = tpCalls + 1
    /\ tpLimit' = num
    /\ LET s == StartBGThreads(num, WakeUpAllThreads(tpPc))
       IN  tpThreads' = s.ths /\ tpId' = s.id /\ tpPc' = s.pc
    /\ UNCHANGED <<tpQueue, tpJob, tpExit, tpJobs, tpStarted>>

\* BGThread: one turn of the loop, from taking mu_ to waiting, leaving or
\* starting a job.
MustWait(t) ==
    /\ tpExit = "no" /\ ~IsLastExcessiveThread(t)
    /\ tpQueue = <<>> \/ IsExcessiveThread(t)
MustExit == tpExit = "exit" \/ (tpExit = "drain" /\ tpQueue = <<>>)

BGThreadWaits(t) ==
    /\ tpPc[t] = "ready" /\ MustWait(t)
    /\ tpPc' = [tpPc EXCEPT ![t] = "wait"]
    /\ UNCHANGED <<tpLimit, tpQueue, tpThreads, tpId, tpJob, tpExit, tpJobs, tpStarted, tpCalls>>

BGThreadExits(t) ==
    /\ tpPc[t] = "ready" /\ MustExit
    /\ tpPc' = [tpPc EXCEPT ![t] = "gone"]
    /\ UNCHANGED <<tpLimit, tpQueue, tpThreads, tpId, tpJob, tpExit, tpJobs, tpStarted, tpCalls>>

BGThreadTerminates(t) ==
    /\ tpPc[t] = "ready" /\ ~MustExit /\ IsLastExcessiveThread(t)
    /\ tpThreads' = Front(tpThreads)
    /\ tpPc' = LET pc == [tpPc EXCEPT ![t] = "gone"]
               IN  IF HasExcessiveThread(Front(tpThreads), tpLimit) THEN WakeUpAllThreads(pc) ELSE pc
    /\ UNCHANGED <<tpLimit, tpQueue, tpId, tpJob, tpExit, tpJobs, tpStarted, tpCalls>>

BGThreadTakes(t) ==
    /\ tpPc[t] = "ready" /\ ~MustWait(t) /\ ~MustExit /\ ~IsLastExcessiveThread(t)
    /\ tpJob' = [tpJob EXCEPT ![t] = Head(tpQueue)[1]]
    /\ tpStarted' = Append(tpStarted, Head(tpQueue)[1])
    /\ tpQueue' = Tail(tpQueue)
    /\ tpPc' = [tpPc EXCEPT ![t] = "run"]
    /\ UNCHANGED <<tpLimit, tpThreads, tpId, tpExit, tpJobs, tpCalls>>

JobReturns(t) ==
    /\ tpPc[t] = "run"
    /\ tpPc' = [tpPc EXCEPT ![t] = "ready"]
    /\ tpJob' = [tpJob EXCEPT ![t] = 0]
    /\ UNCHANGED <<tpLimit, tpQueue, tpThreads, tpId, tpExit, tpJobs, tpStarted, tpCalls>>

\* JoinThreads, up to the joins.  The joins read bgthreads_ without mu_, so
\* WaitForJobsAndJoinAllThreads is called when no thread is about to remove
\* itself from it.
JoinThreads(wait) ==
    /\ tpCalls < MaxPoolCalls /\ tpExit = "no"
    /\ wait => ~HasExcessiveThread(tpThreads, tpLimit)
    /\ tpCalls' = tpCalls + 1
    /\ tpExit' = IF wait THEN "drain" ELSE "exit"
    /\ tpPc' = WakeUpAllThreads(tpPc)
    /\ UNCHANGED <<tpLimit, tpQueue, tpThreads, tpId, tpJob, tpJobs, tpStarted>>

Joined == tpExit # "no" /\ \A i \in DOMAIN tpThreads : tpPc[tpThreads[i]] = "gone"

JoinReturns ==
    /\ Joined
    /\ tpThreads' = <<>> /\ tpExit' = "no"
    /\ UNCHANGED <<tpLimit, tpQueue, tpPc, tpId, tpJob, tpJobs, tpStarted, tpCalls>>

tpNext ==
    \/ \E tag \in PoolTags : Submit(tag) \/ UnSchedule(tag)
    \/ \E n \in 0 .. Cardinality(PoolThreads), r \in BOOLEAN : SetBackgroundThreadsInternal(n, r)
    \/ \E t \in PoolThreads : BGThreadWaits(t) \/ BGThreadExits(t) \/ BGThreadTerminates(t)
                              \/ BGThreadTakes(t) \/ JobReturns(t)
    \/ \E wait \in BOOLEAN : JoinThreads(wait)
    \/ JoinReturns

-----------------------------------------------------------------------------
\* A queued job is never left behind: while threads that may take it exist,
\* one of them is awake, and WaitForJobsAndJoinAllThreads returns with the
\* queue empty if there was a thread at all.  Jobs start in the order of their
\* submission, each at most once.
PoolServesQueue ==
    LET mayTake == {t \in ToSet(tpThreads) : ~IsExcessiveThread(t)}
    IN  /\ tpQueue # <<>> /\ mayTake # {} /\ tpExit = "no"
              => \E t \in mayTake : tpPc[t] # "wait"
        /\ tpExit = "drain" /\ Joined /\ tpThreads # <<>> => tpQueue = <<>>
        /\ \A i, j \in DOMAIN tpStarted : i < j => tpStarted[i] < tpStarted[j]
=============================================================================
