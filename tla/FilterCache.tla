---------------------------- MODULE FilterCache ----------------------------
(***************************************************************************)
(* The elastic Bloom filter cache: MultiQueue (util/multi_queue.cc) as the *)
(* TableCache (db/table_cache.cc) drives it, with the filters that each    *)
(* region of an open Table holds (table/table.cc, table/filter_block.cc).  *)
(*                                                                         *)
(* A critical section of MultiQueue::mutex_ is one step; a Get, an open or *)
(* an eviction is several, so readers and the compaction thread interleave *)
(* between them.  Floating point expectations and access frequencies only  *)
(* choose between alternatives (promote or not, which queue to shrink, how *)
(* many filters a new table loads): the choice is left open here.          *)
(***************************************************************************)
EXTENDS Integers, Sequences, FiniteSets, FiniteSetsExt, Functions, TLC

CONSTANTS
    Files,        \* table file numbers
    NumRegions,   \* Table::getRegionNum() of every table
    Readers,      \* threads in TableCache::Get or holding an iterator
    Compactor,    \* the background thread: opens outputs, evicts inputs
    Bits,         \* FilterPolicy::bits_per_key_per_filter_, a sequence
    InitFilters,  \* opEp_.init_filter_nums
    Garbage,      \* what the uninitialised charge of a list head may hold
    Width,        \* size_t arithmetic is modulo 2^Width
    Options       \* the settings a run starts from (see opt)

VARIABLES
    opt,    \* capacity_ and life_time_ (cap, life); who reads (readers); the files
            \* found on disk and the ones built (disk, build); and the bound on
            \* current_time_, which every Version::Get advances (gets)
    mq,     \* the MultiQueue and the filters its entries stand for
    th,     \* progress of each thread
    file    \* "none" | "building" | "live" | "obsolete" | "gone"

fcVars == <<opt, mq, th, file>>

NumFilters == Len(Bits)
Queues == 0 .. NumFilters            \* lrus_num_ = filterNums() + 1
Regions == 1 .. NumRegions           \* value_id; 0 is the table's own handle
Threads == Readers \cup {Compactor}

BitsSum[n \in 0 .. 64] == IF n = 0 THEN 0 ELSE BitsSum[n - 1] + Bits[n]
SizeT(x) == x % 2^Width
Signed(x) == IF x >= 2^(Width - 1) THEN x - 2^Width ELSE x

\* A handle <<f, r, t>> is region r of the Table object that thread t opened.
TableOf(e) == <<e[1], e[3]>>
CurrFilterNum(m, e) == IF e[2] = 0 THEN 0 ELSE m.fil[TableOf(e)][e[2]]

(***************************************************************************)
(* Table: adding and removing the filters of a region.                     *)
(***************************************************************************)
SetFilters(m, e, n) == [m EXCEPT !.fil[TableOf(e)][e[2]] = n]

\* AddFilters stops at the last filter the file holds.
AddFilters(m, e, n) ==
    SetFilters(m, e, Min({CurrFilterNum(m, e) + n, NumFilters}))

\* The charge of the filter RemoveFilters(1) takes away; none is left, none goes.
LastFilter(m, e) ==
    LET n == CurrFilterNum(m, e) IN IF n = 0 THEN 0 ELSE Bits[n]
RemoveFilter(m, e) == SetFilters(m, e, Max({CurrFilterNum(m, e) - 1, 0}))

(***************************************************************************)
(* The lists: in_use_ and one LRU list per queue.                          *)
(***************************************************************************)
LruRemove(m, e) ==
    [m EXCEPT !.lru = [q \in Queues |-> SelectSeq(m.lru[q], LAMBDA x : x # e)],
              !.in_use = @ \ {e}]
LruAppend(m, q, e) ==
    [m EXCEPT !.lru[q] = Append(@, e), !.h[e].qid = q, !.lens[q] = @ + 1]

\* The head of queue k gives up one filter and moves to the tail of k - 1.
Demote(m, k) ==
    LET old == Head(m.lru[k])
        d == LastFilter(m, old)
        m1 == [RemoveFilter(m, old) EXCEPT !.usage = SizeT(@ - d),
                                           !.lens[k] = @ - 1]
    IN  LruAppend(LruRemove(m1, old), k - 1, old)


\* ShrinkLRU also takes the filter off the entry's charge.
DemoteCharged(m, k) ==
    LET old == Head(m.lru[k])
    IN  [Demote(m, k) EXCEPT !.h[old].charge = @ - LastFilter(m, old)]

Expired(m, e) == m.h[e].expire < m.time

(***************************************************************************)
(* ShrinkLRU: first the expired heads from the top queue down, then by     *)
(* force from the longest queue.  A forced pass that drains its queue      *)
(* before it has removed enough spins for ever with mutex_ held.           *)
(***************************************************************************)
RECURSIVE ShrinkExpired(_, _, _, _)
ShrinkExpired(m, k, need, removed) ==
    IF m.usage <= opt.cap \/ k = 0 THEN <<m, removed>>
    ELSE IF m.lru[k] # <<>> /\ removed < need
            /\ m.h[Head(m.lru[k])].refs = 1 /\ Expired(m, Head(m.lru[k]))
         THEN ShrinkExpired(DemoteCharged(m, k), k, need,
                            removed + LastFilter(m, Head(m.lru[k])))
         ELSE ShrinkExpired(m, k - 1, need, removed)

RECURSIVE ShrinkForced(_, _, _, _)
ShrinkForced(m, k, need, removed) ==
    IF removed >= need THEN m
    ELSE IF m.lru[k] = <<>> THEN [m EXCEPT !.spin = TRUE]
    ELSE ShrinkForced(DemoteCharged(m, k), k, need,
                      removed + LastFilter(m, Head(m.lru[k])))

LongestQueue(m) ==
    CHOOSE k \in Queues \ {0} : \A i \in Queues \ {0} :
        m.lens[i] < m.lens[k] \/ (m.lens[i] = m.lens[k] /\ k <= i)

Overflow(m) == Signed(SizeT(m.usage - opt.cap))

MayBeShrinkUsage(m) ==
    IF m.usage < opt.cap THEN m
    ELSE LET m0 == [m EXCEPT !.init = FALSE]
             p == ShrinkExpired(m0, NumFilters, Overflow(m0), 0)
             k == LongestQueue(p[1])
         IN  IF p[2] >= Overflow(m0) \/ p[1].lens[k] = 0 THEN p[1]
             ELSE ShrinkForced(p[1], k, Overflow(p[1]), 0)

(***************************************************************************)
(* RecomputeExp: whether a hit moves its entry one queue up, and which     *)
(* queue of expired entries pays for it.  c = [up, queue, junk] resolves   *)
(* the comparisons of expectations and the charge of an empty list's head. *)
(***************************************************************************)
Unit(m, e, k) == (m.h[e].charge \div BitsSum[m.h[e].qid]) * Bits[k]

NeedBits(m, e, c) ==
    Signed(SizeT(m.usage - opt.cap))
    + (IF m.h[e].qid > 0 THEN Unit(m, e, m.h[e].qid + 1)
       ELSE IF m.lru[1] = <<>> THEN c.junk ELSE m.h[Head(m.lru[1])].charge)

\* How many heads of queue k must go to free need bits; 0 when the expired
\* ones do not suffice.
PrefixLen(m, k, need) ==
    LET total[n \in 0 .. Len(m.lru[k])] ==
            IF n = 0 THEN 0 ELSE total[n - 1] + Unit(m, m.lru[k][n], k)
        enough == {n \in 1 .. Len(m.lru[k]) :
                       /\ total[n] >= need
                       /\ \A i \in 1 .. n : Expired(m, m.lru[k][i])}
    IN  IF enough = {} THEN 0 ELSE Min(enough)

RECURSIVE DemoteN(_, _, _)
DemoteN(m, k, n) == IF n = 0 THEN m ELSE DemoteN(Demote(m, k), k, n - 1)

RecomputeExp(m, e, c) ==
    LET need == NeedBits(m, e, c)
        n == IF need > 0 THEN PrefixLen(m, c.queue, need) ELSE 0
    IN  IF m.init \/ m.h[e].qid = NumFilters \/ ~c.up \/ (need > 0 /\ n = 0)
        THEN m
        ELSE [DemoteN(m, c.queue, n) EXCEPT !.h[e].qid = @ + 1]

(***************************************************************************)
(* Ref, Unref, FinishErase: the reference protocol.                        *)
(***************************************************************************)
Ref(m, e, get, c) ==
    LET m1 == IF m.h[e].refs = 1 /\ m.h[e].in_cache
              THEN [LruRemove(m, e) EXCEPT !.in_use = @ \cup {e},
                                           !.lens[m.h[e].qid] = @ - 1]
              ELSE m
        m2 == [m1 EXCEPT !.h[e].refs = @ + 1]
        m3 == IF ~get THEN m2
              ELSE LET a == [m2 EXCEPT !.acc = @ \cup {e}]
                   IN  IF a.h[e].expire > a.time THEN RecomputeExp(a, e, c) ELSE a
    IN  [m3 EXCEPT !.h[e].expire = m.time + opt.life]

Deallocate(m, e) ==
    [m EXCEPT !.h = Restrict(@, DOMAIN @ \ {e}),
              !.fil = IF e[2] = 0 THEN Restrict(@, DOMAIN @ \ {TableOf(e)}) ELSE @]

\* The last user is gone: bring filters and charge in line with the queue.
Settle(m, e) ==
    LET n == CurrFilterNum(m, e)
        q == m.h[e].qid
        added == BitsSum[Min({q, NumFilters})] - BitsSum[n]
    IN  CASE e[2] = 0 \/ n = q -> m
          [] e[2] # 0 /\ n < q ->
               MayBeShrinkUsage([AddFilters(m, e, q - n) EXCEPT
                   !.h[e].charge = @ + added, !.usage = SizeT(@ + added)])
          [] e[2] # 0 /\ n > q ->
               MayBeShrinkUsage([m EXCEPT
                   !.h[e].qid = n, !.h[e].charge = BitsSum[n],
                   !.usage = SizeT(@ + BitsSum[n])])

Unref(m, e) ==
    LET m1 == [m EXCEPT !.h[e].refs = @ - 1]
    IN  IF m1.h[e].refs = 0 THEN Deallocate(m1, e)
        ELSE IF m1.h[e].in_cache /\ m1.h[e].refs = 1
        THEN LET m2 == Settle(m1, e)
             IN  LruAppend(LruRemove(m2, e), m2.h[e].qid, e)
        ELSE m1

\* Mutant: erasing an idle entry without counting it off its list.
MutantFinishErase(m, e) ==
    Unref([LruRemove(m, e) EXCEPT !.h[e].in_cache = FALSE,
                                  !.usage = SizeT(@ - m.h[e].charge)], e)

FinishErase(m, e) ==
    LET m1 == [LruRemove(m, e) EXCEPT
                  !.lens[m.h[e].qid] = IF m.h[e].refs = 1 THEN @ - 1 ELSE @,
                  !.h[e].in_cache = FALSE,
                  !.usage = SizeT(@ - m.h[e].charge)]
    IN  Unref(m1, e)

(***************************************************************************)
(* Insert and Erase; HandleTable is the map tab from keys to handles.      *)
(***************************************************************************)
TableInsert(m, e) ==
    LET key == <<e[1], e[2]>>
        m1 == [m EXCEPT !.tab = (key :> e) @@ @]
    IN  IF key \in DOMAIN m.tab THEN FinishErase(m1, m.tab[key]) ELSE m1

Insert(m, e, charge) ==
    LET new == [refs |-> IF e[2] = 0 THEN 2 ELSE 1, in_cache |-> TRUE,
                charge |-> charge, qid |-> CurrFilterNum(m, e),
                expire |-> m.time + opt.life]
        m1 == [m EXCEPT !.h = (e :> new) @@ @]
        m2 == IF e[2] = 0 THEN [m1 EXCEPT !.in_use = @ \cup {e}]
              ELSE LruAppend([m1 EXCEPT !.usage = SizeT(@ + charge)], new.qid, e)
    IN  MayBeShrinkUsage(TableInsert(m2, e))

Erase(m, key) ==
    IF key \notin DOMAIN m.tab THEN m
    ELSE FinishErase([m EXCEPT !.tab = Restrict(@, DOMAIN @ \ {key})], m.tab[key])

(***************************************************************************)
(* Threads.  A thread is at a step of FindTable, Get or Evict on file f;   *)
(* r is the region it reads and i the handle it inserts or erases next.    *)
(***************************************************************************)
Idle == [pc |-> "idle", f |-> 0, r |-> 0, i |-> 0, own |-> Compactor]
Hit(m, f) == <<f, 0>> \in DOMAIN m.tab
NoChoice == [up |-> FALSE, queue |-> 1, junk |-> 0]

fcInit ==
    /\ opt \in Options
    /\ mq = [h |-> <<>>, tab |-> <<>>, fil |-> <<>>, acc |-> {}, in_use |-> {},
             lru |-> [q \in Queues |-> <<>>], lens |-> [q \in Queues |-> 0],
             usage |-> 0, init |-> TRUE, time |-> 0, spin |-> FALSE]
    /\ th = [t \in Threads |-> Idle]
    /\ file = [f \in Files |-> IF f \in opt.disk THEN "live" ELSE "none"]

\* FindTable's Lookup of the table handle: a hit takes a reference, a miss
\* goes on to open the file with no lock held.
FindTable(m, t, f, r) ==
    IF Hit(m, f)
    THEN /\ mq' = Ref(m, m.tab[<<f, 0>>], FALSE, NoChoice)
         /\ th' = [th EXCEPT ![t] = [pc |-> "found", f |-> f, r |-> r, i |-> 0,
                                     own |-> m.tab[<<f, 0>>][3]]]
    ELSE /\ mq' = m
         /\ th' = [th EXCEPT ![t] = [pc |-> "open", f |-> f, r |-> r, i |-> 0,
                                     own |-> t]]

\* Version::Get ticks the clock and asks for a file (r > 0), or an iterator
\* is opened on it (r = 0).
StartRead(t) ==
    /\ t \in opt.readers /\ th[t].pc = "idle"
    /\ \E f \in Files, r \in 0 .. NumRegions :
        /\ file[f] = "live"
        /\ r > 0 => mq.time < opt.gets
        /\ FindTable([mq EXCEPT !.time = IF r > 0 THEN @ + 1 ELSE @], t, f, r)
    /\ UNCHANGED <<opt, file>>

\* A flush or compaction finished an output and opens it to verify it.
StartBuild ==
    /\ th[Compactor].pc = "idle"
    /\ \E f \in opt.build :
        /\ file[f] = "none"
        /\ file' = [file EXCEPT ![f] = "building"]
        /\ FindTable(mq, Compactor, f, 0)
    /\ UNCHANGED opt

\* Table::Open fails: nothing is cached.
OpenFails(t) ==
    /\ th[t].pc = "open"
    /\ th' = [th EXCEPT ![t] = Idle]
    /\ file' = IF t = Compactor THEN [file EXCEPT ![th[t].f] = "gone"] ELSE file
    /\ UNCHANGED <<opt, mq>>

\* Table::Open loads n filters for every region: none for a reader, and for
\* an output the number AllocFilterNums or init_filter_nums says; then the
\* table's own handle is inserted.
LoadFilterNums(t) == IF t = Compactor THEN Queues ELSE {0}
ReadFilters(m, f, t, n) ==
    [m EXCEPT !.fil = (<<f, t>> :> [r \in Regions |-> n]) @@ @]

OpenTable(t) ==
    /\ th[t].pc = "open"
    /\ \E n \in LoadFilterNums(t) :
        mq' = Insert(ReadFilters(mq, th[t].f, t, n), <<th[t].f, 0, t>>, 0)
    /\ th' = [th EXCEPT ![t].pc = "insert", ![t].i = 1]
    /\ UNCHANGED <<opt, file>>

InsertRegion(t) ==
    /\ th[t].pc = "insert"
    /\ LET e == <<th[t].f, th[t].i, t>>
       IN  mq' = Insert(mq, e, BitsSum[mq.fil[TableOf(e)][th[t].i]])
    /\ th' = [th EXCEPT ![t].i = @ + 1,
                        ![t].pc = IF th[t].i = NumRegions THEN "found" ELSE @]
    /\ UNCHANGED <<opt, file>>

\* InternalGet gives a region that was never accessed and has no filter its
\* first ones, under the table's own lock and outside the cache's accounts.
InternalGet(t) ==
    /\ th[t].pc = "found" /\ th[t].r > 0
    /\ LET e == <<th[t].f, th[t].r, th[t].own>>
       IN  mq' = IF e \notin mq.acc /\ CurrFilterNum(mq, e) = 0
                 THEN [AddFilters(mq, e, InitFilters) EXCEPT !.acc = @ \cup {e}]
                 ELSE mq
    /\ th' = [th EXCEPT ![t].pc = "probed"]
    /\ UNCHANGED <<opt, file>>

\* Get looks the region up as a hit.
LookupRegion(t) ==
    /\ th[t].pc = "probed"
    /\ \E up \in BOOLEAN, q \in Queues \ {0}, junk \in Garbage :
        mq' = Ref(mq, mq.tab[<<th[t].f, th[t].r>>], TRUE,
                  [up |-> up, queue |-> q, junk |-> junk])
    /\ th' = [th EXCEPT ![t].pc = "hit"]
    /\ UNCHANGED <<opt, file>>

ReleaseRegion(t) ==
    /\ th[t].pc = "hit"
    /\ mq' = Unref(mq, <<th[t].f, th[t].r, th[t].own>>)
    /\ th' = [th EXCEPT ![t].pc = "found", ![t].r = 0]
    /\ UNCHANGED <<opt, file>>

\* The Get is over, or the iterator is deleted.  The compaction thread's
\* output becomes part of the next version.
ReleaseTable(t) ==
    /\ th[t].pc = "found" /\ th[t].r = 0
    /\ mq' = Unref(mq, <<th[t].f, 0, th[t].own>>)
    /\ th' = [th EXCEPT ![t] = Idle]
    /\ file' = IF t = Compactor THEN [file EXCEPT ![th[t].f] = "live"] ELSE file
    /\ UNCHANGED opt

\* LogAndApply drops a file from the current version.
DropFile(f) ==
    /\ file[f] = "live"
    /\ file' = [file EXCEPT ![f] = "obsolete"]
    /\ UNCHANGED <<opt, mq, th>>

\* DeleteObsoleteFiles: no version a reader holds contains f any more.
StartEvict(f) ==
    /\ th[Compactor].pc = "idle"
    /\ file[f] = "obsolete"
    /\ \A t \in Readers : th[t].pc # "idle" => th[t].f # f
    /\ file' = [file EXCEPT ![f] = "gone"]
    /\ IF Hit(mq, f)
       THEN /\ mq' = Ref(mq, mq.tab[<<f, 0>>], FALSE, NoChoice)
            /\ th' = [th EXCEPT ![Compactor] =
                        [pc |-> "evict", f |-> f, r |-> 0, i |-> 0,
                         own |-> mq.tab[<<f, 0>>][3]]]
       ELSE UNCHANGED <<mq, th>>
    /\ UNCHANGED opt

\* Mutant: Evict erases the table handle before the regions.
MutantEvictStep ==
    LET s == th[Compactor]
    IN  /\ s.pc = "evict"
        /\ mq' = IF s.i = 0 THEN Unref(mq, <<s.f, 0, s.own>>)
                 ELSE Erase(mq, <<s.f, s.i - 1>>)
        /\ th' = [th EXCEPT ![Compactor] =
                    IF s.i <= NumRegions THEN [s EXCEPT !.i = @ + 1] ELSE Idle]
        /\ UNCHANGED <<opt, file>>

\* Evict releases its own reference, then erases the regions, then the table.
EvictStep ==
    LET s == th[Compactor]
    IN  /\ s.pc = "evict"
        /\ mq' = IF s.i = 0 THEN Unref(mq, <<s.f, 0, s.own>>)
                 ELSE Erase(mq, <<s.f, IF s.i <= NumRegions THEN s.i ELSE 0>>)
        /\ th' = [th EXCEPT ![Compactor] =
                    IF s.i <= NumRegions THEN [s EXCEPT !.i = @ + 1] ELSE Idle]
        /\ UNCHANGED <<opt, file>>

fcNext ==
    /\ ~mq.spin
    /\ \/ \E t \in Threads :
            \/ StartRead(t) \/ OpenFails(t) \/ OpenTable(t) \/ InsertRegion(t)
            \/ InternalGet(t) \/ LookupRegion(t) \/ ReleaseRegion(t)
            \/ ReleaseTable(t)
       \/ \E f \in Files : DropFile(f) \/ StartEvict(f)
       \/ StartBuild
       \/ EvictStep

fcSpec == fcInit /\ [][fcNext]_fcVars

-----------------------------------------------------------------------------
Cached(m) == {e \in DOMAIN m.h : m.h[e].in_cache}
OnLru(m) == {e \in Cached(m) : m.h[e].refs = 1}

\* Every cached handle is on exactly one list, the one its reference count
\* and queue_id say, and lru_lens_ counts the lists: ShrinkLRU picks its
\* victims, and AllocFilterNums divides, by those counts.
ListsAgree ==
    /\ \A q \in Queues :
        /\ Len(mq.lru[q]) = mq.lens[q]
        /\ Cardinality(Range(mq.lru[q])) = mq.lens[q]
        /\ Range(mq.lru[q]) = {e \in OnLru(mq) : mq.h[e].qid = q}
    /\ mq.in_use = Cached(mq) \ OnLru(mq)
    /\ Range(mq.tab) = Cached(mq)

\* A Table is deleted with its table handle only: no region handle, cached or
\* held, may outlive it, since every shrink follows the handle to the Table.
TableOutlivesRegions ==
    /\ \A e \in DOMAIN mq.h : TableOf(e) \in DOMAIN mq.fil
    /\ \A t \in Threads : th[t].pc \in {"insert", "found", "probed", "hit"} =>
        <<th[t].f, 0, th[t].own>> \in DOMAIN mq.h

\* With one reader and no expiry, an entry that is not in use is charged for
\* exactly the filters its region holds in memory.
ChargedForFilters ==
    Cardinality(opt.readers) = 1 /\ opt.life > opt.gets =>
        \A e \in OnLru(mq) :
            /\ \A t \in Readers : th[t].pc = "probed" => e # <<th[t].f, th[t].r, th[t].own>>
            => mq.h[e].charge = BitsSum[CurrFilterNum(mq, e)]

=============================================================================
