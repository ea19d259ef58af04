------------------------------ MODULE LruCache ------------------------------
(***************************************************************************)
(* One shard of the LRU cache for blocks (util/cache.cc).  Each operation  *)
(* runs under mutex_, so it is one step, loops included.  The hash table   *)
(* is the function from a key to its handle.                               *)
(***************************************************************************)
EXTENDS Integers, Sequences, FiniteSets, FiniteSetsExt, SequencesExt, Functions

CONSTANTS
    LruKeys, LruHandles, \* LruHandles: 1 .. n, reused when freed
    LruCharges,          \* charges an insert may carry
    LruCapacities,       \* capacity_ values, 0 included
    MaxClients           \* bound on the references clients hold

VARIABLES
    lruCap,   \* capacity_
    lruC,     \* the shard: see LruEmpty
    lruHeld   \* history: handle -> references clients have not released

lruVars == <<lruCap, lruC, lruHeld>>

NoLruHandle == 0

LruEmpty ==
    [key |-> [h \in LruHandles |-> CHOOSE k \in LruKeys : TRUE],
     charge |-> [h \in LruHandles |-> 0],
     refs |-> [h \in LruHandles |-> 0],           \* 0: not allocated
     in_cache |-> [h \in LruHandles |-> FALSE],
     usage |-> 0, lru |-> <<>>, in_use |-> {},    \* lru: oldest first
     table |-> [k \in LruKeys |-> NoLruHandle]]

lruInit ==
    /\ lruCap \in LruCapacities
    /\ lruC = LruEmpty
    /\ lruHeld = [h \in LruHandles |-> 0]

LRU_Remove(c, h) ==
    [c EXCEPT !.lru = SelectSeq(@, LAMBDA x : x # h), !.in_use = @ \ {h}]

LruRef(c, h) ==
    LET d == IF c.refs[h] = 1 /\ c.in_cache[h]
             THEN [LRU_Remove(c, h) EXCEPT !.in_use = @ \cup {h}] ELSE c
    IN  [d EXCEPT !.refs[h] = @ + 1]

\* Mutant: forgets that an erased entry is on no list.
MutantLruUnref(c, h) ==
    LET d == [c EXCEPT !.refs[h] = @ - 1]
    IN  IF d.refs[h] = 1 THEN [LRU_Remove(d, h) EXCEPT !.lru = Append(@, h)] ELSE d

LruUnref(c, h) ==
    LET d == [c EXCEPT !.refs[h] = @ - 1]
    IN  IF d.in_cache[h] /\ d.refs[h] = 1
        THEN [LRU_Remove(d, h) EXCEPT !.lru = Append(@, h)] ELSE d

\* FinishErase of a handle the hash table has already given up.
LruFinishErase(c, h) ==
    IF h = NoLruHandle THEN c
    ELSE LruUnref([LRU_Remove(c, h) EXCEPT !.in_cache[h] = FALSE,
                                           !.usage = @ - c.charge[h]], h)

TableRemove(c, k) == LruFinishErase([c EXCEPT !.table[k] = NoLruHandle], c.table[k])

\* The first n entries of the LRU list are erased, oldest first.
EraseOldest(c, n) == FoldLeft(LAMBDA d, h : TableRemove(d, d.key[h]), c, SubSeq(c.lru, 1, n))
ChargeOfOldest(c, n) == MapThenSumSet(LAMBDA i : c.charge[c.lru[i]], 1 .. n)
Shrink(c) ==
    LET enough == {n \in 0 .. Len(c.lru) : c.usage - ChargeOfOldest(c, n) <= lruCap}
    IN  EraseOldest(c, IF enough = {} THEN Len(c.lru) ELSE Min(enough))

LruInsert(k, charge) ==
    \E h \in LruHandles :
        /\ lruC.refs[h] = 0 /\ \A g \in 1 .. h - 1 : lruC.refs[g] # 0
        /\ LET e == [lruC EXCEPT !.key[h] = k, !.charge[h] = charge, !.in_cache[h] = FALSE,
                                 !.refs[h] = 1]
               cached == [e EXCEPT !.refs[h] = 2, !.in_cache[h] = TRUE, !.in_use = @ \cup {h},
                                   !.usage = @ + charge, !.table[k] = h]
           IN  lruC' = Shrink(IF lruCap > 0 THEN LruFinishErase(cached, e.table[k]) ELSE e)
        /\ lruHeld' = [lruHeld EXCEPT ![h] = 1]
        /\ UNCHANGED lruCap

LruLookup(k) ==
    LET h == lruC.table[k]
    IN  /\ h # NoLruHandle /\ lruHeld[h] < MaxClients
        /\ lruC' = LruRef(lruC, h)
        /\ lruHeld' = [lruHeld EXCEPT ![h] = @ + 1]
        /\ UNCHANGED lruCap

LruRelease(h) ==
    /\ lruHeld[h] > 0
    /\ lruC' = LruUnref(lruC, h)
    /\ lruHeld' = [lruHeld EXCEPT ![h] = @ - 1]
    /\ UNCHANGED lruCap

LruErase(k) ==
    /\ lruC' = TableRemove(lruC, k)
    /\ UNCHANGED <<lruCap, lruHeld>>

LruPrune ==
    /\ lruC' = EraseOldest(lruC, Len(lruC.lru))
    /\ UNCHANGED <<lruCap, lruHeld>>

lruNext ==
    \/ \E k \in LruKeys :
        \/ \E charge \in LruCharges : LruInsert(k, charge)
        \/ LruLookup(k)
        \/ LruErase(k)
    \/ \E h \in LruHandles : LruRelease(h)
    \/ LruPrune

-----------------------------------------------------------------------------
\* What the shard believes matches what its clients hold, whatever the order
\* of inserts over old keys, erases, releases and evictions: an entry lives
\* exactly as long as a client or the cache refers to it, an idle cached entry
\* is on lru_ once and a used one on in_use_, the table finds every cached
\* entry, and usage_ is the sum of their charges.
LruMatchesClients ==
    LET cached == {h \in LruHandles : lruC.in_cache[h]}
    IN  /\ \A h \in LruHandles :
              lruC.refs[h] = lruHeld[h] + (IF lruC.in_cache[h] THEN 1 ELSE 0)
        /\ ToSet(lruC.lru) = {h \in cached : lruHeld[h] = 0}
        /\ Len(lruC.lru) = Cardinality(ToSet(lruC.lru))
        /\ lruC.in_use = {h \in cached : lruHeld[h] > 0}
        /\ \A k \in LruKeys : {h \in cached : lruC.key[h] = k} = {lruC.table[k]} \ {NoLruHandle}
        /\ lruC.usage = SumFunctionOnSet(lruC.charge, cached)
=============================================================================
