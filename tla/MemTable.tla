------------------------------ MODULE MemTable ------------------------------
(***************************************************************************)
(* The memtable: a skip list with one inserter and readers that take no    *)
(* lock (db/skiplist.h, db/memtable.cc), and the arena its entries are     *)
(* allocated from (util/arena.cc).                                         *)
(*                                                                         *)
(* A key is a number, the internal key in comparator order; UserKey gives  *)
(* its user key.  The inserter is externally synchronized, so its search   *)
(* is part of the first step; after that each store to a link is a step,   *)
(* and so is each load of a reader.  A new node's links hold what the      *)
(* arena's memory held: Wild.                                              *)
(***************************************************************************)
EXTENDS Integers, Sequences, FiniteSets, FiniteSetsExt

CONSTANTS
    SkipKeys,       \* internal keys, positive integers
    MaxHeight,      \* kMaxHeight
    MaxReads,       \* bound on the operations of the reader
    BlockSize, Align, AllocSizes, MaxAllocs \* arena: kBlockSize, align, inputs, bound

\* Allocate asserts that bytes > 0.
ASSUME MemTableAssumption ==
    /\ SkipKeys \subseteq Nat \ {0} /\ MaxHeight \in Nat \ {0}
    /\ BlockSize \in Nat /\ Align \in Nat \ {0} /\ AllocSizes \subseteq Nat \ {0}

VARIABLES
    skNext,  \* node -> level -> node: the links
    skMax,   \* max_height_
    skIns,   \* the insertion in progress
    skIn,    \* history: keys linked at level 0
    skRd,    \* the reader's iterator and search
    skReads
VARIABLE arena \* alloc_ptr_, alloc_bytes_remaining_, blocks_, and what was handed out

skVars == <<skNext, skMax, skIns, skIn, skRd, skReads>>

Head0 == 0      \* head_
Nil == -1
Wild == -2
SkLevels == 0 .. MaxHeight - 1
UserKey(k) == k \div 2
NoInsert == [key |-> Nil]

skInit ==
    /\ skNext = [n \in SkipKeys \cup {Head0} |->
                    [l \in SkLevels |-> IF n = Head0 THEN Nil ELSE Wild]]
    /\ skMax = 1
    /\ skIns = NoInsert /\ skIn = {}
    /\ skRd = [op |-> "idle", node |-> Nil] /\ skReads = 0

-----------------------------------------------------------------------------
(* Insert. *)
\* What FindGreaterOrEqual leaves in prev[l]: the last node before key.
Prev(key, l) ==
    LET on == {n \in skIn : skNext[n][l] # Wild /\ n < key}
    IN  IF on = {} THEN Head0 ELSE Max(on)

SkipInsert(key, height) ==
    /\ skIns = NoInsert /\ key \notin skIn
    /\ skIns' = [key |-> key, height |-> height, level |-> 0, set |-> FALSE,
                 prev |-> [l \in SkLevels |-> IF l < skMax THEN Prev(key, l) ELSE Head0]]
    /\ skMax' = Max({skMax, height})
    /\ UNCHANGED <<skNext, skIn, skRd, skReads>>

\* x->NoBarrier_SetNext(i, prev[i]->NoBarrier_Next(i))
SetNextOfNew(i) ==
    /\ skNext' = [skNext EXCEPT ![i.key][i.level] = skNext[i.prev[i.level]][i.level]]
    /\ skIn' = skIn

\* prev[i]->SetNext(i, x)
LinkNew(i) ==
    /\ skNext' = [skNext EXCEPT ![i.prev[i.level]][i.level] = i.key]
    /\ skIn' = skIn \cup {i.key}

\* Mutant: the node is linked, and its own link left as it was.
MutantFirstStore(i) ==
    /\ skNext' = [skNext EXCEPT ![i.prev[i.level]][i.level] = i.key,
                                ![i.key][i.level] = Wild]
    /\ skIn' = skIn \cup {i.key}

FirstStore(i) == SetNextOfNew(i)

InsertStep ==
    /\ skIns # NoInsert
    /\ IF ~skIns.set
       THEN /\ FirstStore(skIns)
            /\ skIns' = [skIns EXCEPT !.set = TRUE]
       ELSE /\ LinkNew(skIns)
            /\ skIns' = IF skIns.level + 1 = skIns.height THEN NoInsert
                        ELSE [skIns EXCEPT !.level = @ + 1, !.set = FALSE]
    /\ UNCHANGED <<skMax, skRd, skReads>>

-----------------------------------------------------------------------------
(* Readers.  must is what the list held when the operation began. *)
\* max_height_ is read without a barrier: any value it has had.
StartSearch(op, target) ==
    \E h \in 1 .. skMax :
        skRd' = [op |-> op, target |-> target, node |-> skRd.node, x |-> Head0,
                 level |-> h - 1, must |-> skIn]

BeginRead(op, target) ==
    /\ skReads < MaxReads
    /\ skRd.op \notin {"ge", "lt", "last"}
    /\ skReads' = skReads + 1
    /\ CASE op \in {"ge", "last"} -> StartSearch(op, target)
         [] op = "lt" -> /\ skRd.node \notin {Nil, Wild}
                         /\ StartSearch("lt", skRd.node)
         [] op = "first" -> skRd' = [op |-> "done:first", target |-> Head0, must |-> skIn,
                                     node |-> skNext[Head0][0]]
         [] op = "next" -> /\ skRd.node \notin {Nil, Wild}
                           /\ skRd' = [op |-> "done:next", target |-> skRd.node, must |-> skIn,
                                       node |-> skNext[skRd.node][0]]
    /\ UNCHANGED <<skNext, skMax, skIns, skIn>>

\* One turn of the loop of FindGreaterOrEqual, FindLessThan or FindLast.
StopsAt(next) == next = Nil \/ (skRd.op # "last" /\ next >= skRd.target)

DoneOf == [ge |-> "done:ge", lt |-> "done:lt", last |-> "done:last"]

SearchStep ==
    /\ skRd.op \in {"ge", "lt", "last"}
    /\ LET next == skNext[skRd.x][skRd.level]
           result == IF skRd.op = "ge" THEN next ELSE IF skRd.x = Head0 THEN Nil ELSE skRd.x
       IN  skRd' = CASE next = Wild -> [skRd EXCEPT !.op = "done:wild"]
                     [] next # Wild /\ ~StopsAt(next) -> [skRd EXCEPT !.x = next]
                     [] next # Wild /\ StopsAt(next) /\ skRd.level > 0 -> [skRd EXCEPT !.level = @ - 1]
                     [] OTHER -> [op |-> DoneOf[skRd.op], target |-> skRd.target,
                                  must |-> skRd.must, node |-> result]
    /\ UNCHANGED <<skNext, skMax, skIns, skIn, skReads>>

\* MemTable::Get, once Seek has returned.
Found == skRd.node # Nil /\ UserKey(skRd.node) = UserKey(skRd.target)

skNextStep ==
    \/ \E k \in SkipKeys, h \in 1 .. MaxHeight : SkipInsert(k, h)
    \/ InsertStep
    \/ \E op \in {"ge", "lt", "last", "first", "next"}, t \in SkipKeys :
            (op # "ge" => t = Min(SkipKeys)) /\ BeginRead(op, t)
    \/ SearchStep

skSpec == skInit /\ [][skNextStep]_skVars

-----------------------------------------------------------------------------
(* Arena. *)
arenaInit == arena = [ptr |-> <<0, 0>>, remaining |-> 0, blocks |-> <<>>, given |-> <<>>]

AllocateNewBlock(a, bytes) == [a EXCEPT !.blocks = Append(@, bytes)]
Given(a, at, bytes) == [a EXCEPT !.given = Append(@, [at |-> at, len |-> bytes])]

\* Mutant: a large object also takes the current block's place.
MutantAllocateFallback(a, bytes) ==
    LET b == AllocateNewBlock(a, IF bytes > BlockSize \div 4 THEN bytes ELSE BlockSize)
        at == <<Len(b.blocks), 0>>
    IN  Given([b EXCEPT !.ptr = <<at[1], bytes>>, !.remaining = BlockSize - bytes], at, bytes)

AllocateFallback(a, bytes) ==
    LET large == bytes > BlockSize \div 4
        b == AllocateNewBlock(a, IF large THEN bytes ELSE BlockSize)
        at == <<Len(b.blocks), 0>>
    IN  Given(IF large THEN b
              ELSE [b EXCEPT !.ptr = <<at[1], bytes>>, !.remaining = BlockSize - bytes], at, bytes)

\* Allocate, and AllocateAligned with the slop in front.
Allocate(bytes, aligned) ==
    LET slop == IF aligned THEN (Align - (arena.ptr[2] % Align)) % Align ELSE 0
        at == <<arena.ptr[1], arena.ptr[2] + slop>>
    IN  /\ Len(arena.given) < MaxAllocs
        /\ arena' = IF bytes + slop <= arena.remaining
                    THEN Given([arena EXCEPT !.ptr = <<@[1], @[2] + slop + bytes>>,
                                             !.remaining = @ - (slop + bytes)], at, bytes)
                    ELSE AllocateFallback(arena, bytes)

arenaNext == \E bytes \in AllocSizes, aligned \in BOOLEAN : Allocate(bytes, aligned)
arenaSpec == arenaInit /\ [][arenaNext]_arena

-----------------------------------------------------------------------------
\* A reader without a lock misses nothing that was in the list when its
\* operation began, never follows a link that is not set, and so MemTable::Get
\* finds the newest entry of a user key at or below its sequence number.
ReadersMissNothing ==
    LET r == skRd.node
        between(lo, hi) == {k \in skRd.must : lo < k /\ (hi = Nil \/ k < hi)}
    IN  /\ skRd.op # "done:wild"
        /\ skRd.op \in {"done:ge", "done:next", "done:first"} => r # Wild
        /\ skRd.op = "done:ge" =>
             /\ between(skRd.target - 1, r) = {}
             /\ r # Nil => r >= skRd.target
             /\ (\E k \in skRd.must : k >= skRd.target /\ UserKey(k) = UserKey(skRd.target)) => Found
        /\ skRd.op \in {"done:next", "done:first"} =>
             between(skRd.target, r) = {} /\ (r # Nil => r > skRd.target)
        /\ skRd.op = "done:lt" =>
             between(IF r = Nil THEN Head0 ELSE r, skRd.target) = {} /\ r < skRd.target
        /\ skRd.op = "done:last" => between(IF r = Nil THEN Head0 ELSE r, Nil) = {}

\* What the arena hands out lies inside its block and overlaps nothing else
\* handed out, whatever mix of large, small and aligned requests.
ArenaKeepsApart ==
    LET g == arena.given
        within(i) == g[i].at[2] + g[i].len <= arena.blocks[g[i].at[1]]
        apart(i, j) == \/ g[i].at[1] # g[j].at[1]
                       \/ g[i].at[2] + g[i].len <= g[j].at[2]
                       \/ g[j].at[2] + g[j].len <= g[i].at[2]
    IN  \A i \in DOMAIN g : within(i) /\ \A j \in 1 .. i - 1 : apart(i, j)

\* What the memtable owes a Get that runs beside the writer: the skiplist shows
\* it everything that was there, in memory that nothing else was given.
MemTableServesReaders == ReadersMissNothing /\ ArenaKeepsApart
=============================================================================
