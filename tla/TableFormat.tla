----------------------------- MODULE TableFormat ----------------------------
(***************************************************************************)
(* A sorted table, from TableBuilder to the iterator that reads it back:   *)
(* BlockBuilder's prefix-compressed entries and restart points, the index  *)
(* block with its shortened separators, Block::Iter and the two-level      *)
(* iterator.  Keys are byte strings over 0 .. MaxByte; an entry stands for *)
(* its three lengths, the key's tail and a one-byte value; the value of an *)
(* index entry is the offset and size of a block.                          *)
(***************************************************************************)
EXTENDS Integers, Sequences, FiniteSets, SequencesExt, FiniteSetsExt

CONSTANTS
    TableKeys,       \* keys that may be added, as sequences of bytes
    MaxByte,         \* 0xff
    RestartInterval, \* block_restart_interval
    TableBlockSize,  \* block_size
    SuccessorFrom,   \* the byte FindShortSuccessorBeginWith starts at
    FilterBaseLg,    \* kFilterBaseLg
    RegionSize,      \* freq_divide_size
    MaxTableKeys     \* bound on the keys of a table

VARIABLES
    tbKeys, \* history: the keys added, in order
    tbRep,  \* the builder: the data block, the index block, the written blocks
    tbIter, \* the two-level iterator over the finished table
    tbAt    \* history: the place in tbKeys the iterator should have, 0 for none
tbVars == <<tbKeys, tbRep, tbIter, tbAt>>

\* Slice::compare
RECURSIVE Less(_, _)
Less(a, b) ==
    IF b = <<>> THEN FALSE
    ELSE IF a = <<>> THEN TRUE
    ELSE IF Head(a) # Head(b) THEN Head(a) < Head(b)
    ELSE Less(Tail(a), Tail(b))

Shared(a, b) == Max({n \in 0 .. Min({Len(a), Len(b)}) : SubSeq(a, 1, n) = SubSeq(b, 1, n)})

\* BytewiseComparatorImpl::FindShortestSeparator
FindShortestSeparator(start, limit) ==
    LET d == Shared(start, limit) + 1
    IN IF d <= Min({Len(start), Len(limit)}) /\ start[d] < MaxByte /\ start[d] + 1 < limit[d]
       THEN Append(SubSeq(start, 1, d - 1), start[d] + 1)
       ELSE start

\* FindShortSuccessorBeginWith
FindShortSuccessor(key) ==
    LET can == {i \in SuccessorFrom + 1 .. Len(key) : key[i] # MaxByte}
    IN IF can = {} THEN key ELSE Append(SubSeq(key, 1, Min(can) - 1), key[Min(can)] + 1)

\* Blocks ---------------------------------------------------------------------
EmptyBlock == [entries |-> <<>>, restarts |-> <<0>>, counter |-> 0, end |-> 0, last |-> <<>>]

\* BlockBuilder::Add
BlockAdd(b, key, value, interval) ==
    LET restart == b.counter >= interval
        n == IF restart THEN 0 ELSE Shared(b.last, key)
        delta == SubSeq(key, n + 1, Len(key))
        len == 3 + Len(delta) + 1
    IN [entries |-> Append(b.entries, [off |-> b.end, shared |-> n, delta |-> delta, value |-> value, len |-> len]),
        restarts |-> IF restart THEN Append(b.restarts, b.end) ELSE b.restarts,
        counter |-> (IF restart THEN 0 ELSE b.counter) + 1,
        end |-> b.end + len,
        last |-> key]

CurrentSizeEstimate(b) == b.end + 4 * Len(b.restarts) + 4

EntryAt(b, off) == b.entries[CHOOSE i \in DOMAIN b.entries : b.entries[i].off = off]
NumRestarts(b) == Len(b.restarts)

\* Block::Iter: current_, restart_index_, key_ and the end of value_
NewIterator(b) == [cur |-> b.end, ri |-> NumRestarts(b), key |-> <<>>, next |-> 0]
BlockValid(b, it) == it.cur < b.end
GetRestartPoint(b, i) == b.restarts[i + 1]
SeekToRestartPoint(b, it, i) == [it EXCEPT !.key = <<>>, !.ri = i, !.next = GetRestartPoint(b, i)]

RECURSIVE AdvanceRestart(_, _, _)
AdvanceRestart(b, ri, cur) ==
    IF ri + 1 < NumRestarts(b) /\ GetRestartPoint(b, ri + 1) < cur THEN AdvanceRestart(b, ri + 1, cur) ELSE ri

ParseNextKey(b, it) ==
    IF it.next >= b.end THEN [it EXCEPT !.cur = b.end, !.ri = NumRestarts(b)]
    ELSE LET e == EntryAt(b, it.next)
         IN [cur |-> e.off, ri |-> AdvanceRestart(b, it.ri, e.off),
             key |-> SubSeq(it.key, 1, e.shared) \o e.delta, next |-> e.off + e.len]

\* The loops that parse on: to the entry that ends at "stop", or to a key at
\* or after the target
RECURSIVE ParseUntil(_, _, _)
ParseUntil(b, it, stop) ==
    LET p == ParseNextKey(b, it)
    IN IF BlockValid(b, p) /\ p.next < stop THEN ParseUntil(b, p, stop) ELSE p

RECURSIVE ParseToKey(_, _, _)
ParseToKey(b, it, target) ==
    LET p == ParseNextKey(b, it)
    IN IF BlockValid(b, p) /\ Less(p.key, target) THEN ParseToKey(b, p, target) ELSE p

MutantRestartBefore(b, ri, original) ==
    IF GetRestartPoint(b, ri) > original THEN ri - 1 ELSE ri
RECURSIVE RestartBefore(_, _, _)
RestartBefore(b, ri, original) ==
    IF GetRestartPoint(b, ri) < original THEN ri
    ELSE IF ri = 0 THEN -1 ELSE RestartBefore(b, ri - 1, original)

BlockPrev(b, it) ==
    LET r == RestartBefore(b, it.ri, it.cur)
    IN IF r = -1 THEN [it EXCEPT !.cur = b.end, !.ri = NumRestarts(b)]
       ELSE ParseUntil(b, SeekToRestartPoint(b, it, r), it.cur)

\* The binary search over the restart points
RECURSIVE SearchRestart(_, _, _, _)
SearchRestart(b, target, left, right) ==
    IF left >= right THEN left
    ELSE LET mid == (left + right + 1) \div 2
         IN IF Less(EntryAt(b, GetRestartPoint(b, mid)).delta, target)
            THEN SearchRestart(b, target, mid, right)
            ELSE SearchRestart(b, target, left, mid - 1)

BlockSeek(b, it, target) ==
    ParseToKey(b, SeekToRestartPoint(b, it, SearchRestart(b, target, 0, NumRestarts(b) - 1)), target)
BlockSeekToFirst(b, it) == ParseNextKey(b, SeekToRestartPoint(b, it, 0))
BlockSeekToLast(b, it) == ParseUntil(b, SeekToRestartPoint(b, it, NumRestarts(b) - 1), b.end)

\* TableBuilder ---------------------------------------------------------------
tbInit ==
    /\ tbKeys = <<>>
    /\ tbRep = [data |-> EmptyBlock, index |-> EmptyBlock, blocks |-> <<>>, pending |-> FALSE,
                last |-> <<>>, ok |-> TRUE, done |-> FALSE]
    /\ tbIter = [open |-> FALSE, index |-> NewIterator(EmptyBlock), block |-> 0,
                 data |-> NewIterator(EmptyBlock), handle |-> 0]
    /\ tbAt = 0

\* The index entry of the last block written is added when the next key is
\* known; its value is the handle of that block, here its number.
IndexPending(r, key) ==
    IF r.pending THEN [r EXCEPT !.index = BlockAdd(@, key, Len(r.blocks), 1), !.pending = FALSE] ELSE r

\* Flush: a write that fails leaves its status in the builder.
FlushBlock(r, ok) ==
    IF ~r.ok \/ r.data.entries = <<>> THEN r
    ELSE IF ~ok THEN [r EXCEPT !.ok = FALSE, !.data = EmptyBlock]
    ELSE [r EXCEPT !.blocks = Append(@, r.data), !.data = EmptyBlock, !.pending = TRUE]

TableAdd(key, ok) ==
    LET r == IndexPending(tbRep, FindShortestSeparator(tbRep.last, key))
        added == [r EXCEPT !.data = BlockAdd(@, key, Len(tbKeys) + 1, RestartInterval), !.last = key]
    IN /\ tbRep.ok /\ ~tbRep.done /\ Len(tbKeys) < MaxTableKeys
       /\ tbKeys # <<>> => Less(Last(tbKeys), key)
       /\ tbRep' = IF CurrentSizeEstimate(added.data) >= TableBlockSize THEN FlushBlock(added, ok) ELSE added
       /\ tbKeys' = Append(tbKeys, key)
       /\ UNCHANGED <<tbIter, tbAt>>

\* Finish: the footer, without which a table does not open, is written last.
TableFinish(ok) ==
    LET r == FlushBlock(tbRep, ok)
    IN /\ ~tbRep.done /\ tbKeys # <<>>
       /\ tbRep' = IF ok /\ r.ok THEN [IndexPending(r, FindShortSuccessor(r.last)) EXCEPT !.done = TRUE]
                   ELSE [r EXCEPT !.done = TRUE, !.ok = FALSE]
       /\ UNCHANGED <<tbKeys, tbIter, tbAt>>

\* TwoLevelIterator -------------------------------------------------------------
DataBlock(it) == tbRep.blocks[it.block]
DataValid(it) == it.block # 0 /\ BlockValid(DataBlock(it), it.data)
IndexValid(it) == BlockValid(tbRep.index, it.index)
HandleAt(it) == EntryAt(tbRep.index, it.index.cur).value

InitDataBlock(it) ==
    IF ~IndexValid(it) THEN [it EXCEPT !.block = 0]
    ELSE IF it.block # 0 /\ HandleAt(it) = it.handle THEN it
    ELSE LET h == HandleAt(it)
         IN [it EXCEPT !.block = h, !.handle = h, !.data = NewIterator(tbRep.blocks[h])]

DataSeek(it, target) ==
    IF it.block = 0 THEN it ELSE [it EXCEPT !.data = BlockSeek(DataBlock(it), @, target)]
DataSeekToFirst(it) == IF it.block = 0 THEN it ELSE [it EXCEPT !.data = BlockSeekToFirst(DataBlock(it), @)]
DataSeekToLast(it) == IF it.block = 0 THEN it ELSE [it EXCEPT !.data = BlockSeekToLast(DataBlock(it), @)]

RECURSIVE SkipEmptyDataBlocksForward(_)
SkipEmptyDataBlocksForward(it) ==
    IF DataValid(it) THEN it
    ELSE IF ~IndexValid(it) THEN [it EXCEPT !.block = 0]
    ELSE SkipEmptyDataBlocksForward(
           DataSeekToFirst(InitDataBlock([it EXCEPT !.index = ParseNextKey(tbRep.index, @)])))

RECURSIVE SkipEmptyDataBlocksBackward(_)
SkipEmptyDataBlocksBackward(it) ==
    IF DataValid(it) THEN it
    ELSE IF ~IndexValid(it) THEN [it EXCEPT !.block = 0]
    ELSE SkipEmptyDataBlocksBackward(
           DataSeekToLast(InitDataBlock([it EXCEPT !.index = BlockPrev(tbRep.index, @)])))

\* Where a block starts in the file: each is followed by its restarts and a
\* trailer of type and checksum.
BlockOffset(n) == FoldSeq(LAMBDA b, o : o + CurrentSizeEstimate(b) + 5, 0, SubSeq(tbRep.blocks, 1, n - 1))

\* Block::Iter::SeekByValue on the index block, by the offset of the handle
RECURSIVE SearchRestartByValue(_, _, _)
SearchRestartByValue(target, left, right) ==
    IF left >= right THEN left
    ELSE LET mid == (left + right + 1) \div 2
         IN IF BlockOffset(EntryAt(tbRep.index, GetRestartPoint(tbRep.index, mid)).value) < target
            THEN SearchRestartByValue(target, mid, right)
            ELSE SearchRestartByValue(target, left, mid - 1)

RECURSIVE ParseToOffset(_, _)
ParseToOffset(it, target) ==
    LET p == ParseNextKey(tbRep.index, it)
    IN IF BlockValid(tbRep.index, p) /\ BlockOffset(EntryAt(tbRep.index, p.cur).value) < target
       THEN ParseToOffset(p, target) ELSE p

SeekByValue(target) ==
    LET left == SearchRestartByValue(target, 0, NumRestarts(tbRep.index) - 1)
    IN ParseToOffset(SeekToRestartPoint(tbRep.index, NewIterator(tbRep.index), left), target)

\* getRegionKeyRanges: the index key each region of RegionSize bytes starts at
RegionKeys ==
    LET last == EntryAt(tbRep.index, BlockSeekToLast(tbRep.index, NewIterator(tbRep.index)).cur).value
        bit == 2^(FilterBaseLg - 1)
        cleared == IF (BlockOffset(last) \div bit) % 2 = 1 THEN BlockOffset(last) - bit ELSE BlockOffset(last)
        count == (cleared + FilterBaseLg + RegionSize - 1) \div RegionSize
    IN [i \in 1 .. count |-> SeekByValue((i - 1) * RegionSize)]

TableOpen ==
    /\ tbRep.done /\ tbRep.ok /\ ~tbIter.open
    /\ tbIter' = [open |-> TRUE, index |-> NewIterator(tbRep.index), block |-> 0,
                  data |-> NewIterator(EmptyBlock), handle |-> 0]
    /\ UNCHANGED <<tbKeys, tbRep, tbAt>>

TableSeek(target) ==
    /\ tbIter.open
    /\ tbIter' = SkipEmptyDataBlocksForward(
         DataSeek(InitDataBlock([tbIter EXCEPT !.index = BlockSeek(tbRep.index, @, target)]), target))
    /\ tbAt' = (LET S == {i \in DOMAIN tbKeys : ~Less(tbKeys[i], target)} IN IF S = {} THEN 0 ELSE Min(S))
    /\ UNCHANGED <<tbKeys, tbRep>>

TableSeekToFirst ==
    /\ tbIter.open
    /\ tbIter' = SkipEmptyDataBlocksForward(
         DataSeekToFirst(InitDataBlock([tbIter EXCEPT !.index = BlockSeekToFirst(tbRep.index, @)])))
    /\ tbAt' = 1
    /\ UNCHANGED <<tbKeys, tbRep>>

TableSeekToLast ==
    /\ tbIter.open
    /\ tbIter' = SkipEmptyDataBlocksBackward(
         DataSeekToLast(InitDataBlock([tbIter EXCEPT !.index = BlockSeekToLast(tbRep.index, @)])))
    /\ tbAt' = Len(tbKeys)
    /\ UNCHANGED <<tbKeys, tbRep>>

TableNext ==
    /\ tbIter.open /\ DataValid(tbIter)
    /\ tbIter' = SkipEmptyDataBlocksForward([tbIter EXCEPT !.data = ParseNextKey(DataBlock(tbIter), @)])
    /\ tbAt' = IF tbAt = Len(tbKeys) THEN 0 ELSE tbAt + 1
    /\ UNCHANGED <<tbKeys, tbRep>>

TablePrev ==
    /\ tbIter.open /\ DataValid(tbIter)
    /\ tbIter' = SkipEmptyDataBlocksBackward([tbIter EXCEPT !.data = BlockPrev(DataBlock(tbIter), @)])
    /\ tbAt' = tbAt - 1
    /\ UNCHANGED <<tbKeys, tbRep>>

tbNext ==
    \/ \E key \in TableKeys, ok \in BOOLEAN : TableAdd(key, ok)
    \/ \E ok \in BOOLEAN : TableFinish(ok)
    \/ TableOpen
    \/ \E target \in TableKeys : TableSeek(target)
    \/ TableSeekToFirst \/ TableSeekToLast \/ TableNext \/ TablePrev

\* A table reads back as it was written: after any mix of Seek, SeekToFirst,
\* SeekToLast, Next and Prev the two-level iterator stands on the key, with
\* the value, that the same calls reach in the sequence of keys added, and is
\* invalid exactly off its ends.  Prefix compression, restart points, block
\* boundaries and the shortened keys of the index are never seen.  Every
\* region of the table gets the index key of the first block that starts at
\* or after the region does.
TableReadsBack ==
    tbIter.open =>
        /\ DataValid(tbIter) = (tbAt # 0)
        /\ tbAt # 0 =>
             /\ tbIter.data.key = tbKeys[tbAt]
             /\ EntryAt(DataBlock(tbIter), tbIter.data.cur).value = tbAt
        /\ \A i \in DOMAIN RegionKeys :
             /\ BlockValid(tbRep.index, RegionKeys[i])
             /\ EntryAt(tbRep.index, RegionKeys[i].cur).value
                  = Min({n \in DOMAIN tbRep.blocks : BlockOffset(n) >= (i - 1) * RegionSize})
        /\ Len(RegionKeys) * RegionSize > BlockOffset(Len(tbRep.blocks))
=============================================================================
