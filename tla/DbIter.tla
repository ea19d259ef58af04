------------------------------- MODULE DbIter -------------------------------
(***************************************************************************)
(* A database iterator (db/db_iter.cc) over a merging iterator             *)
(* (table/merger.cc) over the sorted entries of several sources.  An entry *)
(* is [key, seq, type]; its value is its sequence number.  One step is one *)
(* call on the database iterator.                                          *)
(***************************************************************************)
EXTENDS Integers, Sequences, FiniteSets, SequencesExt, FiniteSetsExt

CONSTANTS
    IterKeys,    \* user keys, numbers
    IterSeqs,    \* sequence numbers 1 .. n, one write each
    IterSources  \* 1 .. n, the memtables and tables merged

VARIABLES
    itChild, \* per source: its entries in the order of InternalKeyComparator
    itSeq,   \* sequence_, the snapshot of the iterator
    itMerge, \* the merging iterator: child positions (0 invalid), current_, direction_
    itDb,    \* the database iterator: direction_, valid_, saved_key_, saved_value_
    itAt     \* history: the user key the client should see, 0 for none
itVars == <<itChild, itSeq, itMerge, itDb, itAt>>

\* InternalKeyComparator: user key ascending, sequence number descending
Before(a, b) == a.key < b.key \/ (a.key = b.key /\ a.seq > b.seq)
Ordered(S) == SetToSortSeq(S, Before)

\* Children -----------------------------------------------------------------
EntryOf(m, i) == itChild[i][m.pos[i]]
ChildValid(m, i) == m.pos[i] # 0
ChildSeek(i, e) == LET S == {n \in DOMAIN itChild[i] : ~Before(itChild[i][n], e)}
                   IN IF S = {} THEN 0 ELSE Min(S)
ChildNext(i, n) == IF n = Len(itChild[i]) THEN 0 ELSE n + 1
ChildPrev(i, n) == n - 1
ChildFirst(i) == IF itChild[i] = <<>> THEN 0 ELSE 1
ChildLast(i) == Len(itChild[i])

\* The merging iterator -------------------------------------------------------
ValidChildren(m) == {i \in IterSources : ChildValid(m, i)}
FindSmallest(m) ==
    [m EXCEPT !.cur = IF ValidChildren(m) = {} THEN 0
                      ELSE CHOOSE i \in ValidChildren(m) :
                             \A j \in ValidChildren(m) : i = j \/ Before(EntryOf(m, i), EntryOf(m, j))]
FindLargest(m) ==
    [m EXCEPT !.cur = IF ValidChildren(m) = {} THEN 0
                      ELSE CHOOSE i \in ValidChildren(m) :
                             \A j \in ValidChildren(m) : i = j \/ Before(EntryOf(m, j), EntryOf(m, i))]
MergeValid(m) == m.cur # 0
MergeEntry(m) == EntryOf(m, m.cur)

MergeAt(pos, dir) == [pos |-> pos, cur |-> 0, dir |-> dir]
MergeSeekToFirst == FindSmallest(MergeAt([i \in IterSources |-> ChildFirst(i)], "forward"))
MergeSeekToLast == FindLargest(MergeAt([i \in IterSources |-> ChildLast(i)], "reverse"))
MergeSeek(e) == FindSmallest(MergeAt([i \in IterSources |-> ChildSeek(i, e)], "forward"))

\* On a change of direction the other children are moved past the current key.
MutantMergeNext(m) ==
    FindSmallest([m EXCEPT !.pos = [@ EXCEPT ![m.cur] = ChildNext(m.cur, @)], !.dir = "forward"])
MergeNext(m) ==
    LET turned == [i \in IterSources |->
                     IF i = m.cur \/ m.dir = "forward" THEN m.pos[i]
                     ELSE LET n == ChildSeek(i, MergeEntry(m))
                          IN IF n # 0 /\ itChild[i][n] = MergeEntry(m) THEN ChildNext(i, n) ELSE n]
    IN FindSmallest([m EXCEPT !.pos = [turned EXCEPT ![m.cur] = ChildNext(m.cur, @)], !.dir = "forward"])
MergePrev(m) ==
    LET turned == [i \in IterSources |->
                     IF i = m.cur \/ m.dir = "reverse" THEN m.pos[i]
                     ELSE LET n == ChildSeek(i, MergeEntry(m))
                          IN IF n # 0 THEN ChildPrev(i, n) ELSE ChildLast(i)]
    IN FindLargest([m EXCEPT !.pos = [turned EXCEPT ![m.cur] = ChildPrev(m.cur, @)], !.dir = "reverse"])

\* The database iterator -------------------------------------------------------
At(m, dir, valid, key, value) ==
    [m |-> m, db |-> [dir |-> dir, valid |-> valid, key |-> key, value |-> value]]

\* saved_value_ is not read while the direction is forward.
RECURSIVE FindNextUserEntry(_, _, _)
FindNextUserEntry(m, skipping, skip) ==
    IF ~MergeValid(m) THEN At(m, "forward", FALSE, 0, 0)
    ELSE LET e == MergeEntry(m)
         IN IF e.seq > itSeq THEN FindNextUserEntry(MergeNext(m), skipping, skip)
            ELSE IF e.type = "delete" THEN FindNextUserEntry(MergeNext(m), TRUE, e.key)
            ELSE IF skipping /\ e.key <= skip THEN FindNextUserEntry(MergeNext(m), skipping, skip)
            ELSE At(m, "forward", TRUE, 0, 0)

\* "type" is the value_type of the loop, "key" and "value" the saved ones.
RECURSIVE FindPrevUserEntry(_, _, _, _)
FindPrevUserEntry(m, type, key, value) ==
    LET done == IF type = "delete" THEN At(m, "forward", FALSE, 0, 0)
                ELSE At(m, "reverse", TRUE, key, value)
    IN IF ~MergeValid(m) THEN done
       ELSE LET e == MergeEntry(m)
            IN IF e.seq > itSeq THEN FindPrevUserEntry(MergePrev(m), type, key, value)
               ELSE IF type # "delete" /\ e.key < key THEN done
               ELSE IF e.type = "delete" THEN FindPrevUserEntry(MergePrev(m), "delete", 0, 0)
               ELSE FindPrevUserEntry(MergePrev(m), "value", e.key, e.seq)

\* The loop of Prev() that leaves the entries of the current key backwards
RECURSIVE BeforeKey(_, _)
BeforeKey(m, key) ==
    IF ~MergeValid(m) \/ MergeEntry(m).key < key THEN m ELSE BeforeKey(MergePrev(m), key)

\* Calls -------------------------------------------------------------------
Becomes(r) == itMerge' = r.m /\ itDb' = r.db /\ UNCHANGED <<itChild, itSeq>>

\* What the snapshot contains: the newest entry of a key, unless a deletion
AllEntries == UNION {Range(itChild[i]) : i \in IterSources}
VisibleTo(k) == {e \in AllEntries : e.key = k /\ e.seq <= itSeq}
Newest(k) == CHOOSE e \in VisibleTo(k) : \A f \in VisibleTo(k) : f.seq <= e.seq
Live == {k \in IterKeys : VisibleTo(k) # {} /\ Newest(k).type = "value"}
First(S) == IF S = {} THEN 0 ELSE Min(S)
Final(S) == IF S = {} THEN 0 ELSE Max(S)

IterSeek(k) ==
    LET m == MergeSeek([key |-> k, seq |-> itSeq, type |-> "value"])
    IN /\ Becomes(FindNextUserEntry(m, FALSE, 0))
       /\ itAt' = First({x \in Live : x >= k})

IterSeekToFirst ==
    /\ Becomes(FindNextUserEntry(MergeSeekToFirst, FALSE, 0))
    /\ itAt' = First(Live)

IterSeekToLast ==
    /\ Becomes(FindPrevUserEntry(MergeSeekToLast, "delete", itDb.key, 0))
    /\ itAt' = Final(Live)

IterNext ==
    LET back == itDb.dir = "reverse"
        m == IF ~back THEN itMerge
             ELSE IF MergeValid(itMerge) THEN MergeNext(itMerge) ELSE MergeSeekToFirst
        key == IF back THEN itDb.key ELSE MergeEntry(itMerge).key
    IN /\ itDb.valid
       /\ Becomes(FindNextUserEntry(m, TRUE, key))
       /\ itAt' = First({x \in Live : x > itAt})

IterPrev ==
    LET key == MergeEntry(itMerge).key
        m == IF itDb.dir = "forward" THEN BeforeKey(MergePrev(itMerge), key) ELSE itMerge
    IN /\ itDb.valid
       /\ IF itDb.dir = "forward" /\ ~MergeValid(m)
          THEN Becomes(At(m, "forward", FALSE, 0, 0))
          ELSE Becomes(FindPrevUserEntry(m, "delete", IF itDb.dir = "forward" THEN key ELSE itDb.key, itDb.value))
       /\ itAt' = Final({x \in Live : x < itAt})

itNext == (\E k \in IterKeys : IterSeek(k)) \/ IterSeekToFirst \/ IterSeekToLast \/ IterNext \/ IterPrev

\* Every write may be in any of the sources.
itStart(keys, types, sources) ==
    /\ \E key \in keys, type \in types, src \in sources :
         itChild = [i \in IterSources |->
                      Ordered({[key |-> key[s], seq |-> s, type |-> type[s]] : s \in {s \in IterSeqs : src[s] = i}})]
    /\ itSeq \in {Max(IterSeqs) - 1, Max(IterSeqs)}
    /\ itMerge = MergeAt([i \in IterSources |-> 0], "forward")
    /\ itDb = [dir |-> "forward", valid |-> FALSE, key |-> 0, value |-> 0]
    /\ itAt = 0

itInit == itStart([IterSeqs -> IterKeys], [IterSeqs -> {"value", "delete"}], [IterSeqs -> IterSources])

\* key() and value()
IterKey == IF itDb.dir = "forward" THEN MergeEntry(itMerge).key ELSE itDb.key
IterValue == IF itDb.dir = "forward" THEN MergeEntry(itMerge).seq ELSE itDb.value

\* Whatever mix of Seek, SeekToFirst, SeekToLast, Next and Prev a client makes,
\* the database iterator stands on the key that the same calls reach in the
\* ordered map of the snapshot, with the newest value at the snapshot, and is
\* invalid exactly when there is none: hidden, deleted and newer entries and
\* the changes of direction of the two iterators are never seen.
IteratorShowsSnapshot ==
    /\ itDb.valid = (itAt # 0)
    /\ itDb.valid => IterKey = itAt /\ IterValue = Newest(itAt).seq
=============================================================================
