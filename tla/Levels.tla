------------------------------- MODULE Levels -------------------------------
(***************************************************************************)
(* Where the entries live: memtable, immutable memtable and the files of   *)
(* the levels; flushes, compactions and the snapshots they must respect    *)
(* (db/version_set.cc, db/db_impl.cc, db/snapshot.h).                      *)
(*                                                                         *)
(* An entry is <<key, sequence, deleted>>, and its sequence number stands  *)
(* for its value.  A compaction is two steps, since DoCompactionWork       *)
(* merges with the mutex released: it uses the version and the oldest      *)
(* snapshot it saw at its start, while writes, flushes and snapshots go on.*)
(* Which file a size or seek compaction starts from is left open.          *)
(***************************************************************************)
EXTENDS Integers, Sequences, FiniteSets, FiniteSetsExt, SequencesExt

CONSTANTS
    Keys,               \* user keys, an interval of integers
    NumLevels,          \* config::kNumLevels
    GrandParentLimit,   \* MaxGrandParentOverlapBytes, in entries
    ExpandLimit,        \* ExpandedCompactionByteSizeLimit, in entries
    ManualLimit,        \* MaxFileSizeForLevel, in entries
    Modes               \* what a run allows: config::kMaxMemCompactLevel, what is
                        \* written, bounds on writes and snapshots, and whether
                        \* outputs are split

VARIABLES
    mode,    \* the mode in force
    seq,     \* last_sequence_
    mem, imm,\* sets of entries; imm is <<>> when imm_ is NULL, <<set>> otherwise
    levels,  \* level -> set of files, with their number and range
    next,    \* next_file_number_
    snaps,   \* snapshots_: the sequence numbers, oldest first
    comp,    \* the compaction in progress, or NoCompaction
    bgError, \* bg_error_ is set: no more background work
    hist     \* history: the entry each sequence number was given to

lvVars == <<mode, seq, mem, imm, levels, next, snaps, comp, bgError, hist>>

Level == 0 .. NumLevels - 1
NotFound == 0
NoCompaction == [level |-> -1]

(***************************************************************************)
(* Internal keys: by user key, then newest first.                          *)
(***************************************************************************)
KeyBefore(a, b) == a[1] < b[1] \/ (a[1] = b[1] /\ a[2] > b[2])
Smallest(ents) == CHOOSE a \in ents : \A b \in ents : b = a \/ KeyBefore(a, b)
Largest(ents) == CHOOSE a \in ents : \A b \in ents : b = a \/ KeyBefore(b, a)
FileMetaData(num, ents) ==
    [num |-> num, ents |-> ents, smallest |-> Smallest(ents), largest |-> Largest(ents)]
Lo(f) == f.smallest[1]
Hi(f) == f.largest[1]
Size(files) == FoldSet(LAMBDA f, n : Cardinality(f.ents) + n, 0, files)
Entries(files) == UNION {f.ents : f \in files}
Overlaps(f, lo, hi) == Lo(f) <= hi /\ lo <= Hi(f)

(***************************************************************************)
(* Version: searching and choosing files.                                  *)
(***************************************************************************)
\* Mutant: the range does not grow at level 0.
MutantOverlappingInputs(files, level, lo, hi) == {f \in files : Overlaps(f, lo, hi)}

\* GetOverlappingInputs: at level 0 the range grows with every file it meets.
RECURSIVE GetOverlappingInputs(_, _, _, _)
GetOverlappingInputs(files, level, lo, hi) ==
    LET hit == {f \in files : Overlaps(f, lo, hi)}
        lo2 == Min({Lo(f) : f \in hit} \cup {lo})
        hi2 == Max({Hi(f) : f \in hit} \cup {hi})
    IN  IF level > 0 \/ (lo2 = lo /\ hi2 = hi) THEN hit
        ELSE GetOverlappingInputs(files, level, lo2, hi2)

\* The newest entry for k that a reader at sequence s may see among ents.
NewestIn(ents, k, s) ==
    LET seen == {e \in ents : e[1] = k /\ e[2] <= s}
    IN  IF seen = {} THEN <<>> ELSE <<CHOOSE e \in seen : \A o \in seen : o[2] <= e[2]>>

\* Version::Get at one level: the newest level-0 file that has an entry, and
\* below it the one file FindFile points at.
FindFile(files, k, s) ==
    LET after == {f \in files : ~KeyBefore(f.largest, <<k, s>>)}
    IN  {f \in after : \A g \in after : f = g \/ KeyBefore(f.largest, g.largest)}

InLevel(level, k, s) ==
    IF level = 0
    THEN LET hit == {f \in levels[0] : NewestIn(f.ents, k, s) # <<>>}
             last == {f \in hit : \A g \in hit : g.num <= f.num}
         IN  NewestIn(Entries(last), k, s)
    ELSE NewestIn(Entries({f \in FindFile(levels[level], k, s) : Lo(f) <= k}), k, s)

\* DBImpl::Get: the memtables first, then level by level; the first hit counts.
RECURSIVE GetFrom(_, _, _)
GetFrom(i, k, s) ==
    LET hit == CASE i = -2 -> NewestIn(mem, k, s)
                 [] i = -1 -> IF imm = <<>> THEN <<>> ELSE NewestIn(imm[1], k, s)
                 [] i \in Level -> InLevel(i, k, s)
                 [] i = NumLevels -> <<<<k, NotFound, TRUE>>>>
    IN  IF hit = <<>> THEN GetFrom(i + 1, k, s)
        ELSE IF hit[1][3] THEN NotFound ELSE hit[1][2]
Get(k, s) == GetFrom(-2, k, s)


PickLevelForMemTableOutput(lo, hi) ==
    LET free(l) == \A f \in levels[l] : ~Overlaps(f, lo, hi)
        may(l) == \* may a file at level l - 1 be pushed to l
            /\ free(l)
            /\ l + 1 < NumLevels =>
                 Size(GetOverlappingInputs(levels[l + 1], l + 1, lo, hi))
                     <= GrandParentLimit
        reach == {l \in 0 .. mode.memLevel : free(0) /\ \A j \in 1 .. l : may(j)}
    IN  IF reach = {} THEN 0 ELSE Max(reach)

(***************************************************************************)
(* Choosing a compaction.                                                  *)
(***************************************************************************)
RangeLo(files) == Min({Lo(f) : f \in files})
RangeHi(files) == Max({Hi(f) : f \in files})

\* SetupOtherInputs: the files of the next level that overlap, then more of
\* this level if that pulls in nothing new below.
SetupOtherInputs(level, in0) ==
    LET over(l, fs) == GetOverlappingInputs(levels[l], l, RangeLo(fs), RangeHi(fs))
        in1 == over(level + 1, in0)
        expanded0 == over(level, in0 \cup in1)
        expanded1 == over(level + 1, expanded0)
        expand == /\ in1 # {}
                  /\ Cardinality(expanded0) > Cardinality(in0)
                  /\ Size(in1) + Size(expanded0) < ExpandLimit
                  /\ Cardinality(expanded1) = Cardinality(in1)
    IN  <<IF expand THEN expanded0 ELSE in0, IF expand THEN expanded1 ELSE in1>>

\* PickCompaction starts from one file (size or seek compaction).
PickedInputs(level) ==
    {GetOverlappingInputs(IF level = 0 THEN levels[0] ELSE {f}, level, Lo(f), Hi(f))
        : f \in levels[level]}

\* CompactRange: the files of a range or, below level 0, the first of them
\* that make up a file's size.
CompactRange(level, lo, hi) ==
    LET files == GetOverlappingInputs(levels[level], level, lo, hi)
        upTo(f) == {g \in files : g = f \/ KeyBefore(g.largest, f.smallest)}
    IN  {f \in files : level = 0 \/ Size(upTo(f) \ {f}) < ManualLimit}

(***************************************************************************)
(* DoCompactionWork: which entries survive the merge, and the files it     *)
(* cuts the survivors into.                                                *)
(***************************************************************************)
\* Mutant: open snapshots are forgotten.
MutantSmallestSnapshot == seq

SmallestSnapshot == IF snaps = <<>> THEN seq ELSE Head(snaps)


IsBaseLevelForKey(c, k) ==
    \A l \in c.level + 2 .. NumLevels - 1 :
        \A f \in c.version[l] : ~Overlaps(f, k, k)

DroppedEntries(c, merged, e) ==
    \/ \E o \in merged : /\ o[1] = e[1] /\ o[2] > e[2]
                         /\ o[2] <= c.snapshot
    \/ e[3] /\ e[2] <= c.snapshot /\ IsBaseLevelForKey(c, e[1])

MakeInputIterator(c) == Entries(c.in0 \cup c.in1)

Survivors(c) ==
    LET merged == MakeInputIterator(c)
    IN  {e \in merged : ~DroppedEntries(c, merged, e)}

\* The outputs when the builder is closed after each entry in cuts.
Outputs(ents, cuts) ==
    LET closes(e) == Cardinality({x \in cuts : KeyBefore(x, e)})
    IN  {FileMetaData(next + closes(e), {o \in ents : closes(o) = closes(e)}) :
            e \in ents}

AddInputDeletions(c) ==
    {<<c.level, f.num>> : f \in c.in0} \cup {<<c.level + 1, f.num>> : f \in c.in1}

\* The version an edit makes of the current one.
SaveTo(deleted, level, added) ==
    [l \in Level |-> {f \in levels[l] : <<l, f.num>> \notin deleted}
                         \cup (IF l = level THEN added ELSE {})]

(***************************************************************************)
(* Actions.                                                                *)
(***************************************************************************)
lvInit ==
    /\ mode \in Modes
    /\ seq = 0 /\ mem = {} /\ imm = <<>> /\ next = 1 /\ snaps = <<>>
    /\ levels = [l \in Level |-> {}]
    /\ comp = NoCompaction /\ bgError = FALSE /\ hist = <<>>

Write(k, del) ==
    /\ seq < mode.writes
    /\ seq' = seq + 1
    /\ mem' = mem \cup {<<k, seq + 1, del>>}
    /\ hist' = Append(hist, <<k, seq + 1, del>>)
    /\ UNCHANGED <<mode, imm, levels, next, snaps, comp, bgError>>

\* MakeRoomForWrite switches to a new memtable.
SwitchMemTable ==
    /\ mem # {} /\ imm = <<>> /\ ~bgError
    /\ imm' = <<mem>> /\ mem' = {}
    /\ UNCHANGED <<mode, seq, levels, next, snaps, comp, bgError, hist>>

\* CompactMemTable, on its own or in the middle of a compaction.
CompactMemTable ==
    /\ imm # <<>> /\ ~bgError
    /\ LET f == FileMetaData(next, imm[1])
           l == PickLevelForMemTableOutput(Lo(f), Hi(f))
       IN  levels' = SaveTo({}, l, {f})
    /\ imm' = <<>> /\ next' = next + 1
    /\ UNCHANGED <<mode, seq, mem, snaps, comp, bgError, hist>>

\* BackgroundCompaction with imm_ NULL, automatic or manual, up to where the
\* mutex is released.
StartCompaction(level) ==
    /\ comp = NoCompaction /\ imm = <<>> /\ ~bgError
    /\ level + 1 < NumLevels
    /\ \E in0 \in PickedInputs(level)
                  \cup {CompactRange(level, lo, hi) : lo, hi \in Keys} :
        /\ in0 # {}
        /\ LET ins == SetupOtherInputs(level, in0)
           IN  comp' = [level |-> level, in0 |-> ins[1], in1 |-> ins[2],
                        version |-> levels, snapshot |-> SmallestSnapshot]
    /\ UNCHANGED <<mode, seq, mem, imm, levels, next, snaps, bgError, hist>>

\* InstallCompactionResults.  In a mode without splits every output fits in
\* one file; otherwise MaxOutputFileSize or ShouldStopBefore may close it
\* after any entry.
InstallCompactionResults ==
    /\ comp # NoCompaction
    /\ LET s == Survivors(comp)
       IN  \E cuts \in IF mode.split THEN SUBSET {e \in s : e # Largest(s)} ELSE {{}} :
             levels' = SaveTo(AddInputDeletions(comp), comp.level + 1, Outputs(s, cuts))
    /\ next' = next + Cardinality(Survivors(comp))
    /\ comp' = NoCompaction
    /\ UNCHANGED <<mode, seq, mem, imm, snaps, bgError, hist>>

\* An error leaves the version alone and stops background work.
CompactionFails ==
    /\ comp # NoCompaction
    /\ comp' = NoCompaction /\ bgError' = TRUE
    /\ UNCHANGED <<mode, seq, mem, imm, levels, next, snaps, hist>>

GetSnapshot ==
    /\ Len(snaps) < mode.snaps
    /\ snaps' = Append(snaps, seq)
    /\ UNCHANGED <<mode, seq, mem, imm, levels, next, comp, bgError, hist>>

ReleaseSnapshot(i) ==
    /\ snaps' = RemoveAt(snaps, i)
    /\ UNCHANGED <<mode, seq, mem, imm, levels, next, comp, bgError, hist>>

lvNext ==
    \/ \E e \in mode.entries : Write(e[1], e[2])
    \/ SwitchMemTable
    \/ CompactMemTable
    \/ \E level \in Level : StartCompaction(level)
    \/ InstallCompactionResults
    \/ CompactionFails
    \/ GetSnapshot
    \/ \E i \in DOMAIN snaps : ReleaseSnapshot(i)

lvSpec == lvInit /\ [][lvNext]_lvVars

-----------------------------------------------------------------------------

\* "entries never hop across levels": whatever a smaller level holds for a
\* key is newer than what a larger one holds.
SmallerLevelIsNewer ==
    \A i, j \in Level : i < j =>
        \A e \in Entries(levels[i]), o \in Entries(levels[j]) :
            e[1] = o[1] => e[2] > o[2]

=============================================================================
