----------------------------- MODULE FilterBuild -----------------------------
(***************************************************************************)
(* Building the filters of a table: the filter block builder               *)
(* (table/filter_block.cc) hands the keys of each stretch of FilterBase    *)
(* bytes to one thread per filter (util/multi_bloom.cc); the two sides     *)
(* meet through filled_[id] and a counter, spinning on both.  KeyMayMatch  *)
(* is what a reader asks of the first filters of the finished table.       *)
(*                                                                         *)
(* A filter is its number of bits, its number of probes and the set of     *)
(* bits that are on.  Hashes are HashWidth bits wide, rotated by HashTurn. *)
(***************************************************************************)
EXTENDS Integers, Sequences, FiniteSets, FiniteSetsExt

CONSTANTS
    BloomBits,   \* bits_per_key_per_filter: <<bits of filter 1, ...>>
    BloomKeys, BloomHashOf(_, _), HashWidth, HashTurn,
    FilterBase,  \* kFilterBase
    RegionFilters, \* filters per region of the finished table
    BlockSizes, MaxBlocks, MaxBlockKeys \* sizes and numbers of the data blocks

VARIABLES
    fbPc,      \* the builder: "idle", "start" (StartBlock's loop), "fill", "wait", "done"
    fbOffset, fbBlocks, fbCur, \* the table so far: <<offset, keys>> per block, the open block
    fbKeys,    \* keys_: keys no filter has been generated for
    fbWant,    \* <<filters to generate, what fbPc is then>>
    fbFill,    \* the next dst CreateFilter will fill
    fbResults, \* results_: per filter, the sequence of filters generated
    fbFilled, fbWorker, \* per thread: filled_[id]; 0, or the next step of its report
    fbCompleted         \* curr_completed_filter_num_

fbVars == <<fbPc, fbOffset, fbBlocks, fbCur, fbKeys, fbWant, fbFill, fbResults,
            fbFilled, fbWorker, fbCompleted>>

FilterIds == DOMAIN BloomBits

fbInit ==
    /\ fbPc = "idle" /\ fbOffset = 0 /\ fbBlocks = <<>> /\ fbCur = {} /\ fbKeys = {}
    /\ fbWant = <<0, "idle">> /\ fbFill = 1 /\ fbCompleted = 0
    /\ fbResults = [id \in FilterIds |-> <<>>]
    /\ fbFilled = [id \in FilterIds |-> FALSE]
    /\ fbWorker = [id \in FilterIds |-> 0]

-----------------------------------------------------------------------------
(* ChildBloomFilterPolicy. *)
NumProbes(id) == Max({1, Min({30, (BloomBits[id] * 69) \div 100})})
NumBits(id, n) == 8 * ((Max({64, n * BloomBits[id]}) + 7) \div 8)
Rotated(h) == (h \div 2^HashTurn) + (h % 2^HashTurn) * 2^(HashWidth - HashTurn)
Probes(id, key, k, bits) ==
    LET h == BloomHashOf(id, key)
    IN  {((h + j * Rotated(h)) % 2^HashWidth) % bits : j \in 0 .. k - 1}

ChildCreateFilter(id, keys) ==
    LET bits == NumBits(id, Cardinality(keys))
    IN  [bits |-> bits, k |-> NumProbes(id),
         on |-> UNION {Probes(id, key, NumProbes(id), bits) : key \in keys}]
EmptyFilter == [bits |-> 0, k |-> 0, on |-> {}]

ChildKeyMayMatch(id, key, f) ==
    /\ f.bits > 0
    /\ f.k > 30 \/ Probes(id, key, f.k, f.bits) \subseteq f.on

\* FilterBlockReader::KeyMayMatch with the first n filters of the region loaded.
FilterKeyMayMatch(n, offset, key) ==
    LET index == offset \div FilterBase
        region == index \div RegionFilters
        data(id) == SubSeq(fbResults[id], region * RegionFilters + 1,
                           Min({(region + 1) * RegionFilters, Len(fbResults[id])}))
    IN  index < Len(fbResults[1]) =>
          \A id \in 1 .. n :
              ChildKeyMayMatch(id, key, data(id)[index - region * RegionFilters + 1])

-----------------------------------------------------------------------------
(* FilterBlockBuilder. *)
AddKey(key) ==
    /\ fbPc = "idle" /\ Len(fbBlocks) < MaxBlocks /\ Cardinality(fbCur) < MaxBlockKeys
    /\ fbCur' = fbCur \cup {key} /\ fbKeys' = fbKeys \cup {key}
    /\ UNCHANGED <<fbPc, fbOffset, fbBlocks, fbWant, fbFill, fbResults, fbFilled, fbWorker, fbCompleted>>

\* The table builder writes a data block of this size, then StartBlock(offset).
StartBlock(size) ==
    /\ fbPc = "idle" /\ fbCur # {}
    /\ fbBlocks' = Append(fbBlocks, <<fbOffset, fbCur>>) /\ fbCur' = {}
    /\ fbOffset' = fbOffset + size
    /\ fbWant' = <<(fbOffset + size) \div FilterBase, "idle">>
    /\ fbPc' = "start"
    /\ UNCHANGED <<fbKeys, fbFill, fbResults, fbFilled, fbWorker, fbCompleted>>

FinishFilters ==
    /\ fbPc = "idle" /\ fbCur = {} /\ fbBlocks # <<>>
    /\ fbWant' = <<Len(fbResults[1]) + (IF fbKeys = {} THEN 0 ELSE 1), "done">>
    /\ fbPc' = "start"
    /\ UNCHANGED <<fbOffset, fbBlocks, fbCur, fbKeys, fbFill, fbResults, fbFilled, fbWorker, fbCompleted>>

\* One turn of StartBlock's loop: GenerateFilter up to where it waits.
GenerateFilter ==
    /\ fbPc = "start"
    /\ IF Len(fbResults[1]) >= fbWant[1]
       THEN fbPc' = fbWant[2] /\ UNCHANGED <<fbFill, fbResults>>
       ELSE IF fbKeys = {}
       THEN /\ fbResults' = [id \in FilterIds |-> Append(fbResults[id], EmptyFilter)]
            /\ UNCHANGED <<fbPc, fbFill>>
       ELSE fbPc' = "fill" /\ fbFill' = 1 /\ UNCHANGED fbResults
    /\ UNCHANGED <<fbOffset, fbBlocks, fbCur, fbKeys, fbWant, fbFilled, fbWorker, fbCompleted>>

-----------------------------------------------------------------------------
(* MultiFilter::CreateFilter and the threads of CreateFilter_T. *)
FillDst ==
    /\ fbPc = "fill"
    /\ fbFilled' = [fbFilled EXCEPT ![fbFill] = TRUE]
    /\ fbFill' = fbFill + 1
    /\ fbPc' = IF fbFill = Len(BloomBits) THEN "wait" ELSE "fill"
    /\ UNCHANGED <<fbOffset, fbBlocks, fbCur, fbKeys, fbWant, fbResults, fbWorker, fbCompleted>>

FiltersCompleted ==
    /\ fbPc = "wait" /\ fbCompleted = Len(BloomBits)
    /\ fbCompleted' = 0 /\ fbKeys' = {} /\ fbPc' = "start"
    /\ UNCHANGED <<fbOffset, fbBlocks, fbCur, fbWant, fbFill, fbResults, fbFilled, fbWorker>>

WorkerCreates(id) ==
    /\ fbWorker[id] = 0 /\ fbFilled[id]
    /\ fbResults' = [fbResults EXCEPT ![id] = Append(@, ChildCreateFilter(id, fbKeys))]
    /\ fbWorker' = [fbWorker EXCEPT ![id] = 1]
    /\ UNCHANGED <<fbPc, fbOffset, fbBlocks, fbCur, fbKeys, fbWant, fbFill, fbFilled, fbCompleted>>

\* Mutant: the counter is raised before filled_ is lowered.
MutantReportOrder == <<"count", "clear">>

ReportOrder == <<"clear", "count">>

WorkerReports(id) ==
    LET step == fbWorker[id]
    IN  /\ step \in DOMAIN ReportOrder
        /\ IF ReportOrder[step] = "clear"
           THEN fbFilled' = [fbFilled EXCEPT ![id] = FALSE] /\ UNCHANGED fbCompleted
           ELSE fbCompleted' = fbCompleted + 1 /\ UNCHANGED fbFilled
        /\ fbWorker' = [fbWorker EXCEPT ![id] = (step + 1) % 3]
        /\ UNCHANGED <<fbPc, fbOffset, fbBlocks, fbCur, fbKeys, fbWant, fbFill, fbResults>>

fbNext ==
    \/ \E key \in BloomKeys : AddKey(key)
    \/ \E size \in BlockSizes : StartBlock(size)
    \/ FinishFilters \/ GenerateFilter \/ FillDst \/ FiltersCompleted
    \/ \E id \in FilterIds : WorkerCreates(id) \/ WorkerReports(id)

-----------------------------------------------------------------------------
\* CreateFilter never waits for a thread that owes it nothing, no filter is
\* skipped, doubled or built from the keys of another round, and so the
\* finished table never denies a key it holds: for every number of
\* loaded filters, KeyMayMatch is true of each key of each block.
NoFalseNegatives ==
    /\ fbPc = "wait" =>
         fbCompleted + Cardinality({id \in FilterIds : fbFilled[id] \/ fbWorker[id] # 0})
             = Len(BloomBits)
    /\ fbPc \in {"idle", "done"} =>
         \A id \in FilterIds : Len(fbResults[id]) = Len(fbResults[1])
    /\ fbPc = "done" =>
         \A i \in DOMAIN fbBlocks, n \in FilterIds : \A key \in fbBlocks[i][2] :
             FilterKeyMayMatch(n, fbBlocks[i][1], key)
=============================================================================
