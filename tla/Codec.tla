-------------------------------- MODULE Codec -------------------------------
(***************************************************************************)
(* What is written as bytes and read back: varints and length-prefixed     *)
(* slices (util/coding.cc), version edits (db/version_edit.cc), write      *)
(* batches (db/write_batch.cc), the fragments of a log record              *)
(* (db/log_writer.cc) and file names (db/filename.cc).  A byte is a number below 2 * VarintBase, where     *)
(* VarintBase stands for 128; a varint has at most VarintMax bytes.        *)
(***************************************************************************)
EXTENDS Integers, Sequences, FiniteSets, SequencesExt

CONSTANTS
    VarintBase, VarintMax,
    CodecLevels,   \* kNumLevels
    CodecNumbers,  \* numbers put in edits and batches
    CodecSlices,   \* keys, values and names, sequences of bytes
    MaxCodecOps,   \* bound on the calls that build an edit or a batch
    LogBlock, LogHeader, \* kBlockSize and kHeaderSize
    LogLengths,    \* lengths of log records
    NumberMax,     \* the largest file number, 2^64 - 1 in the code
    NameWidth      \* the digits a file name has at least, 6 in the code

VARIABLES
    cdEdit,    \* a VersionEdit
    cdBatch,   \* two WriteBatches: count and the bytes after the header
    cdOps,     \* history: the operations in each batch
    cdLog,     \* the physical records of a log: [at, type, len]
    cdOffset,  \* the length of that log; block_offset_ is its remainder
    cdLens,    \* history: the lengths of the records added
    cdDigits,  \* the digits in the name of a file found in the directory
    cdCalls
cdVars == <<cdEdit, cdBatch, cdOps, cdLog, cdOffset, cdLens, cdDigits, cdCalls>>

\* coding.cc ------------------------------------------------------------------
RECURSIVE MutantPutVarint(_)
MutantPutVarint(v) ==
    IF v > VarintBase THEN <<(v % VarintBase) + VarintBase>> \o MutantPutVarint(v \div VarintBase) ELSE <<v>>
RECURSIVE PutVarint(_)
PutVarint(v) ==
    IF v >= VarintBase THEN <<(v % VarintBase) + VarintBase>> \o PutVarint(v \div VarintBase) ELSE <<v>>

PutLengthPrefixedSlice(s) == PutVarint(Len(s)) \o s

Fails == [ok |-> FALSE, value |-> 0, rest |-> <<>>]
RECURSIVE VarintFrom(_, _, _, _)
VarintFrom(input, unit, n, result) ==
    IF n = VarintMax \/ input = <<>> THEN Fails
    ELSE IF Head(input) >= VarintBase
         THEN VarintFrom(Tail(input), unit * VarintBase, n + 1, result + (Head(input) - VarintBase) * unit)
         ELSE [ok |-> TRUE, value |-> result + Head(input) * unit, rest |-> Tail(input)]
GetVarint(input) == VarintFrom(input, 1, 0, 0)

GetLengthPrefixedSlice(input) ==
    LET n == GetVarint(input)
    IN IF n.ok /\ Len(n.rest) >= n.value
       THEN [ok |-> TRUE, value |-> SubSeq(n.rest, 1, n.value), rest |-> SubSeq(n.rest, n.value + 1, Len(n.rest))]
       ELSE Fails

GetLevel(input) == LET n == GetVarint(input) IN IF n.ok /\ n.value < CodecLevels THEN n ELSE Fails

\* A list of getters applied one after the other
RECURSIVE GetAll(_, _, _)
GetAll(input, kinds, got) ==
    IF kinds = <<>> THEN [ok |-> TRUE, value |-> got, rest |-> input]
    ELSE LET r == CASE Head(kinds) = "level" -> GetLevel(input)
                    [] Head(kinds) = "number" -> GetVarint(input)
                    [] Head(kinds) = "slice" -> GetLengthPrefixedSlice(input)
         IN IF r.ok THEN GetAll(r.rest, Tail(kinds), Append(got, r.value)) ELSE Fails

\* version_edit.cc --------------------------------------------------------------
Scalars == <<2, 9, 3, 4>> \* log, previous log, next file, last sequence, in the order of EncodeTo
NoNumber == -1
EmptyEdit == [name |-> <<>>, number |-> [t \in Range(Scalars) |-> NoNumber],
              pointers |-> <<>>, deleted |-> {}, new |-> <<>>]

PutFile(f) ==
    PutVarint(7) \o PutVarint(f[1]) \o PutVarint(f[2]) \o PutVarint(f[3])
    \o PutLengthPrefixedSlice(f[4]) \o PutLengthPrefixedSlice(f[5])

PairBefore(a, b) == a[1] < b[1] \/ (a[1] = b[1] /\ a[2] < b[2])

EncodeEdit(e) ==
    (IF e.name = <<>> THEN <<>> ELSE PutVarint(1) \o PutLengthPrefixedSlice(e.name))
    \o FlattenSeq([i \in DOMAIN Scalars |->
         IF e.number[Scalars[i]] = NoNumber THEN <<>>
         ELSE PutVarint(Scalars[i]) \o PutVarint(e.number[Scalars[i]])])
    \o FlattenSeq([i \in DOMAIN e.pointers |->
         PutVarint(5) \o PutVarint(e.pointers[i][1]) \o PutLengthPrefixedSlice(e.pointers[i][2])])
    \o FlattenSeq([i \in 1 .. Cardinality(e.deleted) |->
         LET d == SetToSortSeq(e.deleted, PairBefore)[i]
         IN PutVarint(6) \o PutVarint(d[1]) \o PutVarint(d[2])])
    \o FlattenSeq([i \in DOMAIN e.new |-> PutFile(e.new[i])])

\* The fields that follow each tag
FieldsOf(tag) ==
    CASE tag = 1 -> <<"slice">>
      [] tag \in Range(Scalars) -> <<"number">>
      [] tag = 5 -> <<"level", "slice">>
      [] tag = 6 -> <<"level", "number">>
      [] tag = 7 -> <<"level", "number", "number", "slice", "slice">>

Stored(e, tag, v) ==
    CASE tag = 1 -> [e EXCEPT !.name = v[1]]
      [] tag \in Range(Scalars) -> [e EXCEPT !.number[tag] = v[1]]
      [] tag = 5 -> [e EXCEPT !.pointers = Append(@, v)]
      [] tag = 6 -> [e EXCEPT !.deleted = @ \cup {v}]
      [] tag = 7 -> [e EXCEPT !.new = Append(@, v)]

RECURSIVE DecodeFields(_, _)
DecodeFields(input, e) ==
    LET tag == GetVarint(input)
    IN IF ~tag.ok THEN [ok |-> input = <<>>, edit |-> e]
       ELSE IF tag.value \notin {1, 2, 3, 4, 5, 6, 7, 9} THEN [ok |-> FALSE, edit |-> e]
       ELSE LET r == GetAll(tag.rest, FieldsOf(tag.value), <<>>)
            IN IF r.ok THEN DecodeFields(r.rest, Stored(e, tag.value, r.value)) ELSE [ok |-> FALSE, edit |-> e]
DecodeEdit(src) == DecodeFields(src, EmptyEdit)

Edits(e) == cdCalls < MaxCodecOps /\ cdCalls' = cdCalls + 1 /\ cdEdit' = e
            /\ UNCHANGED <<cdBatch, cdOps, cdLog, cdOffset, cdLens, cdDigits>>
SetName(s) == s # <<>> /\ Edits([cdEdit EXCEPT !.name = s])
SetNumber(tag, n) == Edits([cdEdit EXCEPT !.number[tag] = n])
SetCompactPointer(level, key) == Edits([cdEdit EXCEPT !.pointers = Append(@, <<level, key>>)])
EditAddFile(level, n, key) == Edits([cdEdit EXCEPT !.new = Append(@, <<level, n, n, key, key>>)])
EditDeleteFile(level, n) == Edits([cdEdit EXCEPT !.deleted = @ \cup {<<level, n>>}])

\* write_batch.cc: the tag of a deletion is 0, of a value 1 -------------------------
RECURSIVE IterateFrom(_, _)
IterateFrom(input, ops) ==
    IF input = <<>> THEN [ok |-> TRUE, ops |-> ops]
    ELSE IF Head(input) \notin {0, 1} THEN [ok |-> FALSE, ops |-> ops]
    ELSE LET r == GetAll(Tail(input), IF Head(input) = 1 THEN <<"slice", "slice">> ELSE <<"slice">>, <<>>)
         IN IF r.ok THEN IterateFrom(r.rest, Append(ops, r.value)) ELSE [ok |-> FALSE, ops |-> ops]
Iterate(b) ==
    LET r == IterateFrom(b.bytes, <<>>)
    IN [r EXCEPT !.ok = @ /\ Len(r.ops) = b.count]

Batches(batch, ops) == cdCalls < MaxCodecOps /\ cdCalls' = cdCalls + 1 /\ cdBatch' = batch /\ cdOps' = ops
                       /\ UNCHANGED <<cdEdit, cdLog, cdOffset, cdLens, cdDigits>>
AddOp(i, tag, op) ==
    Batches([cdBatch EXCEPT ![i] = [count |-> @.count + 1,
                                    bytes |-> @.bytes \o <<tag>> \o FlattenSeq([j \in DOMAIN op |-> PutLengthPrefixedSlice(op[j])])]],
            [cdOps EXCEPT ![i] = Append(@, op)])
BatchPut(i, k, v) == AddOp(i, 1, <<k, v>>)
BatchDelete(i, k) == AddOp(i, 0, <<k>>)
BatchAppend ==
    Batches([cdBatch EXCEPT ![1] = [count |-> @.count + cdBatch[2].count, bytes |-> @.bytes \o cdBatch[2].bytes]],
            [cdOps EXCEPT ![1] = @ \o cdOps[2]])
BatchClear == Batches([cdBatch EXCEPT ![1] = [count |-> 0, bytes |-> <<>>]], [cdOps EXCEPT ![1] = <<>>])

\* log_writer.cc: one physical record after the other -----------------------------
RECURSIVE MutantFragments(_, _, _)
MutantFragments(at, left, begin) ==
    LET over == LogBlock - (at % LogBlock)
        start == IF over < LogHeader THEN at + over ELSE at
        avail == LogBlock - (start % LogBlock) - LogHeader
        n == IF left < avail THEN left ELSE avail
        end == left = n
        type == IF begin /\ end THEN "full" ELSE IF begin THEN "first" ELSE IF end THEN "last" ELSE "middle"
        here == <<[at |-> start, type |-> type, len |-> n]>>
    IN IF end THEN here ELSE here \o MutantFragments(start + LogHeader + n, left - n, TRUE)

RECURSIVE Fragments(_, _, _)
Fragments(at, left, begin) ==
    LET over == LogBlock - (at % LogBlock)
        start == IF over < LogHeader THEN at + over ELSE at
        avail == LogBlock - (start % LogBlock) - LogHeader
        n == IF left < avail THEN left ELSE avail
        end == left = n
        type == IF begin /\ end THEN "full" ELSE IF begin THEN "first" ELSE IF end THEN "last" ELSE "middle"
        here == <<[at |-> start, type |-> type, len |-> n]>>
    IN IF end THEN here ELSE here \o Fragments(start + LogHeader + n, left - n, FALSE)

AddRecord(len) ==
    LET f == Fragments(cdOffset, len, TRUE)
    IN /\ cdCalls < MaxCodecOps /\ cdCalls' = cdCalls + 1
       /\ cdLog' = cdLog \o f
       /\ cdOffset' = Last(f).at + LogHeader + Last(f).len
       /\ cdLens' = Append(cdLens, len)
       /\ UNCHANGED <<cdEdit, cdBatch, cdOps, cdDigits>>

\* filename.cc: a name is its fixed part and its digits --------------------------
MutantConsumeDecimalNumber(digits) ==
    FoldLeft(LAMBDA r, d : IF ~r.ok \/ r.value > NumberMax \div 10 THEN Fails
                           ELSE [r EXCEPT !.value = (@ * 10 + d) % (NumberMax + 1)],
             [Fails EXCEPT !.ok = TRUE], digits)
ConsumeDecimalNumber(digits) ==
    FoldLeft(LAMBDA r, d :
               IF \/ ~r.ok
                  \/ r.value > NumberMax \div 10
                  \/ r.value = NumberMax \div 10 /\ d > NumberMax % 10
               THEN Fails
               ELSE [r EXCEPT !.value = (@ * 10 + d) % (NumberMax + 1)],
             [Fails EXCEPT !.ok = TRUE], digits)

FixedNames == [CURRENT |-> "current", LOCK |-> "lock", LOG |-> "info", LOGold |-> "info"]
SuffixKinds == [log |-> "log", sst |-> "table", ldb |-> "table", dbtmp |-> "temp"]

\* A MANIFEST has digits after its name and nothing after them; a log, a table
\* and a temporary file have a suffix after them.
ParseFileName(fixed, digits) ==
    LET n == ConsumeDecimalNumber(digits)
    IN CASE fixed \in DOMAIN FixedNames /\ digits = <<>> -> <<FixedNames[fixed], 0>>
         [] fixed = "MANIFEST" /\ digits # <<>> /\ n.ok -> <<"descriptor", n.value>>
         [] fixed \in DOMAIN SuffixKinds /\ digits # <<>> /\ n.ok -> <<SuffixKinds[fixed], n.value>>
         [] OTHER -> <<"none">>

\* MakeFileName and DescriptorFileName
RECURSIVE DecimalOf(_)
DecimalOf(n) == IF n < 10 THEN <<n>> ELSE DecimalOf(n \div 10) \o <<n % 10>>
FileDigits(n) == LET d == DecimalOf(n) IN [i \in 1 .. NameWidth - Len(d) |-> 0] \o d

NameDigit(d) == /\ cdCalls < MaxCodecOps /\ cdCalls' = cdCalls + 1 /\ cdDigits' = Append(cdDigits, d)
                /\ UNCHANGED <<cdEdit, cdBatch, cdOps, cdLog, cdOffset, cdLens>>

cdInit ==
    /\ cdEdit = EmptyEdit /\ cdCalls = 0
    /\ cdBatch = [i \in {1, 2} |-> [count |-> 0, bytes |-> <<>>]] /\ cdOps = [i \in {1, 2} |-> <<>>]
    /\ cdLog = <<>> /\ cdLens = <<>> /\ cdOffset = 0 /\ cdDigits = <<>>

cdNext ==
    \/ \E s \in CodecSlices : SetName(s)
    \/ \E t \in Range(Scalars), n \in CodecNumbers : SetNumber(t, n)
    \/ \E l \in 0 .. CodecLevels - 1 :
         \/ \E k \in CodecSlices : SetCompactPointer(l, k)
         \/ \E n \in CodecNumbers : EditDeleteFile(l, n) \/ \E k \in CodecSlices : EditAddFile(l, n, k)
    \/ \E i \in {1, 2}, k \in CodecSlices : BatchDelete(i, k) \/ \E v \in CodecSlices : BatchPut(i, k, v)
    \/ BatchAppend \/ BatchClear
    \/ \E n \in LogLengths : AddRecord(n)
    \/ (cdCalls = 0 \/ cdDigits # <<>>) /\ \E d \in 0 .. 9 : NameDigit(d)

\* The lengths of the records that the fragments make up
RECURSIVE Reassembled(_, _)
Reassembled(log, sofar) ==
    IF log = <<>> THEN <<>>
    ELSE LET f == Head(log)
         IN IF f.type \in {"full", "last"} THEN <<sofar + f.len>> \o Reassembled(Tail(log), 0)
            ELSE Reassembled(Tail(log), sofar + f.len)

\* A manifest record decodes to the edit that was encoded, and a write batch
\* iterates over exactly the operations put in it and in the batches appended
\* to it; a batch cut anywhere is refused (by its count when it is cut between
\* two operations), and an edit cut anywhere is refused or has only fields of
\* the edit.
EditsAndBatchesDecode ==
    /\ \/ cdEdit = EmptyEdit
       \/ LET coded == EncodeEdit(cdEdit)
          IN  /\ DecodeEdit(coded) = [ok |-> TRUE, edit |-> cdEdit]
              /\ \A n \in 0 .. Len(coded) - 1 :
                   LET r == DecodeEdit(SubSeq(coded, 1, n))
                   IN r.ok => /\ r.edit.name \in {<<>>, cdEdit.name}
                              /\ \A t \in Range(Scalars) : r.edit.number[t] \in {NoNumber, cdEdit.number[t]}
                              /\ IsPrefix(r.edit.pointers, cdEdit.pointers) /\ IsPrefix(r.edit.new, cdEdit.new)
                              /\ r.edit.deleted \subseteq cdEdit.deleted
    /\ \A i \in {1, 2} :
         /\ Iterate(cdBatch[i]) = [ok |-> TRUE, ops |-> cdOps[i]]
         /\ \A n \in 0 .. Len(cdBatch[i].bytes) - 1 : ~Iterate([cdBatch[i] EXCEPT !.bytes = SubSeq(@, 1, n)]).ok

\* Log records come back with their lengths, in order, and no physical record
\* crosses the end of a block or begins where its header does not fit, however
\* the lengths fall on the block boundaries, empty records included.
LogFragmentsFit ==
    /\ Reassembled(cdLog, 0) = cdLens
    /\ \A i \in DOMAIN cdLog :
         /\ (cdLog[i].at % LogBlock) + LogHeader + cdLog[i].len <= LogBlock
         /\ cdLog[i].type \in {"middle", "last"} <=> (i > 1 /\ cdLog[i - 1].type \in {"first", "middle"})

\* The name of a file says which file it is: no two numbers share a name, a
\* name made from a number parses to that number however many digits it has,
\* and a name whose number does not fit is not taken for another file's.
NamesParseBack ==
    cdDigits # <<>> =>
      LET Value[i \in 0 .. Len(cdDigits)] == IF i = 0 THEN 0 ELSE Value[i - 1] * 10 + cdDigits[i]
          n == Value[Len(cdDigits)]
      IN \A fixed \in DOMAIN SuffixKinds \cup {"MANIFEST"} :
           IF n > NumberMax THEN ParseFileName(fixed, cdDigits) = <<"none">>
           ELSE /\ ParseFileName(fixed, cdDigits)[2] = n
                /\ ParseFileName(fixed, FileDigits(n)) = ParseFileName(fixed, cdDigits)

\* What is written to a log, a manifest or a directory reads back: edits,
\* batches, the fragments that carry them, and the names of files.
EncodingsReadBack == EditsAndBatchesDecode /\ LogFragmentsFit /\ NamesParseBack
=============================================================================
