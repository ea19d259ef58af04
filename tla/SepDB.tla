------------------------------- MODULE SepDB --------------------------------
(***************************************************************************)
(* Key-value separation (include/leveldb/vlog.h) under the benchmark's     *)
(* binding (db/leveldbVlog_db.cc): the value goes to the value log, a      *)
(* stdio stream opened "a+", and the index maps the key to the offset and  *)
(* size of the value in it.  One client calls at a time.  The stream       *)
(* buffers what is written; a crash of the process loses the buffer, while *)
(* the index has already handed its own log record to the system.          *)
(***************************************************************************)
EXTENDS Integers, Sequences

CONSTANTS
    SepKeys,      \* keys
    SepSizes,     \* value sizes
    SepHeader,    \* bytes of "keysize$valuesize$key" before the value
    MaxSepPuts,   \* bound on the calls of Put
    MaxSepCrashes \* bound on the crashes

\* A record starts with two sizes and two '$', so it is never empty.
ASSUME SepAssumption == SepHeader \in Nat \ {0} /\ SepSizes \subseteq Nat

VARIABLES
    sepLog,     \* the value log: <<put, i>>, the i-th byte of that put's record
    sepFlushed, \* how much of it the stream has written out
    sepIndex,   \* key -> [offset, size], or NoEntry
    sepWant,    \* history: the last put of a key, [put, size], or NoPut
    sepLost,    \* history: keys whose last record a crash cut off
    sepPuts, sepCrashes, sepUp
sepVars == <<sepLog, sepFlushed, sepIndex, sepWant, sepLost, sepPuts, sepCrashes, sepUp>>

NoEntry == [offset |-> -1, size |-> 0]
NoPut == [put |-> 0, size |-> 0]

sepInit ==
    /\ sepLog = <<>> /\ sepFlushed = 0
    /\ sepIndex = [k \in SepKeys |-> NoEntry]
    /\ sepWant = [k \in SepKeys |-> NoPut]
    /\ sepLost = {} /\ sepPuts = 0 /\ sepCrashes = 0 /\ sepUp = TRUE

\* ftell after the fwrite is the end of the stream, buffered bytes included.
MutantValueOffset(end, size) == end - size - 1
ValueOffset(end, size) == end - size

\* SepDB::Put, reached from Insert and Update with exactly one field.  Some of
\* the buffered bytes, oldest first, may be written out by the fwrite.
SepPut(k, size) ==
    LET record == [i \in 1 .. SepHeader + size |-> <<sepPuts + 1, i>>]
        log == sepLog \o record
    IN /\ sepUp /\ sepPuts < MaxSepPuts
       /\ sepLog' = log
       /\ sepFlushed' \in {sepFlushed, Len(sepLog) + 1, Len(log)}
       /\ sepIndex' = [sepIndex EXCEPT ![k] = [offset |-> ValueOffset(Len(log), size), size |-> size]]
       /\ sepWant' = [sepWant EXCEPT ![k] = [put |-> sepPuts + 1, size |-> size]]
       /\ sepLost' = sepLost \ {k}
       /\ sepPuts' = sepPuts + 1
       /\ UNCHANGED <<sepCrashes, sepUp>>

\* SepDB::Get: its fseek writes the buffer out.
SepGet(k) ==
    /\ sepUp /\ sepIndex[k] # NoEntry
    /\ sepFlushed' = Len(sepLog)
    /\ UNCHANGED <<sepLog, sepIndex, sepWant, sepLost, sepPuts, sepCrashes, sepUp>>

SepDelete(k) ==
    /\ sepUp /\ sepIndex[k] # NoEntry
    /\ sepIndex' = [sepIndex EXCEPT ![k] = NoEntry]
    /\ sepWant' = [sepWant EXCEPT ![k] = NoPut]
    /\ sepLost' = sepLost \ {k}
    /\ UNCHANGED <<sepLog, sepFlushed, sepPuts, sepCrashes, sepUp>>

\* The binding's Delete is an Insert without values, which ends the process by
\* exit(0), as does any failed call; exit() writes the stream's buffer out.
BindingExits ==
    /\ sepUp
    /\ sepFlushed' = Len(sepLog) /\ sepUp' = FALSE
    /\ UNCHANGED <<sepLog, sepIndex, sepWant, sepLost, sepPuts, sepCrashes>>

\* External: the process dies.
ProcessCrashes ==
    /\ sepUp /\ sepCrashes < MaxSepCrashes
    /\ sepLog' = SubSeq(sepLog, 1, sepFlushed)
    /\ sepLost' = sepLost \cup {k \in SepKeys : sepIndex[k] # NoEntry /\ sepIndex[k].offset + sepIndex[k].size > sepFlushed}
    /\ sepCrashes' = sepCrashes + 1 /\ sepUp' = FALSE
    /\ UNCHANGED <<sepFlushed, sepIndex, sepWant, sepPuts>>

\* SepDB::Open: the index recovers its writes, the stream continues at the end.
SepOpen ==
    /\ ~sepUp /\ sepUp' = TRUE
    /\ UNCHANGED <<sepLog, sepFlushed, sepIndex, sepWant, sepLost, sepPuts, sepCrashes>>

sepNext ==
    \/ \E k \in SepKeys : (\E s \in SepSizes : SepPut(k, s)) \/ SepGet(k) \/ SepDelete(k)
    \/ BindingExits \/ ProcessCrashes \/ SepOpen

sepSpec == sepInit /\ [][sepNext]_sepVars

\* What the fread of Get puts in the caller's value
ValueRead(k) ==
    SubSeq(sepLog, sepIndex[k].offset + 1, sepIndex[k].offset + sepIndex[k].size)

\* Every key whose last record reached the value log before the last crash
\* reads back as the value of its last Put, and a deleted key is not found:
\* the offset that Put computes from ftell stays right over reopening, and
\* what is appended after a crash never shifts a value that was there.
IndexFindsValue ==
    \A k \in SepKeys :
        /\ (sepIndex[k] = NoEntry) = (sepWant[k] = NoPut)
        /\ sepIndex[k] # NoEntry /\ k \notin sepLost =>
             ValueRead(k) = [i \in 1 .. sepWant[k].size |-> <<sepWant[k].put, SepHeader + i>>]
=============================================================================
