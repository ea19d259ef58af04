------------------------------- MODULE MemEnv -------------------------------
(***************************************************************************)
(* The in-memory environment (helpers/memenv/memenv.cc): reference-counted *)
(* files made of fixed-size blocks, a map from names to files, and the     *)
(* handles that keep a file alive after its name is gone.  Every operation *)
(* runs under mutex_ or refs_mutex_, so one is one step.                   *)
(***************************************************************************)
EXTENDS Integers, Sequences, FiniteSets, SequencesExt, FiniteSetsExt

CONSTANTS
    MemNames,    \* file names
    MemHandles,  \* handles that may be open at once
    MemBlock,    \* kBlockSize
    MemAppends,  \* lengths of the data appended
    MaxMemFiles, \* bound on the FileStates created
    MaxMemBytes  \* bound on the bytes appended in all

VARIABLES
    meMap,    \* file_map_: 0 when the name is absent
    meFile,   \* the FileStates: refs_, blocks_, size_
    meHandle, \* per handle: its kind, file_ and pos_
    meData,   \* history: the bytes appended to each file
    meBytes
meVars == <<meMap, meFile, meHandle, meData, meBytes>>

NoHandle == [kind |-> "closed", file |-> 0, pos |-> 0]

meInit ==
    /\ meMap = [n \in MemNames |-> 0]
    /\ meFile = <<>> /\ meData = <<>>
    /\ meHandle = [h \in MemHandles |-> NoHandle]
    /\ meBytes = 0

\* FileState::Read(offset, n): block by block from the block of offset
BlocksRead(f, offset, n) ==
    LET avail == Min({n, f.size - offset})
        cell(i) == f.blocks[(offset + i) \div MemBlock + 1][(offset + i) % MemBlock]
    IN [i \in 1 .. avail |-> cell(i - 1)]


\* FileState::Append: fill the last block, then push new ones
Filled(blocks, size, data) ==
    [b \in 1 .. ((size + Len(data) + MemBlock - 1) \div MemBlock) |->
       [o \in 0 .. MemBlock - 1 |->
          LET at == (b - 1) * MemBlock + o - size + 1
          IN IF at \in DOMAIN data THEN data[at]
             ELSE IF b \in DOMAIN blocks THEN blocks[b][o] ELSE 0]]

\* FileRef and FileUnref on a function of the FileStates
FileRef(files, f) == [files EXCEPT ![f].refs = @ + 1]
FileUnref(files, f) ==
    [files EXCEPT ![f] = [refs |-> @.refs - 1,
                          blocks |-> IF @.refs = 1 THEN <<>> ELSE @.blocks,
                          size |-> IF @.refs = 1 THEN 0 ELSE @.size]]

\* DeleteFileInternal on a map and the FileStates
Dropped(files, n) == IF meMap[n] = 0 THEN files ELSE FileUnref(files, meMap[n])

OpenHandle(h, kind, f) == meHandle' = [meHandle EXCEPT ![h] = [kind |-> kind, file |-> f, pos |-> 0]]
FreeHandle(h) == meHandle[h].kind = "closed"

NewSequentialFile(h, n) ==
    /\ FreeHandle(h) /\ meMap[n] # 0
    /\ OpenHandle(h, "read", meMap[n])
    /\ meFile' = FileRef(meFile, meMap[n])
    /\ UNCHANGED <<meMap, meData, meBytes>>

NewWritableFile(h, n) ==
    LET f == Len(meFile) + 1
    IN /\ FreeHandle(h) /\ f <= MaxMemFiles
       /\ meFile' = Append(Dropped(meFile, n), [refs |-> 2, blocks |-> <<>>, size |-> 0])
       /\ meMap' = [meMap EXCEPT ![n] = f]
       /\ meData' = Append(meData, <<>>)
       /\ OpenHandle(h, "write", f)
       /\ UNCHANGED meBytes

\* The name exists: the database appends to logs it has just recovered.
NewAppendableFile(h, n) ==
    /\ FreeHandle(h) /\ meMap[n] # 0
    /\ \A g \in MemHandles : ~(meHandle[g].kind = "write" /\ meHandle[g].file = meMap[n])
    /\ OpenHandle(h, "write", meMap[n])
    /\ meFile' = FileRef(meFile, meMap[n])
    /\ UNCHANGED <<meMap, meData, meBytes>>

CloseHandle(h) ==
    /\ ~FreeHandle(h)
    /\ meFile' = FileUnref(meFile, meHandle[h].file)
    /\ meHandle' = [meHandle EXCEPT ![h] = NoHandle]
    /\ UNCHANGED <<meMap, meData, meBytes>>

AppendData(h, len) ==
    LET f == meHandle[h].file
        data == [i \in 1 .. len |-> meBytes + i]
    IN /\ meHandle[h].kind = "write" /\ meBytes + len <= MaxMemBytes
       /\ meFile' = [meFile EXCEPT ![f].blocks = Filled(@, meFile[f].size, data), ![f].size = @ + len]
       /\ meData' = [meData EXCEPT ![f] = @ \o data]
       /\ meBytes' = meBytes + len
       /\ UNCHANGED <<meMap, meHandle>>

\* SequentialFileImpl::Read advances by what it got, Skip by at most the rest.
ReadOrSkip(h, n) ==
    LET f == meFile[meHandle[h].file]
    IN /\ meHandle[h].kind = "read" /\ meHandle[h].pos <= f.size
       /\ meHandle' = [meHandle EXCEPT ![h].pos = @ + Len(BlocksRead(f, @, n))]
       /\ UNCHANGED <<meMap, meFile, meData, meBytes>>

DeleteFile(n) ==
    /\ meMap[n] # 0
    /\ meFile' = Dropped(meFile, n)
    /\ meMap' = [meMap EXCEPT ![n] = 0]
    /\ UNCHANGED <<meHandle, meData, meBytes>>

RenameFile(src, target) ==
    /\ src # target /\ meMap[src] # 0
    /\ meFile' = Dropped(meFile, target)
    /\ meMap' = [meMap EXCEPT ![target] = meMap[src], ![src] = 0]
    /\ UNCHANGED <<meHandle, meData, meBytes>>

meNext ==
    \/ \E h \in MemHandles :
         \/ \E n \in MemNames : NewSequentialFile(h, n) \/ NewWritableFile(h, n) \/ NewAppendableFile(h, n)
         \/ CloseHandle(h)
         \/ \E l \in MemAppends : AppendData(h, l) \/ ReadOrSkip(h, l)
    \/ \E n \in MemNames : DeleteFile(n)
    \/ \E src, target \in MemNames : RenameFile(src, target)

=============================================================================
