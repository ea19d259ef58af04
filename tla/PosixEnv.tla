------------------------------ MODULE PosixEnv ------------------------------
(***************************************************************************)
(* The concurrent parts of the POSIX environment (util/env_posix.cc): the  *)
(* pool of aligned buffers and the descriptor limit behind random-access   *)
(* reads, and the queue of Schedule().  A step is what runs under one      *)
(* mutex, or one system call; the byte at an offset of a file is that      *)
(* offset.                                                                 *)
(***************************************************************************)
EXTENDS Integers, Sequences, FiniteSets, SequencesExt

CONSTANTS
    EnvReaders,  \* threads that read table files
    EnvBuffers,  \* buffer_nums
    EnvFds,      \* MaxOpenFiles()
    EnvPage,     \* alignment of a direct read
    EnvRequests, \* <<offset, lens>> of the reads, lens a sequence of lengths
    MaxEnvReads, \* bound on the reads of a thread
    MaxEnvItems  \* bound on the calls of Schedule()

VARIABLES
    rdInit,    \* AlignedBuffer::initialized
    rdPool,    \* AlignedBuffer::abfs
    rdBuf,     \* per buffer: capacity_ and the file offset its bytes start at
    rdAllowed, \* fd_limit_.allowed_
    rdFile,    \* per thread: its open RandomAccessFile
    rdPc, rdReq, rdHas, rdGot, \* per thread: its Read or Reads
    rdLost,    \* buffers of reads that failed to open their file
    rdCount
rdVars == <<rdInit, rdPool, rdBuf, rdAllowed, rdFile, rdPc, rdReq, rdHas, rdGot, rdLost, rdCount>>

Closed == [open |-> FALSE, temporary |-> FALSE, direct |-> FALSE]
NoRequest == <<0, <<>>>>

rdStart ==
    /\ rdInit = FALSE /\ rdPool = <<>>
    /\ rdBuf = [b \in 1 .. EnvBuffers |-> [capacity |-> 0, base |-> 0]]
    /\ rdAllowed = EnvFds
    /\ rdFile = [t \in EnvReaders |-> Closed]
    /\ rdPc = [t \in EnvReaders |-> "idle"]
    /\ rdReq = [t \in EnvReaders |-> NoRequest]
    /\ rdHas = [t \in EnvReaders |-> 0]
    /\ rdGot = [t \in EnvReaders |-> <<>>]
    /\ rdLost = 0 /\ rdCount = 0

TruncateToPageBoundary(page, s) == s - (s % page)
Roundup(x, y) == ((x + y - 1) \div y) * y

\* Limiter::Acquire and Release
Acquired == rdAllowed > 0

\* NewRandomAccessFile: a file over the limit is opened again on every access.
NewRandomAccessFile(t, direct) ==
    /\ rdPc[t] = "idle" /\ ~rdFile[t].open /\ rdCount < MaxEnvReads
    /\ rdFile' = [rdFile EXCEPT ![t] = [open |-> TRUE, temporary |-> ~Acquired, direct |-> direct]]
    /\ rdAllowed' = IF Acquired THEN rdAllowed - 1 ELSE rdAllowed
    /\ UNCHANGED <<rdInit, rdPool, rdBuf, rdPc, rdReq, rdHas, rdGot, rdLost, rdCount>>

\* ~PosixRandomAccessFile
CloseRandomAccessFile(t) ==
    /\ rdPc[t] = "idle" /\ rdFile[t].open
    /\ rdFile' = [rdFile EXCEPT ![t] = Closed]
    /\ rdAllowed' = IF rdFile[t].temporary THEN rdAllowed ELSE rdAllowed + 1
    /\ UNCHANGED <<rdInit, rdPool, rdBuf, rdPc, rdReq, rdHas, rdGot, rdLost, rdCount>>

\* Read takes a buffer before it opens the file, Reads opens the file first
\* and takes a buffer for direct I/O only.
StartEnvRead(t, req) ==
    /\ rdPc[t] = "idle" /\ rdFile[t].open /\ rdCount < MaxEnvReads
    /\ rdReq' = [rdReq EXCEPT ![t] = req]
    /\ rdGot' = [rdGot EXCEPT ![t] = <<>>]
    /\ rdPc' = [rdPc EXCEPT ![t] = IF Len(req[2]) = 1 THEN "init" ELSE "open"]
    /\ rdCount' = rdCount + 1
    /\ UNCHANGED <<rdInit, rdPool, rdBuf, rdAllowed, rdFile, rdHas, rdLost>>

\* GetAlignedBuffer: the unlocked test of initialized, and the locked one
CheckInitialized(t) ==
    /\ rdPc[t] = "init"
    /\ rdPc' = [rdPc EXCEPT ![t] = IF rdInit THEN "take" ELSE "fill"]
    /\ UNCHANGED <<rdInit, rdPool, rdBuf, rdAllowed, rdFile, rdReq, rdHas, rdGot, rdLost, rdCount>>

MutantFillPool(t) ==
    /\ rdPc[t] = "fill"
    /\ rdPool' = [b \in 1 .. EnvBuffers |-> b]
    /\ rdInit' = TRUE
    /\ rdPc' = [rdPc EXCEPT ![t] = "take"]
    /\ UNCHANGED <<rdBuf, rdAllowed, rdFile, rdReq, rdHas, rdGot, rdLost, rdCount>>

FillPool(t) ==
    /\ rdPc[t] = "fill"
    /\ rdPool' = IF rdInit THEN rdPool ELSE [b \in 1 .. EnvBuffers |-> b]
    /\ rdInit' = TRUE
    /\ rdPc' = [rdPc EXCEPT ![t] = "take"]
    /\ UNCHANGED <<rdBuf, rdAllowed, rdFile, rdReq, rdHas, rdGot, rdLost, rdCount>>

\* The loop that yields until the pool has a buffer
TakeBuffer(t) ==
    /\ rdPc[t] = "take" /\ rdPool # <<>>
    /\ rdHas' = [rdHas EXCEPT ![t] = Last(rdPool)]
    /\ rdPool' = Front(rdPool)
    /\ rdPc' = [rdPc EXCEPT ![t] = IF Len(rdReq[t][2]) = 1 THEN "open" ELSE "pread"]
    /\ UNCHANGED <<rdInit, rdBuf, rdAllowed, rdFile, rdReq, rdGot, rdLost, rdCount>>

\* The open() of a temporary descriptor.  When it fails Read returns without
\* giving its buffer back.
OpenTemporary(t, ok) ==
    /\ rdPc[t] = "open"
    /\ ok \/ rdFile[t].temporary
    /\ rdPc' = [rdPc EXCEPT ![t] =
                  IF ~ok THEN "idle"
                  ELSE IF Len(rdReq[t][2]) > 1 /\ rdFile[t].direct THEN "init" ELSE "pread"]
    /\ rdLost' = IF ~ok /\ rdHas[t] # 0 THEN rdLost + 1 ELSE rdLost
    /\ rdHas' = IF ok THEN rdHas ELSE [rdHas EXCEPT ![t] = 0]
    /\ UNCHANGED <<rdInit, rdPool, rdBuf, rdAllowed, rdFile, rdReq, rdGot, rdCount>>

Total(lens) == FoldSeq(+, 0, lens)

\* pread: into the aligned buffer for direct I/O, into the callers' buffers
\* otherwise
Pread(t) ==
    LET off == rdReq[t][1]
        n == Total(rdReq[t][2])
        aligned == TruncateToPageBoundary(EnvPage, off)
        size == Roundup(off + n, EnvPage) - aligned
        b == rdHas[t]
    IN /\ rdPc[t] = "pread"
       /\ IF rdFile[t].direct
          THEN /\ rdBuf' = [rdBuf EXCEPT ![b].capacity = IF size > @ THEN Roundup(size, EnvPage) ELSE @,
                                         ![b].base = aligned]
               /\ UNCHANGED rdGot
          ELSE /\ rdGot' = [rdGot EXCEPT ![t] = [i \in 1 .. n |-> off + i - 1]]
               /\ UNCHANGED rdBuf
       /\ rdPc' = [rdPc EXCEPT ![t] = IF rdFile[t].direct THEN "copy" ELSE "unget"]
       /\ UNCHANGED <<rdInit, rdPool, rdAllowed, rdFile, rdReq, rdHas, rdLost, rdCount>>

\* abuf->Read for every requested piece, at offset_advance
CopyOut(t) ==
    LET off == rdReq[t][1]
        lens == rdReq[t][2]
        b == rdHas[t]
        advance == off - TruncateToPageBoundary(EnvPage, off)
        piece(i) == [j \in 1 .. lens[i] |->
                       rdBuf[b].base + advance + Total(SubSeq(lens, 1, i - 1)) + j - 1]
    IN /\ rdPc[t] = "copy"
       /\ rdGot' = [rdGot EXCEPT ![t] = FlattenSeq([i \in DOMAIN lens |-> piece(i)])]
       /\ rdPc' = [rdPc EXCEPT ![t] = "unget"]
       /\ UNCHANGED <<rdInit, rdPool, rdBuf, rdAllowed, rdFile, rdReq, rdHas, rdLost, rdCount>>

\* UngetAlignedBuffer
UngetBuffer(t) ==
    /\ rdPc[t] = "unget"
    /\ rdPool' = IF rdHas[t] = 0 THEN rdPool ELSE Append(rdPool, rdHas[t])
    /\ rdHas' = [rdHas EXCEPT ![t] = 0]
    /\ rdPc' = [rdPc EXCEPT ![t] = "idle"]
    /\ UNCHANGED <<rdInit, rdBuf, rdAllowed, rdFile, rdReq, rdGot, rdLost, rdCount>>

rdNext ==
    \E t \in EnvReaders :
        \/ \E d \in BOOLEAN : NewRandomAccessFile(t, d)
        \/ CloseRandomAccessFile(t)
        \/ \E r \in EnvRequests : StartEnvRead(t, r)
        \/ CheckInitialized(t) \/ FillPool(t) \/ TakeBuffer(t)
        \/ \E ok \in BOOLEAN : OpenTemporary(t, ok)
        \/ Pread(t) \/ CopyOut(t) \/ UngetBuffer(t)

\* Concurrent reads share the ten aligned buffers and the descriptor limit:
\* a buffer is in the pool or with one reader, every descriptor kept open is
\* counted by fd_limit_, and the bytes a finished Read or Reads hands out are
\* those at the requested offsets, although a direct read starts at the page
\* boundary before them and another reader may have used the buffer before.
\* The one loss is the buffer of a Read whose open() failed.
ReadsShareBuffers ==
    /\ rdInit => Len(rdPool) + Cardinality({t \in EnvReaders : rdHas[t] # 0}) + rdLost = EnvBuffers
    /\ \A t, u \in EnvReaders : t # u /\ rdHas[t] # 0 => rdHas[t] # rdHas[u]
    /\ rdAllowed + Cardinality({t \in EnvReaders : rdFile[t].open /\ ~rdFile[t].temporary}) = EnvFds
    /\ \A t \in EnvReaders : rdPc[t] = "unget" =>
         rdGot[t] = [i \in 1 .. Total(rdReq[t][2]) |-> rdReq[t][1] + i - 1]

-----------------------------------------------------------------------------
(* Schedule() and BGThread() *)
VARIABLES bgQueue, bgPc, bgAdded, bgRan
bgVars == <<bgQueue, bgPc, bgAdded, bgRan>>

bgInit == bgQueue = <<>> /\ bgPc = "none" /\ bgAdded = 0 /\ bgRan = <<>>


\* The signal is sent before the item is queued, both under mu_.
Schedule ==
    /\ bgAdded < MaxEnvItems
    /\ bgAdded' = bgAdded + 1
    /\ bgQueue' = Append(bgQueue, bgAdded + 1)
    /\ bgPc' = IF bgPc = "none" \/ (bgQueue = <<>> /\ bgPc = "wait") THEN "ready" ELSE bgPc
    /\ UNCHANGED bgRan

BGThreadWaitsForItem ==
    /\ bgPc = "ready" /\ bgQueue = <<>>
    /\ bgPc' = "wait"
    /\ UNCHANGED <<bgQueue, bgAdded, bgRan>>

\* pthread_cond_wait may return without a signal
SpuriousWakeup ==
    /\ bgPc = "wait" /\ bgPc' = "ready"
    /\ UNCHANGED <<bgQueue, bgAdded, bgRan>>

BGThreadTakesItem ==
    /\ bgPc = "ready" /\ bgQueue # <<>>
    /\ bgRan' = Append(bgRan, Head(bgQueue))
    /\ bgQueue' = Tail(bgQueue)
    /\ bgPc' = "run"
    /\ UNCHANGED bgAdded

ItemReturns == bgPc = "run" /\ bgPc' = "ready" /\ UNCHANGED <<bgQueue, bgAdded, bgRan>>

bgNext == Schedule \/ BGThreadWaitsForItem \/ SpuriousWakeup \/ BGThreadTakesItem \/ ItemReturns

\* Work handed to Schedule() is run in the order of the calls and never left
\* behind: while the queue has an item the background thread is not asleep
\* on bgsignal_, although Schedule() signals only when the queue was empty.
ScheduledItemsRun ==
    /\ bgQueue # <<>> => bgPc \in {"ready", "run"}
    /\ bgRan \o bgQueue = [i \in 1 .. bgAdded |-> i]

=============================================================================
