----------------------------- MODULE RedisSync -----------------------------
(***************************************************************************)
(* The redisContext of hiredis (redis/hiredis/hiredis.c) and the sockets   *)
(* under it (redis/hiredis/net.c): connecting over a list of addresses,    *)
(* appending commands, the write and read loops of redisGetReply, errors   *)
(* and time-outs, reconnecting and freeing.  A command and a reply are two *)
(* bytes each, <<number, 1>> and <<number, 2>>, so that a write or a read  *)
(* may end within one; how replies are parsed is RedisReader.  The server  *)
(* and the kernel are external.                                            *)
(***************************************************************************)
EXTENDS Integers, Sequences, SequencesExt, FiniteSets, FiniteSetsExt, Functions

CONSTANTS SyncAddresses,     \* addresses getaddrinfo finds
          ConnectRetries,    \* REDIS_CONNECT_RETRIES
          MaxSyncCommands,   \* commands appended
          MaxConnects        \* connections asked for

VARIABLES rc,     \* the redisContext
          rcPc,   \* where the call in progress is, "user" when there is none
          rcTry,  \* the address being tried, and reuses
          rcNet,  \* the open descriptors, with what is under way in each
          rcPast  \* history: since the last connect, what was appended and
                  \* answered; descriptors leaked or handed to the user;
                  \* commands and connects so far

rcVars == <<rc, rcPc, rcTry, rcNet, rcPast>>

(* redisContextInit: calloc leaves fd 0. *)
redisContextInit == [fd |-> 0, err |-> FALSE, obuf |-> << >>, reader |-> << >>,
                     kind |-> "tcp", block |-> TRUE, bind |-> FALSE, reuse |-> FALSE,
                     connected |-> FALSE]

(* What the redisConnect functions ask for: only contexts that do not      *)
(* block bind to an address of their own, or use one again.                *)
ContextKinds ==
  {c \in {[redisContextInit EXCEPT !.kind = k, !.block = b, !.bind = s, !.reuse = r] :
             k \in {"tcp", "unix"}, b, s, r \in BOOLEAN} :
     /\ c.bind => ~c.block /\ c.kind = "tcp"
     /\ c.reuse => c.bind}

rcInit ==
  /\ rc \in ContextKinds
  /\ rcPc = "new"
  /\ rcTry = [addr |-> 1, reuses |-> 0]
  /\ rcNet = << >>
  /\ rcPast = [sent |-> << >>, got |-> << >>, lost |-> {}, commands |-> 0, connects |-> 0]

WithoutSocket(net, fd) == Restrict(net, DOMAIN net \ {fd})
Socket == [made |-> FALSE, up |-> << >>, down |-> << >>, open |-> TRUE]
NewFd == Min((3 .. 9) \ DOMAIN rcNet)
WithSocket(net, fd, s) == [x \in DOMAIN net \cup {fd} |-> IF x = fd THEN s ELSE net[x]]

Failed(c) == [c EXCEPT !.err = TRUE]
CloseFd(c) == [c EXCEPT !.fd = -1]

-----------------------------------------------------------------------------
(* _redisContextConnectTcp, and redisContextConnectUnix, which has neither *)
(* addresses to try nor retries.                                           *)

(* getaddrinfo, for IPv4 and then IPv6, fails or yields the addresses. *)
getaddrinfo ==
  /\ rcPc = "resolve"
  /\ \/ rc.kind = "tcp" /\ rc' = Failed(rc) /\ rcPc' = "user"
     \/ rc' = rc /\ rcPc' = "socket"
  /\ rcTry' = [addr |-> 1, reuses |-> 0]
  /\ UNCHANGED <<rcNet, rcPast>>

(* The context of a Unix socket is told its type only once the first       *)
(* socket is made; before, redisReconnect takes it for one of TCP.         *)
Untyped(c) == IF rcPast.connects = 1 THEN [c EXCEPT !.kind = "tcp"] ELSE c

Addresses == IF rc.kind = "tcp" THEN SyncAddresses ELSE 1

(* The end of the list of addresses. *)
NoAddressLeft ==
  /\ rcPc = "socket" /\ rcTry.addr > Addresses
  /\ rc' = Untyped(Failed(rc)) /\ rcPc' = "user"
  /\ UNCHANGED <<rcTry, rcNet, rcPast>>

(* socket(2), and what must succeed before connect(2).  A failure of       *)
(* redisSetBlocking closes the descriptor, one of bind(2) leaves it to the *)
(* context, and one of SO_REUSEADDR does not even set an error.            *)
CreateSocket ==
  /\ rcPc = "socket" /\ rcTry.addr <= Addresses
  /\ \/ /\ rcTry' = [rcTry EXCEPT !.addr = @ + 1]
        /\ UNCHANGED <<rc, rcPc, rcNet, rcPast>>
     \/ LET c == [rc EXCEPT !.fd = NewFd]
            net == WithSocket(rcNet, NewFd, Socket)
        IN /\ \/ rc' = c /\ rcNet' = net /\ rcPc' = "connect"
              \/ rc' = Untyped(CloseFd(Failed(c))) /\ rcNet' = rcNet /\ rcPc' = "user"
              \/ rc.bind /\ rc' = Failed(c) /\ rcNet' = net /\ rcPc' = "user"
              \/ rc.reuse /\ rc' = c /\ rcNet' = net /\ rcPc' = "user"
           /\ UNCHANGED <<rcTry, rcPast>>

(* connect(2) succeeds, or is in progress and poll(2) says it succeeded,   *)
(* or is in progress in a context that does not block.                     *)
ConnectSucceeds ==
  /\ rcPc = "connect"
  /\ rcNet' = [rcNet EXCEPT ![rc.fd].made = TRUE]
  /\ rc' = [rc EXCEPT !.connected = TRUE]
  /\ rcPc' = "user"
  /\ UNCHANGED <<rcTry, rcPast>>

(* EHOSTUNREACH: on to the next address. *)
HostUnreachable ==
  /\ rcPc = "connect" /\ rc.kind = "tcp"
  /\ rcNet' = WithoutSocket(rcNet, rc.fd)
  /\ rc' = CloseFd(rc)
  /\ rcTry' = [rcTry EXCEPT !.addr = @ + 1]
  /\ rcPc' = "socket"
  /\ UNCHANGED rcPast

(* EADDRNOTAVAIL: another socket for the same address; the descriptor of   *)
(* the last one is forgotten.  After the last retry no error is set.       *)
AddressNotAvailable ==
  /\ rcPc = "connect" /\ rc.reuse
  /\ rcTry' = [rcTry EXCEPT !.reuses = @ + 1]
  /\ IF rcTry.reuses + 1 >= ConnectRetries
     THEN rcPc' = "user" /\ UNCHANGED rcPast
     ELSE rcPc' = "socket" /\ rcPast' = [rcPast EXCEPT !.lost = @ \cup {rc.fd}]
  /\ UNCHANGED <<rc, rcNet>>

(* redisContextWaitReady, redisSetBlocking or redisSetTcpNoDelay fails and *)
(* closes the descriptor; redisCheckSocketError leaves it to the context.  *)
ConnectFailed ==
  /\ rcPc = "connect"
  /\ \/ rcNet' = WithoutSocket(rcNet, rc.fd) /\ rc' = CloseFd(Failed(rc))
     \/ rcNet' = rcNet /\ rc' = Failed(rc)
  /\ rcPc' = "user"
  /\ UNCHANGED <<rcTry, rcPast>>

-----------------------------------------------------------------------------
(* The calls of the user. *)
redisConnect ==
  /\ rcPc = "new"
  /\ rcPc' = "resolve"
  /\ rcPast' = [rcPast EXCEPT !.connects = @ + 1]
  /\ UNCHANGED <<rc, rcTry, rcNet>>

MutantReconnected == [rc EXCEPT !.err = FALSE, !.obuf = << >>]

(* redisReconnect closes the descriptor without forgetting its number and  *)
(* starts with an empty buffer and a new reader.                           *)
Reconnected == [rc EXCEPT !.err = FALSE, !.obuf = << >>, !.reader = << >>]

redisReconnect ==
  /\ rcPc = "user" /\ rcPast.connects < MaxConnects
  /\ rc' = Reconnected
  /\ rcNet' = IF rc.fd > 0 THEN WithoutSocket(rcNet, rc.fd) ELSE rcNet
  /\ rcPc' = "resolve"
  /\ rcPast' = [rcPast EXCEPT !.connects = @ + 1, !.sent = << >>, !.got = << >>]
  /\ UNCHANGED rcTry

redisFree ==
  /\ rcPc = "user"
  /\ rcNet' = IF rc.fd > 0 THEN WithoutSocket(rcNet, rc.fd) ELSE rcNet
  /\ rcPc' = "freed"
  /\ UNCHANGED <<rc, rcTry, rcPast>>

(* redisFreeKeepFd leaves the descriptor to the user. *)
redisFreeKeepFd ==
  /\ rcPc = "user"
  /\ rcPast' = [rcPast EXCEPT !.lost = @ \cup {rc.fd}]
  /\ rc' = CloseFd(rc)
  /\ rcPc' = "freed"
  /\ UNCHANGED <<rcTry, rcNet>>

(* redisEnableKeepAlive and redisSetTimeout: a refused option is an error  *)
(* of the context, whose connection stays.                                 *)
OptionRefused ==
  /\ rcPc = "user" /\ rc.connected
  /\ rc' = Failed(rc)
  /\ UNCHANGED <<rcPc, rcTry, rcNet, rcPast>>

(* __redisAppendCommand takes a command whatever the state. *)
redisAppendCommand ==
  /\ rcPc = "user" /\ rcPast.commands < MaxSyncCommands
  /\ LET n == rcPast.commands + 1
     IN /\ rc' = [rc EXCEPT !.obuf = @ \o <<<<n, 1>>, <<n, 2>>>>]
        /\ rcPast' = [rcPast EXCEPT !.commands = n, !.sent = Append(@, n)]
  /\ UNCHANGED <<rcPc, rcTry, rcNet>>

(* redisGetReplyFromReader hands out a reply that is complete, also when   *)
(* the context is in error.                                                *)
Complete(c) == Len(c.reader) >= 2
TakeReply ==
  /\ rc' = [rc EXCEPT !.reader = SubSeq(@, 3, Len(@))]
  /\ rcPast' = [rcPast EXCEPT !.got = Append(@, rc.reader[1][1])]

(* redisGetReply: a reply that waits, or the write loop of a context that  *)
(* blocks.  Without blocking the user calls the two buffer functions.      *)
redisGetReply ==
  /\ rcPc = "user" /\ rcPast.sent # << >>
  /\ IF Complete(rc) THEN TakeReply /\ UNCHANGED rcPc
     ELSE rc.block /\ rcPc' = "write" /\ UNCHANGED <<rc, rcPast>>
  /\ UNCHANGED <<rcTry, rcNet>>

Usable == rc.fd \in DOMAIN rcNet /\ rcNet[rc.fd].made
MayCall(pc) == rcPc = pc \/ (rcPc = "user" /\ ~rc.block /\ rc.connected)
ReturnError == rcPc' = "user" /\ rc' = Failed(rc) /\ UNCHANGED rcNet

(* redisBufferWrite: any part of the buffer is written, or the write fails *)
(* (a time-out in a context that blocks counts as a failure).              *)
redisBufferWrite ==
  /\ MayCall("write")
  /\ \/ rc.err /\ rcPc' = "user" /\ UNCHANGED <<rc, rcNet>>
     \/ /\ ~rc.err /\ rc.obuf = << >>
        /\ rcPc' = IF rcPc = "write" THEN "read" ELSE rcPc
        /\ UNCHANGED <<rc, rcNet>>
     \/ ~rc.err /\ rc.obuf # << >> /\ ReturnError
     \/ /\ ~rc.err /\ Usable /\ rcNet[rc.fd].open
        /\ \E k \in 1 .. Len(rc.obuf) :
             /\ rc' = [rc EXCEPT !.obuf = SubSeq(@, k + 1, Len(@))]
             /\ rcNet' = [rcNet EXCEPT ![rc.fd].up = @ \o SubSeq(rc.obuf, 1, k)]
        /\ rcPc' = IF rcPc = "write" /\ rc'.obuf = << >> THEN "read" ELSE rcPc
  /\ UNCHANGED <<rcTry, rcPast>>

(* redisBufferRead: some of the bytes that arrived go to the reader, or    *)
(* the read fails, times out or finds the end of the stream.               *)
redisBufferRead ==
  /\ MayCall("read")
  /\ \/ rc.err /\ rcPc' = "user" /\ UNCHANGED <<rc, rcNet>>
     \/ ~rc.err /\ ReturnError
     \/ /\ ~rc.err /\ Usable
        /\ \E k \in 1 .. Len(rcNet[rc.fd].down) :
             /\ rc' = [rc EXCEPT !.reader = @ \o SubSeq(rcNet[rc.fd].down, 1, k)]
             /\ rcNet' = [rcNet EXCEPT ![rc.fd].down = SubSeq(@, k + 1, Len(@))]
        /\ rcPc' = IF rcPc = "read" THEN "reply" ELSE rcPc
  /\ UNCHANGED <<rcTry, rcPast>>

(* The read loop of redisGetReply goes on until there is a reply. *)
ReadLoop ==
  /\ rcPc = "reply"
  /\ IF Complete(rc) THEN TakeReply /\ rcPc' = "user"
     ELSE rcPc' = "read" /\ UNCHANGED <<rc, rcPast>>
  /\ UNCHANGED <<rcTry, rcNet>>

-----------------------------------------------------------------------------
(* The server answers a command when all of it has arrived. *)
SyncServerAnswers ==
  /\ \E fd \in DOMAIN rcNet :
       /\ rcNet[fd].open /\ Len(rcNet[fd].up) >= 2
       /\ LET n == rcNet[fd].up[1][1]
          IN rcNet' = [rcNet EXCEPT ![fd].up = SubSeq(@, 3, Len(@)),
                                    ![fd].down = @ \o <<<<n, 1>>, <<n, 2>>>>]
  /\ UNCHANGED <<rc, rcPc, rcTry, rcPast>>

SyncServerCloses ==
  /\ \E fd \in DOMAIN rcNet : rcNet[fd].open /\ rcNet[fd].made /\ rcNet' = [rcNet EXCEPT ![fd].open = FALSE]
  /\ UNCHANGED <<rc, rcPc, rcTry, rcPast>>

rcNext ==
  \/ getaddrinfo \/ NoAddressLeft \/ CreateSocket
  \/ ConnectSucceeds \/ HostUnreachable \/ AddressNotAvailable \/ ConnectFailed
  \/ redisConnect \/ redisReconnect \/ redisFree \/ redisFreeKeepFd \/ OptionRefused
  \/ redisAppendCommand \/ redisGetReply \/ redisBufferWrite \/ redisBufferRead \/ ReadLoop
  \/ SyncServerAnswers \/ SyncServerCloses

-----------------------------------------------------------------------------
(* The n-th reply redisGetReply returns on a connection answers the n-th   *)
(* command appended since it was asked for, whatever was written or read   *)
(* in part, and a reply that comes after a time-out, or belonged to an     *)
(* earlier connection, answers nothing.  Every descriptor that is open is  *)
(* the context's own, but for those the retries of connect forgot or the   *)
(* user took over, so that freeing the context closes the rest.            *)
RepliesAnswerInOrder ==
  /\ IsPrefix(rcPast.got, rcPast.sent)
  /\ DOMAIN rcNet \subseteq {rc.fd} \cup rcPast.lost
  /\ rcPc = "freed" => DOMAIN rcNet \subseteq rcPast.lost
=============================================================================
