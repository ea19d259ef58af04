----------------------------- MODULE RedisAsync -----------------------------
(***************************************************************************)
(* The asynchronous connection of hiredis (redis/hiredis/async.c) with the *)
(* dictionary of its subscriptions (redis/hiredis/dict.c): commands and    *)
(* their callbacks, the read and write handlers of the event loop, pub/sub *)
(* and monitor mode, disconnecting and freeing, also from a callback.      *)
(*                                                                         *)
(* A callback is the number of its command, 0 the null callback.  A reply  *)
(* is a record; the parts of a reply are read by RedisReader.  The server  *)
(* is external.  The user follows three rules that the code relies on      *)
(* without checking them: each name is unsubscribed once, no other command *)
(* is issued until the server has answered an unsubscription, and MONITOR  *)
(* is the only command of its connection.                                  *)
(***************************************************************************)
EXTENDS Integers, Sequences, SequencesExt, FiniteSets

CONSTANTS AsyncTargets,      \* what may be subscribed to: <<variant, integer name>>
          MaxAsyncCommands,  \* commands issued
          MaxMessages,       \* messages published
          MaxEmptyReads,     \* reads that complete no reply
          DictInitial        \* DICT_HT_INITIAL_SIZE

VARIABLES ac,      \* redisAsyncContext and its redisContext
          asyncPc, \* "idle" in the event loop, "process" in redisProcessCallbacks, "callback" in a callback
          link,    \* the connection and the server's end of it
          past     \* the commands accepted and the callbacks run

asVars == <<ac, asyncPc, link, past>>

-----------------------------------------------------------------------------
(* dict.c: a table of chains, doubled when it is full. *)

EmptyDict == [table |-> << >>, used |-> 0]
DictSlot(table, key) == (key % Len(table)) + 1

(* dictNext visits the chains in the order of the table. *)
DictEntries(d) == FlattenSeq(d.table)

dictExpand(d, size) ==
  [d EXCEPT !.table =
     FoldLeft(LAMBDA t, e : [t EXCEPT ![DictSlot(t, e.key)] = <<e>> \o @],
              [i \in 1 .. size |-> << >>], DictEntries(d))]

dictExpandIfNeeded(d) ==
  CASE d.table = << >> -> dictExpand(d, DictInitial)
    [] d.table # << >> /\ d.used = Len(d.table) -> dictExpand(d, 2 * Len(d.table))
    [] OTHER -> d

InChain(d, key) == IF d.table = << >> THEN {}
                   ELSE LET s == DictSlot(d.table, key)
                        IN {<<s, j>> : j \in {i \in DOMAIN d.table[s] : d.table[s][i].key = key}}

(* The callback found for a key, or -1. *)
dictFind(d, key) ==
  IF InChain(d, key) = {} THEN -1
  ELSE LET at == CHOOSE p \in InChain(d, key) : TRUE IN d.table[at[1]][at[2]].cb

dictReplace(d, key, cb) ==
  LET e == dictExpandIfNeeded(d)
      s == DictSlot(e.table, key)
  IN IF InChain(e, key) = {}
     THEN [table |-> [e.table EXCEPT ![s] = <<[key |-> key, cb |-> cb]>> \o @], used |-> e.used + 1]
     ELSE LET at == CHOOSE p \in InChain(e, key) : TRUE
          IN [e EXCEPT !.table[at[1]][at[2]].cb = cb]

dictDelete(d, key) ==
  IF InChain(d, key) = {} THEN d
  ELSE LET at == CHOOSE p \in InChain(d, key) : TRUE
       IN [table |-> [d.table EXCEPT ![at[1]] = RemoveAt(@, at[2])], used |-> d.used - 1]

-----------------------------------------------------------------------------
Variants == {"channels", "patterns"}

redisAsyncInitialize ==
  [flags |-> {}, err |-> FALSE, replies |-> << >>, invalid |-> << >>,
   sub |-> [v \in Variants |-> EmptyDict], obuf |-> << >>, inbuf |-> << >>,
   cb |-> 0, write |-> TRUE, read |-> FALSE, freed |-> FALSE, abort |-> FALSE]

asInit ==
  /\ ac = redisAsyncInitialize
  /\ asyncPc = "idle"
  /\ link = [up |-> << >>, down |-> << >>, open |-> TRUE,
             subs |-> {}, monitoring |-> FALSE, messages |-> 0]
  /\ past = [commands |-> << >>, runs |-> << >>, empty |-> 0]

Ran(runs, cb, reply) == IF cb = 0 THEN runs ELSE Append(runs, [cb |-> cb, reply |-> reply])

NullReply == [type |-> "null", of |-> 0, variant |-> "channels", name |-> 0]


(* __redisAsyncFree: every callback that waits is run with a null reply.   *)
(* Whatever these callbacks call is refused or only sets a flag, since the *)
(* context is disconnecting or being freed on every path that leads here.  *)
AsyncFree(c) ==
  LET waiting == c.replies \o c.invalid
      subs == FlattenSeq([i \in 1 .. 2 |->
                DictEntries(c.sub[<<"channels", "patterns">>[i]])])
      cbs == waiting \o [i \in DOMAIN subs |-> subs[i].cb]
  IN /\ ac' = [c EXCEPT !.freed = TRUE, !.replies = << >>, !.invalid = << >>,
                        !.sub = [v \in Variants |-> EmptyDict], !.read = FALSE, !.write = FALSE]
     /\ past' = [past EXCEPT !.runs = FoldLeft(LAMBDA r, cb : Ran(r, cb, NullReply), @, cbs)]
     /\ asyncPc' = "idle"

(* __redisAsyncDisconnect asserts that a clean disconnect leaves no        *)
(* callback waiting.                                                       *)
AsyncDisconnect(c) ==
  IF ~c.err /\ c.replies # << >> THEN /\ ac' = [c EXCEPT !.abort = TRUE]
                                      /\ UNCHANGED <<asyncPc, past>>
  ELSE AsyncFree(IF c.err THEN [c EXCEPT !.flags = @ \cup {"DISCONNECTING"}] ELSE c)

Alive == ~ac.freed /\ ~ac.abort

InUserCode == Alive /\ asyncPc \in {"idle", "callback"}

(* redisAsyncFree *)
redisAsyncFree ==
  /\ InUserCode
  /\ "FREEING" \notin ac.flags
  /\ LET c == [ac EXCEPT !.flags = @ \cup {"FREEING"}]
     IN IF asyncPc = "callback" THEN ac' = c /\ UNCHANGED <<asyncPc, past>> ELSE AsyncFree(c)
  /\ UNCHANGED link

(* redisAsyncDisconnect *)
redisAsyncDisconnect ==
  /\ InUserCode
  /\ "DISCONNECTING" \notin ac.flags
  /\ LET c == [ac EXCEPT !.flags = @ \cup {"DISCONNECTING"}]
     IN IF asyncPc # "callback" /\ c.replies = << >> THEN AsyncDisconnect(c)
        ELSE ac' = c /\ UNCHANGED <<asyncPc, past>>
  /\ UNCHANGED link

-----------------------------------------------------------------------------
Command(kind, variant, name) ==
  [id |-> Len(past.commands) + 1, kind |-> kind, variant |-> variant, name |-> name]

Subscribed(commands) ==
  {<<c.variant, c.name>> : c \in {d \in ToSet(commands) : d.kind = "subscribe"}}
Unsubscribed(commands) ==
  {<<c.variant, c.name>> : c \in {d \in ToSet(commands) : d.kind = "unsubscribe"}}

(* The rules the user keeps. *)
Disciplined(c) ==
  /\ \A d \in ToSet(past.commands) :
       /\ d.kind # "monitor"
       /\ d.kind = "unsubscribe" => dictFind(ac.sub[d.variant], d.name) = -1
  /\ c.kind \in {"subscribe", "unsubscribe"} => <<c.variant, c.name>> \notin Unsubscribed(past.commands)
  /\ c.kind = "unsubscribe" => <<c.variant, c.name>> \in Subscribed(past.commands)
  /\ c.kind = "monitor" => past.commands = << >>

(* __redisAsyncCommand: a context about to be closed accepts nothing; the  *)
(* callback goes to a list or a dictionary by the kind of the command and  *)
(* the mode, the command to the output buffer.                             *)
AsyncCommand(c) ==
  LET push(field) == [ac EXCEPT ![field] = Append(@, c.id)]
      a == CASE c.kind = "subscribe" ->
                  [ac EXCEPT !.flags = @ \cup {"SUBSCRIBED"},
                             !.sub[c.variant] = dictReplace(@, c.name, c.id)]
             [] c.kind = "unsubscribe" -> ac
             [] c.kind = "monitor" -> [push("replies") EXCEPT !.flags = @ \cup {"MONITORING"}]
             [] OTHER -> IF "SUBSCRIBED" \in ac.flags THEN push("invalid") ELSE push("replies")
  IN /\ ac.flags \cap {"DISCONNECTING", "FREEING"} = {}
     /\ c.kind = "unsubscribe" => "SUBSCRIBED" \in ac.flags
     /\ ac' = [a EXCEPT !.obuf = Append(@, c), !.write = TRUE]
     /\ past' = [past EXCEPT !.commands = Append(@, c)]

redisAsyncCommand ==
  /\ InUserCode
  /\ Len(past.commands) < MaxAsyncCommands
  /\ \E c \in {Command(kind, t[1], t[2]) : kind \in {"subscribe", "unsubscribe"}, t \in AsyncTargets}
              \cup {Command(kind, "channels", 0) : kind \in {"get", "monitor"}} :
       Disciplined(c) /\ AsyncCommand(c)
  /\ UNCHANGED <<asyncPc, link>>

-----------------------------------------------------------------------------
(* __redisAsyncHandleConnect: the first event finds the connection made,   *)
(* still in progress, or failed.                                           *)
Connecting == "CONNECTED" \notin ac.flags

ConnectFails ==
  /\ Alive /\ asyncPc = "idle" /\ (ac.read \/ ac.write) /\ Connecting
  /\ AsyncDisconnect([ac EXCEPT !.err = TRUE])
  /\ UNCHANGED link

Connected(c) == [c EXCEPT !.flags = @ \cup {"CONNECTED"}]

(* redisAsyncHandleRead: some of the bytes that arrived are read, here any *)
(* number of complete replies, also none; at the end of the stream the     *)
(* connection is torn down.                                                *)
redisAsyncHandleRead ==
  /\ Alive /\ asyncPc = "idle" /\ ac.read
  /\ \/ /\ link.down # << >>
        /\ \E k \in 0 .. Len(link.down) :
             /\ ac' = [Connected(ac) EXCEPT !.inbuf = @ \o SubSeq(link.down, 1, k), !.cb = 0]
             /\ link' = [link EXCEPT !.down = SubSeq(@, k + 1, Len(@))]
             /\ k = 0 => past.empty < MaxEmptyReads
             /\ past' = [past EXCEPT !.empty = IF k = 0 THEN @ + 1 ELSE @]
        /\ asyncPc' = "process"
     \/ /\ link.down = << >> /\ ~link.open
        /\ AsyncDisconnect([Connected(ac) EXCEPT !.err = TRUE])
        /\ UNCHANGED link

(* redisAsyncHandleWrite: a prefix of the output buffer is written. *)
redisAsyncHandleWrite ==
  /\ Alive /\ asyncPc = "idle" /\ ac.write
  /\ \/ /\ link.open
        /\ \E k \in 0 .. Len(ac.obuf) :
             /\ k > 0 \/ ac.obuf = << >>
             /\ link' = [link EXCEPT !.up = @ \o SubSeq(ac.obuf, 1, k)]
             /\ ac' = [Connected(ac) EXCEPT !.obuf = SubSeq(@, k + 1, Len(@)),
                                            !.write = k < Len(ac.obuf), !.read = TRUE]
        /\ UNCHANGED <<asyncPc, past>>
     \/ /\ ~link.open /\ ac.obuf # << >>
        /\ AsyncDisconnect([Connected(ac) EXCEPT !.err = TRUE])
        /\ UNCHANGED link

(* __redisGetSubscribeCallback: a message goes to the callback of its      *)
(* name, an acknowledged unsubscription removes it; a name that is not     *)
(* found leaves the callback of the previous reply in place.               *)
SubscribeCallback(c, r) ==
  LET found == dictFind(c.sub[r.variant], r.name)
  IN CASE r.type \in {"plain", "error"} ->
            IF c.invalid = << >> THEN c
            ELSE [c EXCEPT !.cb = Head(c.invalid), !.invalid = Tail(@)]
       [] r.type \notin {"plain", "error"} /\ found = -1 -> c
       [] r.type = "unsubscribe" /\ found # -1 ->
            [c EXCEPT !.cb = found, !.sub[r.variant] = dictDelete(@, r.name),
                      !.flags = IF r.of = 0 THEN @ \ {"SUBSCRIBED"} ELSE @]
       [] OTHER -> [c EXCEPT !.cb = found]

(* One turn of the loop of redisProcessCallbacks. *)
redisProcessCallbacks ==
  /\ Alive /\ asyncPc = "process"
  /\ UNCHANGED link
  /\ IF ac.inbuf = << >>
     THEN IF "DISCONNECTING" \in ac.flags /\ ac.obuf = << >> /\ ac.replies = << >>
          THEN AsyncDisconnect(ac)
          ELSE /\ ac' = IF "MONITORING" \in ac.flags THEN [ac EXCEPT !.replies = Append(@, ac.cb)] ELSE ac
               /\ asyncPc' = "idle"
               /\ UNCHANGED past
     ELSE LET r == Head(ac.inbuf)
              taken == [ac EXCEPT !.inbuf = Tail(@)]
              c == IF ac.replies # << >>
                   THEN [taken EXCEPT !.cb = Head(ac.replies), !.replies = Tail(@)]
                   ELSE IF "SUBSCRIBED" \in ac.flags THEN SubscribeCallback(taken, r) ELSE taken
          IN IF ac.replies = << >> /\ r.type = "error"
             THEN AsyncDisconnect([taken EXCEPT !.err = TRUE])
             ELSE IF ac.replies = << >> /\ ac.flags \cap {"SUBSCRIBED", "MONITORING"} = {}
             THEN ac' = [taken EXCEPT !.abort = TRUE] /\ UNCHANGED <<asyncPc, past>>
             ELSE /\ ac' = c
                  /\ past' = [past EXCEPT !.runs = Ran(@, c.cb, r)]
                  /\ asyncPc' = IF c.cb = 0 THEN "process" ELSE "callback"

(* A callback returns: the context is freed if it asked for that. *)
CallbackReturns ==
  /\ Alive /\ asyncPc = "callback"
  /\ IF "FREEING" \in ac.flags THEN AsyncFree(ac)
     ELSE asyncPc' = "process" /\ UNCHANGED <<ac, past>>
  /\ UNCHANGED link

-----------------------------------------------------------------------------
(* The server answers commands in order; in subscriber mode other commands *)
(* are refused with an error.                                              *)
Answer(type, of, variant, name) == [type |-> type, of |-> of, variant |-> variant, name |-> name]

ServerAnswers ==
  /\ link.open /\ link.up # << >>
  /\ LET c == Head(link.up)
         me == <<c.variant, c.name>>
         subs == CASE c.kind = "subscribe"   -> link.subs \cup {me}
                   [] c.kind = "unsubscribe" -> link.subs \ {me}
                   [] OTHER -> link.subs
         answer == CASE c.kind \in {"subscribe", "unsubscribe"} ->
                          Answer(c.kind, Cardinality(subs), c.variant, c.name)
                     [] OTHER -> Answer(IF link.subs = {} THEN "plain" ELSE "error", c.id, c.variant, c.name)
     IN link' = [link EXCEPT !.up = Tail(@), !.subs = subs, !.down = Append(@, answer),
                             !.monitoring = @ \/ c.kind = "monitor"]
  /\ UNCHANGED <<ac, asyncPc, past>>

(* A message of a subscription, or a line of the monitor. *)
ServerPublishes ==
  /\ link.open /\ link.messages < MaxMessages
  /\ \/ \E s \in link.subs :
          link' = [link EXCEPT !.messages = @ + 1, !.down = Append(@, Answer("message", 0, s[1], s[2]))]
     \/ /\ link.monitoring
        /\ link' = [link EXCEPT !.messages = @ + 1, !.down = Append(@, Answer("plain", 0, "channels", 0))]
  /\ UNCHANGED <<ac, asyncPc, past>>

ServerCloses ==
  /\ link.open
  /\ link' = [link EXCEPT !.open = FALSE]
  /\ UNCHANGED <<ac, asyncPc, past>>

asNext ==
  \/ redisAsyncFree \/ redisAsyncDisconnect \/ redisAsyncCommand
  \/ ConnectFails \/ redisAsyncHandleRead \/ redisAsyncHandleWrite
  \/ redisProcessCallbacks \/ CallbackReturns
  \/ ServerAnswers \/ ServerPublishes \/ ServerCloses

-----------------------------------------------------------------------------
RunsOf(i) == SelectSeq(past.runs, LAMBDA r : r.cb = i)

Gets == {i \in DOMAIN past.commands : past.commands[i].kind = "get"}

=============================================================================
