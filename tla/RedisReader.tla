---------------------------- MODULE RedisReader ----------------------------
(***************************************************************************)
(* The protocol code of hiredis: the functions that format a command       *)
(* (redis/hiredis/hiredis.c) and the incremental reader of replies         *)
(* (redis/hiredis/read.c) with the objects it builds.  The bytes of a      *)
(* stream of items arrive in pieces of any size, and a reply is asked for  *)
(* at any moment between two of them.  A byte is a one-character string.   *)
(***************************************************************************)
EXTENDS Integers, Sequences, SequencesExt, FiniteSetsExt

CONSTANTS RedisItems,      \* what the stream may hold, a sequence: see Bytes
          MaxRedisItems,   \* items of a stream
          ReaderDepth,     \* arrays that may be nested (8 in read.c)
          ReaderDiscard    \* bytes read before the buffer is cut (1024 in read.c)

VARIABLES wire,   \* the bytes the server has still to deliver
          reader, \* redisReader, with the objects made for the reply being read
          replies,\* the replies handed to the caller
          stream  \* the numbers of the items of the stream

rrVars == <<wire, reader, replies, stream>>

CR == "\r"
LF == "\n"
CRLF == <<CR, LF>>
DigitChars == <<"0", "1", "2", "3", "4", "5", "6", "7", "8", "9">>

RECURSIVE Decimal(_)
Decimal(n) == IF n < 10 THEN <<DigitChars[n + 1]>>
              ELSE Append(Decimal(n \div 10), DigitChars[(n % 10) + 1])

-----------------------------------------------------------------------------
(* Commands *)

RECURSIVE countDigits(_)
countDigits(v) == IF v < 10 THEN 1 ELSE 1 + countDigits(v \div 10)

bulklen(len) == 1 + countDigits(len) + 2 + len + 2

SumOf(S, f(_)) == FoldSet(LAMBDA x, acc : f(x) + acc, 0, S)

(* The size computed before the command is written; the code asserts that  *)
(* what it writes has exactly this length.                                 *)
CommandLength(argv) ==
  1 + countDigits(Len(argv)) + 2 + SumOf(DOMAIN argv, LAMBDA j : bulklen(Len(argv[j])))

Bulk(arg) == <<"$">> \o Decimal(Len(arg)) \o CRLF \o arg \o CRLF

redisFormatCommandArgv(argv) ==
  <<"*">> \o Decimal(Len(argv)) \o CRLF \o FlattenSeq([j \in DOMAIN argv |-> Bulk(argv[j])])

(* redisvFormatCommand: the format is a sequence of spaces, plain          *)
(* characters and conversions with the bytes they expand to; an invalid    *)
(* conversion is an error.  A space ends the current argument only if      *)
(* something, possibly empty, was put in it.                               *)
FormatStep(token, acc) ==
  CASE acc.err -> acc
    [] token.kind = "space" /\ acc.touched ->
         [argv |-> Append(acc.argv, acc.curarg), curarg |-> << >>, touched |-> FALSE, err |-> FALSE]
    [] token.kind = "space" /\ ~acc.touched -> acc
    [] token.kind = "text" -> [acc EXCEPT !.curarg = @ \o token.bytes, !.touched = TRUE]
    [] OTHER -> [acc EXCEPT !.err = TRUE]

FormatArguments(format) ==
  LET end == FoldLeft(LAMBDA acc, token : FormatStep(token, acc),
                      [argv |-> << >>, curarg |-> << >>, touched |-> FALSE, err |-> FALSE], format)
  IN [err  |-> end.err,
      argv |-> IF end.touched THEN Append(end.argv, end.curarg) ELSE end.argv]

redisvFormatCommand(format) ==
  LET args == FormatArguments(format)
  IN IF args.err THEN << >> ELSE redisFormatCommandArgv(args.argv)

-----------------------------------------------------------------------------
(* Replies as the server writes them. *)

Reply(type, value) == [type |-> type, value |-> value]

RECURSIVE ServerBytes(_)
ServerBytes(r) ==
  CASE r.type = "status"  -> <<"+">> \o r.value \o CRLF
    [] r.type = "error"   -> <<"-">> \o r.value \o CRLF
    [] r.type = "integer" -> <<":">> \o (IF r.value < 0 THEN <<"-">> \o Decimal(-r.value)
                                         ELSE Decimal(r.value)) \o CRLF
    [] r.type = "nil"     -> <<r.value, "-", "1">> \o CRLF
    [] r.type = "string"  -> Bulk(r.value)
    [] r.type = "array"   -> <<"*">> \o Decimal(Len(r.value)) \o CRLF
                               \o FlattenSeq([i \in DOMAIN r.value |-> ServerBytes(r.value[i])])

Bytes(item) ==
  CASE item.kind = "argv"   -> redisFormatCommandArgv(item.argv)
    [] item.kind = "format" -> redisvFormatCommand(item.format)
    [] item.kind = "reply"  -> ServerBytes(item.reply)
    [] item.kind = "noise"  -> item.bytes

-----------------------------------------------------------------------------
(* The reader *)

FreshTask(idx, parent) == [type |-> "", elements |-> -1, idx |-> idx, obj |-> 0, parent |-> parent]

NewReader == [buf |-> << >>, pos |-> 0, ridx |-> -1, rstack |-> << >>, reply |-> 0,
              objects |-> << >>, err |-> FALSE]

(* __redisReaderSetError: reply, buffer and task stack are dropped. *)
SetReaderError(r) == [NewReader EXCEPT !.err = TRUE]

(* The distance of the first CR LF from pos, or -1. *)
seekNewline(r) ==
  LET at == {i \in r.pos + 1 .. Len(r.buf) - 1 : r.buf[i] = CR /\ r.buf[i + 1] = LF}
  IN IF at = {} THEN -1 ELSE Min(at) - r.pos - 1

(* The number before the CR at pos: -1 where a character is not a digit. *)
readLongLong(s) ==
  LET signed == Len(s) > 0 /\ s[1] \in {"-", "+"}
      digits == IF signed THEN Tail(s) ELSE s
      upToCR == SubSeq(digits, 1, Min({i \in DOMAIN digits : digits[i] = CR} \cup {Len(digits) + 1}) - 1)
      value == FoldLeft(LAMBDA v, c : v * 10 + (CHOOSE d \in 0 .. 9 : DigitChars[d + 1] = c), 0, upToCR)
  IN IF \E i \in DOMAIN upToCR : upToCR[i] \notin {DigitChars[d] : d \in 1 .. 10} THEN -1
     ELSE IF signed /\ s[1] = "-" THEN -value ELSE value

Line(r, len) == SubSeq(r.buf, r.pos + 1, r.pos + len)

Top(r) == r.rstack[r.ridx + 1]

(* createString/Integer/Nil/ArrayObject: the object is linked from the     *)
(* parent's array at once.                                                 *)
Create(r, type, value) ==
  LET id == Len(r.objects) + 1
      made == Append(r.objects, Reply(type, value))
      parent == Top(r).parent
      linked == IF parent = 0 THEN made
                ELSE [made EXCEPT ![parent].value[Top(r).idx + 1] = id]
  IN [r EXCEPT !.objects = linked, !.reply = IF r.ridx = 0 THEN id ELSE @]

RECURSIVE moveToNextTask(_)
moveToNextTask(r) ==
  IF r.ridx <= 0 THEN [r EXCEPT !.ridx = -1, !.rstack = << >>]
  ELSE LET cur == Top(r)
           prv == r.rstack[r.ridx]
       IN IF cur.idx = prv.elements - 1
          THEN moveToNextTask([r EXCEPT !.ridx = @ - 1, !.rstack = Front(@)])
          ELSE [r EXCEPT !.rstack[r.ridx + 1] = FreshTask(cur.idx + 1, cur.parent)]

Done(r) == [ok |-> TRUE, r |-> r]
Wait(r) == [ok |-> FALSE, r |-> r]

processLineItem(r) ==
  LET len == seekNewline(r)
      type == Top(r).type
      line == Line(r, len)
  IN IF len < 0 THEN Wait(r)
     ELSE Done(moveToNextTask(
            Create([r EXCEPT !.pos = @ + len + 2], type,
                   IF type = "integer" THEN readLongLong(Append(line, CR)) ELSE line)))

MutantProcessBulkItem(r) ==
  LET head == seekNewline(r)
      len == readLongLong(Append(Line(r, head), CR))
      start == r.pos + head + 2
  IN CASE head < 0 -> Wait(r)
       [] head >= 0 /\ len < 0 ->
            Done(moveToNextTask(Create([r EXCEPT !.pos = start], "nil", "$")))
       [] head >= 0 /\ len >= 0 /\ start + len <= Len(r.buf) ->
            Done(moveToNextTask(Create([r EXCEPT !.pos = Min({start + len + 2, Len(r.buf)})], "string",
                                       SubSeq(r.buf, start + 1, start + len))))
       [] OTHER -> Wait(r)

processBulkItem(r) ==
  LET head == seekNewline(r)
      len == readLongLong(Append(Line(r, head), CR))
      start == r.pos + head + 2
  IN CASE head < 0 -> Wait(r)
       [] head >= 0 /\ len < 0 ->
            Done(moveToNextTask(Create([r EXCEPT !.pos = start], "nil", "$")))
       [] head >= 0 /\ len >= 0 /\ start + len + 2 <= Len(r.buf) ->
            Done(moveToNextTask(Create([r EXCEPT !.pos = start + len + 2], "string",
                                       SubSeq(r.buf, start + 1, start + len))))
       [] OTHER -> Wait(r)

processMultiBulkItem(r) ==
  LET head == seekNewline(r)
      elements == readLongLong(Append(Line(r, head), CR))
      read == [r EXCEPT !.pos = @ + head + 2]
      made == Create(read, "array", [i \in 1 .. elements |-> 0])
      array == Len(made.objects)
  IN CASE r.ridx = ReaderDepth -> Wait(SetReaderError(r))
       [] r.ridx # ReaderDepth /\ head < 0 -> Wait(r)
       [] r.ridx # ReaderDepth /\ head >= 0 /\ elements = -1 ->
            Done(moveToNextTask(Create(read, "nil", "*")))
       [] r.ridx # ReaderDepth /\ head >= 0 /\ elements > 0 ->
            Done([made EXCEPT
              !.rstack = Append([@ EXCEPT ![r.ridx + 1].elements = elements, ![r.ridx + 1].obj = array],
                                FreshTask(0, array)),
              !.ridx = @ + 1])
       [] OTHER -> Done(moveToNextTask(made))

TypeOf == [c \in {"-", "+", ":", "$", "*"} |->
  CASE c = "-" -> "error" [] c = "+" -> "status" [] c = ":" -> "integer"
    [] c = "$" -> "string" [] c = "*" -> "array"]

processItem(r) ==
  LET byte == r.buf[r.pos + 1]
      typed == IF Top(r).type # "" THEN r
               ELSE [r EXCEPT !.pos = @ + 1, !.rstack[r.ridx + 1].type = TypeOf[byte]]
  IN CASE Top(r).type = "" /\ r.pos = Len(r.buf) -> Wait(r)
       [] Top(r).type = "" /\ r.pos < Len(r.buf) /\ byte \notin DOMAIN TypeOf -> Wait(SetReaderError(r))
       [] OTHER ->
            CASE Top(typed).type = "string" -> processBulkItem(typed)
              [] Top(typed).type = "array"  -> processMultiBulkItem(typed)
              [] OTHER -> processLineItem(typed)

RECURSIVE ProcessItems(_)
ProcessItems(r) ==
  IF r.ridx < 0 THEN r
  ELSE LET next == processItem(r) IN IF next.ok THEN ProcessItems(next.r) ELSE next.r

RECURSIVE TreeOf(_, _)
TreeOf(objects, id) ==
  LET o == objects[id]
  IN IF o.type = "array" THEN Reply("array", [i \in DOMAIN o.value |-> TreeOf(objects, o.value[i])])
     ELSE o

-----------------------------------------------------------------------------
StreamItem(i) == RedisItems[stream[i]]

rrStart(streams) ==
  /\ stream \in streams
  /\ wire = FlattenSeq([i \in DOMAIN stream |-> Bytes(StreamItem(i))])
  /\ reader = NewReader
  /\ replies = << >>

rrInit == rrStart(UNION {[1 .. n -> DOMAIN RedisItems] : n \in 1 .. MaxRedisItems})

(* redisBufferRead and redisReaderFeed: the bytes one read(2) returns are  *)
(* appended, unless the reader is in error.                                *)
redisReaderFeed ==
  /\ \E k \in 1 .. Len(wire) :
       /\ wire' = SubSeq(wire, k + 1, Len(wire))
       /\ reader' = IF reader.err THEN reader
                    ELSE [reader EXCEPT !.buf = @ \o SubSeq(wire, 1, k)]
  /\ UNCHANGED <<replies, stream>>

(* redisReaderGetReply: the first task is set when the stack is empty, the *)
(* items that are complete are processed, and a reply is handed out when   *)
(* the stack is empty again.                                               *)
WithTask(r) == IF r.ridx # -1 THEN r
               ELSE [r EXCEPT !.ridx = 0, !.rstack = <<FreshTask(-1, 0)>>]

redisReaderGetReply ==
  /\ ~reader.err
  /\ reader.buf # << >>
  /\ \E r \in {ProcessItems(WithTask(reader))} :
       LET read == IF r.err \/ r.pos < ReaderDiscard THEN r
                   ELSE [r EXCEPT !.buf = SubSeq(@, r.pos + 1, Len(@)), !.pos = 0]
           complete == ~r.err /\ r.ridx = -1
       IN /\ reader' = IF complete THEN [read EXCEPT !.reply = 0, !.objects = << >>] ELSE read
          /\ replies' = IF complete THEN Append(replies, TreeOf(r.objects, r.reply)) ELSE replies
  /\ UNCHANGED <<wire, stream>>

rrNext == redisReaderFeed \/ redisReaderGetReply

-----------------------------------------------------------------------------
(* What the stream says: a command reads as the array of its arguments. *)
CommandReply(argv) == Reply("array", [j \in DOMAIN argv |-> Reply("string", argv[j])])

(* The arguments of a format are its maximal runs between spaces. *)
ReferenceArguments(format) ==
  LET starts == {i \in DOMAIN format : /\ format[i].kind # "space"
                                       /\ i = 1 \/ format[i - 1].kind = "space"}
      end(i) == Min({j \in i .. Len(format) : format[j].kind = "space"} \cup {Len(format) + 1}) - 1
      run(i) == FlattenSeq([j \in 1 .. end(i) - i + 1 |-> format[i + j - 1].bytes])
  IN [k \in 1 .. Cardinality(starts) |-> run(SetToSortSeq(starts, <)[k])]

Meaning(item) ==
  CASE item.kind = "argv"   -> <<CommandReply(item.argv)>>
    [] item.kind = "format" -> IF \E i \in DOMAIN item.format : item.format[i].kind = "invalid" THEN << >>
                               ELSE <<CommandReply(ReferenceArguments(item.format))>>
    [] item.kind = "reply"  -> <<item.reply>>
    [] item.kind = "noise"  -> << >>

Noisy == {i \in DOMAIN stream : StreamItem(i).kind = "noise"}

Expected == FlattenSeq([i \in 1 .. Min(Noisy \cup {Len(stream) + 1}) - 1 |-> Meaning(StreamItem(i))])

(* However the bytes are cut into reads, and whenever a reply is asked     *)
(* for, the reader hands out the replies the stream holds, in order and    *)
(* none twice; when every byte was read and no further reply comes, none   *)
(* is missing, and the reader is in error exactly when the stream broke    *)
(* the protocol.  The commands are in the stream too: what the format      *)
(* functions write reads back as the arguments given, and has the length   *)
(* they computed.                                                          *)
RepliesSurviveChunks ==
  /\ IsPrefix(replies, Expected)
  /\ reader.err => Noisy # {} /\ replies = Expected
  /\ (wire = << >> /\ ~reader.err /\ ProcessItems(WithTask(reader)).ridx # -1) => replies = Expected
  /\ \A i \in DOMAIN stream :
       StreamItem(i).kind = "argv" => Len(Bytes(StreamItem(i))) = CommandLength(StreamItem(i).argv)
=============================================================================
