-------------------------------- MODULE Sds --------------------------------
(***************************************************************************)
(* The dynamic strings of hiredis (redis/hiredis/sds.c), which hold every  *)
(* command and reply: the header with its length and free space, growing,  *)
(* the operations in place, and the conversions to and from an array of    *)
(* arguments.  A byte is its code.  A write beyond the allocation makes    *)
(* the model's buffer longer than the header says it is.                   *)
(***************************************************************************)
EXTENDS Integers, Sequences, SequencesExt, FiniteSets, FiniteSetsExt, Functions

CONSTANTS SdsPieces,    \* the byte strings the operations are given
          SdsPrealloc,  \* SDS_MAX_PREALLOC
          MaxSdsOps     \* operations on one string

VARIABLES sd,     \* the sds
          sdRef,  \* the string it stands for
          sdOps   \* operations so far

sdVars == <<sd, sdRef, sdOps>>

NUL == 0
Quote == 34
SingleQuote == 39
Backslash == 92
Blank == 32
Unwritten == 255       \* what malloc and realloc leave in new memory

(* What C's string functions see of bytes that a NUL ends. *)
CString(b) == LET ends == {i \in DOMAIN b : b[i] = NUL}
              IN IF ends = {} THEN b ELSE SubSeq(b, 1, Min(ends) - 1)

Memcpy(buf, i, t) == SubSeq(buf, 1, i) \o t \o SubSeq(buf, i + Len(t) + 1, Len(buf))

-----------------------------------------------------------------------------
(* Making and growing a string. *)
sdsnewlen(t) == [len |-> Len(t), free |-> 0, buf |-> Append(t, NUL)]

sdsMakeRoomFor(s, addlen) ==
  LET newlen == s.len + addlen
      alloc == IF newlen < SdsPrealloc THEN 2 * newlen ELSE newlen + SdsPrealloc
  IN IF s.free >= addlen THEN s
     ELSE [s EXCEPT !.free = alloc - s.len,
                    !.buf = @ \o [j \in 1 .. alloc + 1 - Len(@) |-> Unwritten]]

sdsRemoveFreeSpace(s) == [s EXCEPT !.free = 0, !.buf = SubSeq(@, 1, s.len + 1)]

sdscatlen(s, t) ==
  LET r == sdsMakeRoomFor(s, Len(t))
  IN [len |-> s.len + Len(t), free |-> r.free - Len(t), buf |-> Memcpy(r.buf, s.len, Append(t, NUL))]

sdscpylen(s, t) ==
  LET r == IF s.free + s.len < Len(t) THEN sdsMakeRoomFor(s, Len(t) - s.len) ELSE s
  IN [len |-> Len(t), free |-> r.free + r.len - Len(t), buf |-> Memcpy(r.buf, 0, Append(t, NUL))]

sdsgrowzero(s, n) ==
  LET r == sdsMakeRoomFor(s, n - s.len)
  IN IF n <= s.len THEN s
     ELSE [len |-> n, free |-> r.len + r.free - n,
           buf |-> Memcpy(r.buf, s.len, [j \in 1 .. n - s.len + 1 |-> NUL])]

(* sdsIncrLen, after its caller wrote past the end of the string. *)
sdsIncrLen(s, incr) ==
  [len |-> s.len + incr, free |-> s.free - incr, buf |-> Memcpy(s.buf, s.len + incr, <<NUL>>)]

(* The decimal digits of a number, last one first, and then turned round. *)
RECURSIVE Digits(_)
Digits(v) == <<48 + (v % 10)>> \o (IF v < 10 THEN << >> ELSE Digits(v \div 10))
sdsll2str(v) == Reverse(Digits(IF v < 0 THEN -v ELSE v) \o (IF v < 0 THEN <<45>> ELSE << >>))

(* sdscatfmt: what a part of the format stands for, and the room made for  *)
(* it: one byte for any part, then what a conversion needs.                *)
FormatPiece(f) == CASE f.kind = "s" -> CString(f.arg)
                    [] f.kind = "S" -> f.arg
                    [] f.kind = "i" -> sdsll2str(f.arg)
                    [] f.kind = "char" -> <<f.arg>>
FormatPart(s, f) ==
  LET one == IF s.free = 0 THEN sdsMakeRoomFor(s, 1) ELSE s
      piece == FormatPiece(f)
      r == IF one.free < Len(piece) THEN sdsMakeRoomFor(one, Len(piece)) ELSE one
  IN [len |-> r.len + Len(piece), free |-> r.free - Len(piece), buf |-> Memcpy(r.buf, r.len, piece)]
sdscatfmt(s, fmt) == LET r == FoldLeft(FormatPart, s, fmt)
                     IN [r EXCEPT !.buf = Memcpy(@, r.len, <<NUL>>)]

-----------------------------------------------------------------------------
(* Operations in place. *)
Shortened(s, from, newlen) ==
  [len |-> newlen, free |-> s.free + (s.len - newlen),
   buf |-> Memcpy(s.buf, 0, Append(SubSeq(s.buf, from + 1, from + newlen), NUL))]

sdsclear(s) == Shortened(s, 0, 0)
sdsupdatelen(s) == LET reallen == Len(CString(s.buf))
                   IN [s EXCEPT !.len = reallen, !.free = @ + (s.len - reallen)]

(* sdstrim: strchr also finds the NUL that ends the set. *)
sdstrim(s, cset) ==
  LET trimmed == ToSet(cset) \cup {NUL}
      sp == Min({i \in 0 .. s.len : i = s.len \/ s.buf[i + 1] \notin trimmed})
      ep == Max({IF s.len = 0 THEN -1 ELSE 0} \cup {i \in 0 .. s.len - 1 : s.buf[i + 1] \notin trimmed})
  IN Shortened(s, sp, IF sp > ep THEN 0 ELSE ep - sp + 1)

MutantSdsrange(s, first, last) ==
  LET start == Max({0, IF first < 0 THEN s.len + first ELSE first})
      end == Max({0, IF last < 0 THEN s.len + last ELSE last})
      newlen == IF start > end THEN 0 ELSE end - start + 1
  IN IF s.len = 0 THEN s ELSE Shortened(s, IF newlen = 0 THEN 0 ELSE start, Min({newlen, s.len}))

sdsrange(s, first, last) ==
  LET start == Max({0, IF first < 0 THEN s.len + first ELSE first})
      end == Max({0, IF last < 0 THEN s.len + last ELSE last})
      newlen == CASE start > end -> 0
                  [] start <= end /\ start >= s.len -> 0
                  [] start <= end /\ start < s.len -> Min({end, s.len - 1}) - start + 1
  IN IF s.len = 0 THEN s ELSE Shortened(s, IF newlen = 0 THEN 0 ELSE start, newlen)

toupper(b) == IF b \in 97 .. 122 THEN b - 32 ELSE b
sdstoupper(s) == [s EXCEPT !.buf = [i \in DOMAIN @ |-> IF i <= s.len THEN toupper(@[i]) ELSE @[i]]]

sdsmapchars(s, from, to) ==
  LET Mapped(b) == IF b \in ToSet(from) THEN to[Min({i \in DOMAIN from : from[i] = b})] ELSE b
  IN [s EXCEPT !.buf = [i \in DOMAIN @ |-> IF i <= s.len THEN Mapped(@[i]) ELSE @[i]]]

-----------------------------------------------------------------------------
(* Arguments.  sdssplitlen looks for the separator from left to right.     *)
RECURSIVE SplitFrom(_, _, _, _)
SplitFrom(s, sep, start, j) ==
  CASE j >= Len(s) - (Len(sep) - 1) -> <<SubSeq(s, start + 1, Len(s))>>
    [] j < Len(s) - (Len(sep) - 1) /\ SubSeq(s, j + 1, j + Len(sep)) = sep ->
         <<SubSeq(s, start + 1, j)>> \o SplitFrom(s, sep, j + Len(sep), j + Len(sep))
    [] OTHER -> SplitFrom(s, sep, start, j + 1)
sdssplitlen(s, sep) == IF s = << >> THEN << >> ELSE SplitFrom(s, sep, 0, 0)

sdsjoinsds(argv, sep) ==
  FoldLeftDomain(LAMBDA s, j : LET t == sdscatlen(s, argv[j]) IN IF j # Len(argv) THEN sdscatlen(t, sep) ELSE t,
                 sdsnewlen(<< >>), argv)

(* sdscatrepr.  Escapes has the letters of \n, \r, \t, \a and \b. *)
Escapes == [b \in {10, 13, 9, 7, 8} |-> CASE b = 10 -> 110 [] b = 13 -> 114 [] b = 9 -> 116
                                          [] b = 7 -> 97 [] b = 8 -> 98]
HexDigit(n) == IF n < 10 THEN 48 + n ELSE 87 + n
ReprOf(b) == CASE b \in {Backslash, Quote} -> <<Backslash, b>>
               [] b \in DOMAIN Escapes -> <<Backslash, Escapes[b]>>
               [] b \in 32 .. 126 \ {Backslash, Quote} -> <<b>>
               [] OTHER -> <<Backslash, 120, HexDigit(b \div 16), HexDigit(b % 16)>>
sdscatrepr(s, p) ==
  sdscatlen(FoldLeft(LAMBDA t, b : sdscatlen(t, ReprOf(b)), sdscatlen(s, <<Quote>>), p), <<Quote>>)

is_hex_digit(c) == c \in (48 .. 57) \cup (97 .. 102) \cup (65 .. 70)
hex_digit_to_int(c) == CASE c \in 48 .. 57 -> c - 48 [] c \in 97 .. 102 -> c - 87 [] c \in 65 .. 70 -> c - 55
isspace(c) == c \in {32} \cup (9 .. 13)
Unescaped(c) == IF c \in Range(Escapes) THEN CHOOSE b \in DOMAIN Escapes : Escapes[b] = c ELSE c

(* sdssplitargs, one round of its inner loop: mode says whether a token    *)
(* has begun and which quotes are open.  The line ends with its NUL.       *)
Step(line, st) ==
  LET At(k) == IF st.p + k <= Len(line) THEN line[st.p + k] ELSE NUL
      c == At(0)
      On(n) == [st EXCEPT !.p = @ + n]
      Taken(n, b) == [On(n) EXCEPT !.current = Append(@, b)]
      TokenEnds == [st EXCEPT !.p = @ + (IF c = NUL THEN 0 ELSE 1), !.args = Append(@, st.current),
                              !.mode = "blank", !.current = << >>]
      Closing == IF At(1) # NUL /\ ~isspace(At(1)) THEN [st EXCEPT !.mode = "err"] ELSE TokenEnds
  IN CASE st.mode = "blank" ->
            IF c = NUL THEN [st EXCEPT !.mode = "end"]
            ELSE IF isspace(c) THEN On(1) ELSE [st EXCEPT !.mode = "plain"]
       [] st.mode = "plain" ->
            CASE c \in {32, 10, 13, 9, NUL} -> TokenEnds
              [] c = Quote -> [On(1) EXCEPT !.mode = "inq"]
              [] c = SingleQuote -> [On(1) EXCEPT !.mode = "insq"]
              [] OTHER -> Taken(1, c)
       [] st.mode = "inq" ->
            CASE c = Backslash /\ At(1) = 120 /\ is_hex_digit(At(2)) /\ is_hex_digit(At(3)) ->
                   Taken(4, hex_digit_to_int(At(2)) * 16 + hex_digit_to_int(At(3)))
              [] c = Backslash /\ At(1) # NUL
                   /\ ~(At(1) = 120 /\ is_hex_digit(At(2)) /\ is_hex_digit(At(3))) -> Taken(2, Unescaped(At(1)))
              [] c = Quote -> Closing
              [] c = NUL -> [st EXCEPT !.mode = "err"]
              [] OTHER -> Taken(1, c)
       [] st.mode = "insq" ->
            CASE c = Backslash /\ At(1) = SingleQuote -> Taken(2, SingleQuote)
              [] c = SingleQuote -> Closing
              [] c = NUL -> [st EXCEPT !.mode = "err"]
              [] OTHER -> Taken(1, c)

RECURSIVE SplitArgs(_, _)
SplitArgs(line, st) == IF st.mode \in {"end", "err"} THEN st ELSE SplitArgs(line, Step(line, st))
sdssplitargs(line) ==
  LET last == SplitArgs(CString(line), [p |-> 1, args |-> << >>, mode |-> "blank", current |-> << >>])
  IN IF last.mode = "end" THEN <<"args", last.args>> ELSE <<"null">>

-----------------------------------------------------------------------------
sdInit == sd = sdsnewlen(<< >>) /\ sdRef = << >> /\ sdOps = 0

SdsBecomes(s, ref) == sdOps < MaxSdsOps /\ sdOps' = sdOps + 1 /\ sd' = s /\ sdRef' = ref

Appends == \E t \in SdsPieces : SdsBecomes(sdscatlen(sd, t), sdRef \o t)
Copies == \E t \in SdsPieces : SdsBecomes(sdscpylen(sd, t), t)
Grows == \E n \in {2, 5} : SdsBecomes(sdsgrowzero(sd, n), sdRef \o [i \in 1 .. n - Len(sdRef) |-> NUL])
Formats ==
  \E t \in SdsPieces, v \in {-10, 7} :
    LET fmt == <<[kind |-> "s", arg |-> t], [kind |-> "char", arg |-> Blank],
                 [kind |-> "i", arg |-> v], [kind |-> "S", arg |-> t]>>
    IN SdsBecomes(sdscatfmt(sd, fmt), sdRef \o FlattenSeq([i \in DOMAIN fmt |-> FormatPiece(fmt[i])]))
(* Room is made, bytes are read into it, and sdsIncrLen takes them in. *)
ReadsInto ==
  \E t \in SdsPieces :
    LET r == sdsMakeRoomFor(sd, Len(t))
    IN SdsBecomes(sdsIncrLen([r EXCEPT !.buf = Memcpy(@, r.len, t)], Len(t)), sdRef \o t)
Drops == Len(sdRef) > 0 /\ SdsBecomes(sdsIncrLen(sd, -1), Front(sdRef))
Tightens == SdsBecomes(sdsRemoveFreeSpace(sd), sdRef)
Clears == SdsBecomes(sdsclear(sd), << >>)
UpdatesLength == SdsBecomes(sdsupdatelen(sd), CString(sdRef))
Ranges ==
  \E first, last \in {-7, -2, -1, 0, 1, 3, 8} :
    LET Index(i) == IF i < 0 THEN Max({0, Len(sdRef) + i}) ELSE i
    IN SdsBecomes(sdsrange(sd, first, last),
               SubSeq(sdRef, Index(first) + 1, Min({Index(last) + 1, Len(sdRef)})))
Trims ==
  \E cset \in {<<Blank>>, <<Backslash, 120>>} :
    LET kept == {i \in DOMAIN sdRef : sdRef[i] \notin ToSet(cset) \cup {NUL}}
    IN SdsBecomes(sdstrim(sd, cset), IF kept = {} THEN << >> ELSE SubSeq(sdRef, Min(kept), Max(kept)))
Uppers == SdsBecomes(sdstoupper(sd), [i \in DOMAIN sdRef |-> toupper(sdRef[i])])
Maps == SdsBecomes(sdsmapchars(sd, <<120, Blank>>, <<Blank, 120>>),
                [i \in DOMAIN sdRef |-> CASE sdRef[i] = 120 -> Blank [] sdRef[i] = Blank -> 120 [] OTHER -> sdRef[i]])

sdNext == \/ Appends \/ Copies \/ Grows \/ Formats \/ ReadsInto \/ Drops \/ Tightens \/ Clears
          \/ UpdatesLength \/ Ranges \/ Trims \/ Uppers \/ Maps

-----------------------------------------------------------------------------
(* After any sequence of operations the buffer holds the string they       *)
(* describe, NUL bytes included, ended by a NUL, in an allocation of just  *)
(* the size the header gives; what sdscatrepr writes, sdssplitargs reads   *)
(* back next to other arguments, though not when quotes touch, and joining *)
(* what sdssplitlen split gives the string again.                          *)
SdsHoldsString ==
  /\ sd.free >= 0 /\ Len(sd.buf) = sd.len + sd.free + 1
  /\ SubSeq(sd.buf, 1, sd.len + 1) = Append(sdRef, NUL)
  /\ sdOps > 0 =>
     LET repr == CString(sdscatrepr(sdsnewlen(<< >>), sdRef).buf)
         single == <<SingleQuote, 97, Backslash, SingleQuote, SingleQuote>>
     IN /\ sdssplitargs(repr \o <<Blank, 98, Blank>> \o single) = <<"args", <<sdRef, <<98>>, <<97, SingleQuote>>>>>>
        /\ sdssplitargs(single \o repr) = <<"null">>
  /\ \A sep \in {<<Blank>>, <<120, Blank>>} : sdRef # << >> =>
       IsPrefix(Append(sdRef, NUL), sdsjoinsds(sdssplitlen(sdRef, sep), sep).buf)
=============================================================================
