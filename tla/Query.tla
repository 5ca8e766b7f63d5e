------------------------------- MODULE Query -------------------------------
(***************************************************************************)
(* The requests of a client (networking.c): bytes arrive in pieces of any  *)
(* size, several requests at a time or part of one, and the state of the   *)
(* parser lives in the client between two reads. A command may block the   *)
(* client, whose bytes are then read and kept.                             *)
(*                                                                         *)
(* A byte is "CR", "LF", " ", "*", "$", "-", a digit, or stands for itself.*)
(***************************************************************************)
EXTENDS Integers, Sequences, FiniteSets, SequencesExt

CONSTANTS BigArg,     \* REDIS_MBULK_BIG_ARG
          IoBuf,      \* REDIS_IOBUF_LEN
          InlineMax,  \* REDIS_INLINE_MAX_SIZE
          QueryMax,   \* client_max_querybuf_len
          MaxCount,   \* the most arguments of a request, and the longest argument
          Conversations   \* sequences of requests: see Bytes and Meaning

VARIABLES requests, \* what the client sends, and how many of its bytes the kernel has taken
          parser,   \* the client: see NewClient
          ran       \* history: the commands processed

queryvars == <<requests, parser, ran>>

----------------------------------------------------------------------------
(* What the client means.                                                  *)

Digit == <<"0", "1", "2", "3", "4", "5", "6", "7", "8", "9">>
CRLF == <<"CR", "LF">>
Rep(n, b) == [i \in 1 .. n |-> b]
Flat(ss) == FoldLeft(LAMBDA acc, s : acc \o s, <<>>, ss)

\* A request is an array of arguments, words on a line, or bytes that mean nothing.
Array(args) == [k |-> "array", args |-> args]
Line(words, end) == [k |-> "line", args |-> words, end |-> end]
Junk(bytes) == [k |-> "junk", bytes |-> bytes]

Bytes(r) ==
  CASE r.k = "array" -> <<"*", Digit[Len(r.args) + 1]>> \o CRLF
                        \o Flat([i \in DOMAIN r.args |-> <<"$", Digit[Len(r.args[i]) + 1]>> \o CRLF \o r.args[i] \o CRLF])
    [] r.k = "line"  -> Flat([i \in DOMAIN r.args |-> r.args[i] \o <<" ">>]) \o r.end
    [] r.k = "junk"  -> r.bytes

\* The commands that are to be processed, up to the first junk.
Good(rs) == LET bad == {i \in DOMAIN rs : rs[i].k = "junk"}
            IN IF bad = {} THEN rs ELSE SubSeq(rs, 1, (CHOOSE i \in bad : \A j \in bad : i <= j) - 1)
Meaning(rs) == SelectSeq([i \in DOMAIN Good(rs) |-> rs[i].args], LAMBDA args : args # <<>>)

Blocks(args) == args[1] = <<"b">>

----------------------------------------------------------------------------
(* The parser. Positions count from 0.                                     *)

\* at: "read" or "parse", processInputBuffer; reqtype 0 is "none".
NewClient == [at |-> "read", buf |-> <<>>, reqtype |-> "none", mlen |-> 0, blen |-> -1, argv |-> <<>>,
              blocked |-> FALSE, close |-> FALSE, freed |-> FALSE]

From(s, pos) == SubSeq(s, pos + 1, Len(s))   \* sdsrange(s, pos, -1)
\* strchr: where the byte is first, or -1.
Find(s, pos, b) == LET at == {i \in pos .. Len(s) - 1 : s[i + 1] = b}
                   IN IF at = {} THEN -1 ELSE CHOOSE i \in at : \A j \in at : i <= j

\* string2ll; NaN for what is no number.
NaN == MaxCount + 1
DigitOf(b) == (CHOOSE i \in DOMAIN Digit : Digit[i] = b) - 1
Number(s) ==
  LET minus  == s # <<>> /\ s[1] = "-"
      digits == IF minus THEN Tail(s) ELSE s
      n      == FoldLeft(LAMBDA acc, b : 10 * acc + DigitOf(b), 0, digits)
  IN IF digits = <<>> \/ ~(ToSet(digits) \subseteq ToSet(Digit)) \/ (digits[1] = "0" /\ Len(s) > 1) THEN NaN
     ELSE IF minus THEN 0 - n ELSE n

\* What process...Buffer returns with the client.
Wait(c)       == [c |-> c, ok |-> FALSE]
Complete(c)   == [c |-> c, ok |-> TRUE]
\* setProtocolError.
Error(c, pos) == Wait([c EXCEPT !.close = TRUE, !.buf = From(@, pos)])
TooBig(c)     == IF Len(c.buf) > InlineMax THEN Error(c, 0) ELSE Wait(c)

\* sdssplitargs, of bytes that are not quotes.
Words(s) ==
  LET starts == {i \in DOMAIN s : s[i] # " " /\ (i = 1 \/ s[i - 1] = " ")}
      stop(i) == CHOOSE j \in i .. Len(s) : (j = Len(s) \/ s[j + 1] = " ") /\ \A k \in i .. j : s[k] # " "
  IN [n \in 1 .. Cardinality(starts) |->
        LET i == CHOOSE i \in starts : Cardinality({k \in starts : k <= i}) = n IN SubSeq(s, i, stop(i))]

InlineBuffer(c) ==
  LET lf  == Find(c.buf, 0, "LF")
      len == IF lf > 0 /\ c.buf[lf] = "CR" THEN lf - 1 ELSE lf
  IN IF lf = -1 THEN TooBig(c)
     \* Two bytes are skipped, whatever ended the line.
     ELSE Complete([c EXCEPT !.argv = Words(SubSeq(c.buf, 1, len)), !.buf = From(@, len + 2)])

\* The number between the byte at pos and the next CR; the LF has to be there too.
Header(s, pos) == LET cr == Find(s, pos, "CR")
                  IN [cr |-> cr, whole |-> cr # -1 /\ cr <= Len(s) - 2,
                      n |-> IF cr = -1 THEN NaN ELSE Number(SubSeq(s, pos + 2, cr))]

\* The loop over the arguments; what is parsed is cut off at its end, or before a long one.
RECURSIVE Arguments(_, _)
Arguments(c, pos) ==
  LET cut == [c EXCEPT !.buf = From(@, pos)]
      h   == Header(c.buf, pos)
      after == h.cr + 2
  IN CASE c.mlen = 0 -> Complete(cut)
       [] c.mlen > 0 /\ c.blen = -1 ->
            IF h.cr = -1 THEN (IF Len(c.buf) > InlineMax THEN Error(c, 0) ELSE Wait(cut))
            ELSE IF ~h.whole THEN Wait(cut)
            ELSE IF c.buf[pos + 1] # "$" \/ h.n \notin 0 .. MaxCount THEN Error(c, pos)
            ELSE IF h.n >= BigArg THEN Arguments([c EXCEPT !.buf = From(@, after), !.blen = h.n], 0)
            ELSE Arguments([c EXCEPT !.blen = h.n], after)
       [] OTHER ->
            LET n == c.blen
                next == [c EXCEPT !.argv = Append(@, SubSeq(c.buf, pos + 1, pos + n)), !.blen = -1, !.mlen = @ - 1]
            IN IF Len(c.buf) - pos < n + 2 THEN Wait(cut)
               \* The buffer itself becomes the argument.
               ELSE IF pos = 0 /\ n >= BigArg /\ Len(c.buf) = n + 2 THEN Arguments([next EXCEPT !.buf = <<>>], 0)
               ELSE Arguments(next, pos + n + 2)

MultibulkBuffer(c) ==
  LET h == Header(c.buf, 0)
  IN IF c.mlen > 0 THEN Arguments(c, 0)
     ELSE IF h.cr = -1 THEN TooBig(c)
     ELSE IF ~h.whole THEN Wait(c)
     ELSE IF h.n > MaxCount THEN Error(c, 0)
     ELSE IF h.n <= 0 THEN Complete([c EXCEPT !.buf = From(@, h.cr + 2)])
     ELSE Arguments([c EXCEPT !.mlen = h.n], h.cr + 2)

----------------------------------------------------------------------------
\* readQueryFromClient: never beyond a long argument that is awaited.
Sent == Flat([i \in DOMAIN requests.of |-> Bytes(requests.of[i])])
Awaited == parser.blen + 2 - Len(parser.buf)
ReadLen == IF parser.reqtype = "multibulk" /\ parser.mlen > 0 /\ parser.blen >= BigArg /\ Awaited < IoBuf
           THEN Awaited ELSE IoBuf
Read == /\ parser.at = "read" /\ ~parser.freed
        /\ \E n \in 1 .. ReadLen :
             /\ requests.taken + n <= Len(Sent)
             /\ requests' = [requests EXCEPT !.taken = @ + n]
             /\ LET buf == parser.buf \o SubSeq(Sent, requests.taken + 1, requests.taken + n)
                IN parser' = [parser EXCEPT !.buf = buf, !.freed = Len(buf) > QueryMax,
                                  !.at = IF Len(buf) > QueryMax THEN "read" ELSE "parse"]
        /\ UNCHANGED ran

\* resetClient.
Reset(c) == [c EXCEPT !.reqtype = "none", !.mlen = 0, !.blen = -1, !.argv = <<>>]

\* One round of processInputBuffer.
Parse ==
  /\ parser.at = "parse"
  /\ IF parser.buf = <<>> \/ parser.blocked \/ parser.close THEN parser' = [parser EXCEPT !.at = "read"] /\ UNCHANGED ran
     ELSE LET type == IF parser.reqtype # "none" THEN parser.reqtype ELSE IF parser.buf[1] = "*" THEN "multibulk" ELSE "inline"
              t == [parser EXCEPT !.reqtype = type]
              p == IF type = "inline" THEN InlineBuffer(t) ELSE MultibulkBuffer(t)
          IN IF ~p.ok THEN parser' = [p.c EXCEPT !.at = "read"] /\ UNCHANGED ran
             ELSE IF p.c.argv = <<>> THEN parser' = Reset(p.c) /\ UNCHANGED ran
             ELSE parser' = [Reset(p.c) EXCEPT !.blocked = Blocks(p.c.argv)] /\ ran' = Append(ran, p.c.argv)
  /\ UNCHANGED requests

\* beforeSleep goes on with what was kept.
Unblock == /\ parser.at = "read" /\ parser.blocked
           /\ parser' = [parser EXCEPT !.blocked = FALSE, !.at = "parse"] /\ UNCHANGED <<requests, ran>>

QueryInit == /\ requests \in {[of |-> c, taken |-> 0] : c \in Conversations}
             /\ parser = NewClient /\ ran = <<>>
QueryNext == Read \/ Parse \/ Unblock

----------------------------------------------------------------------------
\* However the bytes are cut, the commands are those that were sent, with their
\* arguments, in order; when all has been read none is missing; a protocol error is
\* found in junk only.
QuerySound ==
  LET meant == Meaning(requests.of)
      done  == ~parser.freed /\ parser.at = "read" /\ ~parser.blocked /\ requests.taken = Len(Sent)
      junk  == Len(Good(requests.of)) < Len(requests.of)
  IN /\ IsPrefix(ran, meant)
     /\ done => ran = meant /\ (junk => parser.close)
     /\ parser.close => junk /\ ran = meant
=============================================================================
