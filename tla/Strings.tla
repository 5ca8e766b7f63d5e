------------------------------- MODULE Strings -------------------------------
(***************************************************************************)
(* Strings (t_string.c, object.c) and the reply buffers of a client        *)
(* (networking.c).  An object is shared by the key that holds it, by       *)
(* pending replies and by the slow log (slowlog.c), under a reference      *)
(* count, and some commands change it in place.                            *)
(*                                                                         *)
(* A string is a sequence of characters: 0 to 9 are the digits, 10 a       *)
(* letter, 11 the minus sign, 12 the zero byte.  The commands that write   *)
(* come from a client whose replies are dropped (prepareClientToWrite), the*)
(* others from a reader; an error reply is left out.                       *)
(***************************************************************************)
EXTENDS Integers, Sequences, FiniteSets, SequencesExt, TLC

CONSTANTS Keys, Values,       \* the strings given to commands
          SharedIntegers,     \* REDIS_SHARED_INTEGERS
          MaxInt,             \* LLONG_MAX
          MaxText,            \* the limit of checkStringLength
          SlowText,           \* SLOWLOG_ENTRY_MAX_STRING
          BufBytes, Chunk,    \* REDIS_REPLY_CHUNK_BYTES: of the buffer, of a node
          MaxOwed, MaxObjects \* bounds: characters owed to the reader, objects

VARIABLES srv,    \* [heap, db, log, buf, list, sent, bytes]: see StringsInit
          kvalue, \* history: key -> its text, by the commands' meaning
          owed,   \* history: what the reader has still to read
          logged  \* history: the texts recorded by the slow log

stringvars == <<srv, kvalue, owed, logged>>

Nil  == 0
None == <<99>>     \* no text

----------------------------------------------------------------------------
(* Objects.                                                                *)

Digits(n) == CASE n < 0 -> <<11, -n>> [] n \in 0 .. 9 -> <<n>> [] OTHER -> <<n \div 10, n % 10>>
\* string2ll: only what printing the number gives back.
Numbers    == -MaxInt - 1 .. MaxInt
IsNumber(t) == \E n \in Numbers : Digits(n) = t
Number(t)   == CHOOSE n \in Numbers : Digits(n) = t

Object(enc, raw, num) == [enc |-> enc, raw |-> raw, num |-> num, ref |-> 1]
Text(o) == IF o.enc = "INT" THEN Digits(o.num) ELSE o.raw
Integer(n) == -1 - n           \* shared.integers[n]
BulkHdr(n) == -100 - n         \* shared.bulkhdr[n]
Crlf       == -50
NullBulk   == -51
Permanent(i) == i < 0

Fresh(s)     == CHOOSE i \in 1 .. Cardinality(DOMAIN s.heap) + 1 : i \notin DOMAIN s.heap
Create(s, o) == [s EXCEPT !.heap = (Fresh(s) :> o) @@ @]
Raw(t)       == Object("RAW", t, 0)
Incr(s, i)   == [s EXCEPT !.heap[i].ref = @ + 1]
Decr(s, i)   == IF s.heap[i].ref = 1
                THEN [s EXCEPT !.heap = [j \in DOMAIN s.heap \ {i} |-> s.heap[j]]]
                ELSE [s EXCEPT !.heap[i].ref = @ - 1]

\* tryObjectEncoding: the state and the object that results.
TryEncoding(s, i, lru) ==
  LET o == s.heap[i]
      n == Number(o.raw)
  IN  CASE o.enc # "RAW" \/ o.ref > 1 \/ ~IsNumber(o.raw) -> <<s, i>>
        [] OTHER -> IF ~lru /\ n \in 0 .. SharedIntegers - 1
                    THEN <<Incr(Decr(s, i), Integer(n)), Integer(n)>>
                    ELSE <<[s EXCEPT !.heap[i] = [Object("INT", <<>>, n) EXCEPT !.ref = o.ref]], i>>

\* createStringObjectFromLongLong.
FromLongLong(s, n) ==
  IF n \in 0 .. SharedIntegers - 1 THEN <<Incr(s, Integer(n)), Integer(n)>>
  ELSE <<Create(s, Object("INT", <<>>, n)), Fresh(s)>>

----------------------------------------------------------------------------
(* The key space.                                                          *)

DbAdd(s, k, i)       == [s EXCEPT !.db[k] = i]
DbOverwrite(s, k, i) == Decr([s EXCEPT !.db[k] = i], s.db[k])
DbSet(s, k, i)       == IF s.db[k] = Nil THEN DbAdd(s, k, i) ELSE DbOverwrite(s, k, i)
SetKey(s, k, i)      == Incr(DbSet(s, k, i), i)
DbDelete(s, k)       == Decr([s EXCEPT !.db[k] = Nil], s.db[k])

\* dbUnshareStringValue: the object may be changed in place afterwards.
Unshare(s, k) ==
  LET o == s.heap[s.db[k]]
  IN  IF o.ref # 1 \/ o.enc # "RAW" THEN DbOverwrite(Create(s, Raw(Text(o))), k, Fresh(s)) ELSE s

\* slowlogPushEntryIfNeeded, with room for one entry of one argument.
TrimLog(s) == IF Len(s.log) > 1 THEN Decr([s EXCEPT !.log = Front(s.log)], Last(s.log)) ELSE s
PushLog(s, i) ==
  LET o == s.heap[i]
      long == o.enc = "RAW" /\ Len(o.raw) > SlowText
      cut == Create(s, Raw(SubSeq(o.raw, 1, SlowText)))
  IN  TrimLog(IF long THEN [cut EXCEPT !.log = <<Fresh(s)>> \o @]
              ELSE [Incr(s, i) EXCEPT !.log = <<i>> \o @])

\* The end of a command with the argument i: slow log, freeClientArgv.
Ended(s, i, slow) == Decr(IF slow THEN PushLog(s, i) ELSE s, i)
Recorded(s, i, slow) ==
  logged' = IF ~slow THEN logged
            ELSE LET o == s.heap[i]
                 IN  IF o.enc = "RAW" /\ Len(o.raw) > SlowText THEN <<SubSeq(o.raw, 1, SlowText)>>
                     ELSE <<Text(o)>>

----------------------------------------------------------------------------
(* The replies.                                                            *)

Size(t) == Len(t) + 1     \* zmalloc_size_sds: the text and a header
TextOf(s, i) == Text(s.heap[i])
TailId(s) == Last(s.list)

Fits(s, t) == s.list = <<>> /\ Len(t) <= BufBytes - Len(s.buf)
Joins(s, t) == s.list # <<>> /\ s.heap[TailId(s)].enc # "NULL" /\ Len(TextOf(s, TailId(s))) + Len(t) <= Chunk

DupLastIfNeeded(s) ==
  IF s.heap[TailId(s)].ref = 1 THEN s
  ELSE Decr([Create(s, Raw(TextOf(s, TailId(s)))) EXCEPT !.list = [@ EXCEPT ![Len(s.list)] = Fresh(s)]], TailId(s))

JoinTail(s, t) ==
  LET d == DupLastIfNeeded(s)
  IN  [d EXCEPT !.heap[TailId(d)].raw = @ \o t, !.bytes = @ + Len(t)]

AddNode(s, i) == [s EXCEPT !.list = Append(@, i), !.bytes = @ + Size(TextOf(s, i))]

\* _addReplyObjectToList shares the object; _addReplyStringToList copies the text.
ObjectToList(s, i) == IF Joins(s, TextOf(s, i)) THEN JoinTail(s, TextOf(s, i)) ELSE AddNode(Incr(s, i), i)
StringToList(s, t) == IF Joins(s, t) THEN JoinTail(s, t) ELSE AddNode(Create(s, Raw(t)), Fresh(s))

AddReplyString(s, t) == IF Fits(s, t) THEN [s EXCEPT !.buf = @ \o t] ELSE StringToList(s, t)

\* addReply: an integer is decoded into an object of its own.
AddReply(s, i) ==
  LET t == TextOf(s, i)
      d == Fresh(s)
  IN  CASE Fits(s, t) -> [s EXCEPT !.buf = @ \o t]
        [] ~Fits(s, t) /\ s.heap[i].enc = "INT" -> Decr(ObjectToList(Create(s, Raw(t)), d), d)
        [] OTHER -> ObjectToList(s, i)

AddReplyBulk(s, i) == AddReply(AddReply(AddReply(s, BulkHdr(Len(TextOf(s, i)))), i), Crlf)
Bulk(t) == <<100 + Len(t)>> \o t \o <<50>>

\* addDeferredMultiBulkLength and setDeferredMultiBulkLength, for the node at p,
\* which takes in the one after it.
AddDeferred(s) == [Create(s, Object("NULL", <<>>, 0)) EXCEPT !.list = Append(@, Fresh(s))]
SetDeferred(s, p, t) ==
  LET r == [s EXCEPT !.heap[s.list[p]] = Raw(t), !.bytes = @ + Size(t)]
      next == s.list[p + 1]
      x == TextOf(r, next)
  IN  IF p = Len(s.list) \/ r.heap[next].enc = "NULL" THEN r
      ELSE Decr([r EXCEPT !.heap[s.list[p]].raw = t \o x, !.list = RemoveAt(@, p + 1),
                          !.bytes = @ - Size(t) - Size(x) + Size(t \o x)], next)

\* One write of sendReplyToClient: n characters are taken by the socket.
Sent(s, n) ==
  LET node == TextOf(s, s.list[1])
  IN  CASE s.buf # <<>> -> IF s.sent + n = Len(s.buf) THEN [s EXCEPT !.buf = <<>>, !.sent = 0]
                           ELSE [s EXCEPT !.sent = @ + n]
        [] OTHER -> IF s.sent + n = Len(node)
                    THEN Decr([s EXCEPT !.list = Tail(@), !.sent = 0, !.bytes = @ - Size(node)], s.list[1])
                    ELSE [s EXCEPT !.sent = @ + n]
Writable(s) == IF s.buf # <<>> THEN Len(s.buf) - s.sent
               ELSE IF s.list # <<>> THEN Len(TextOf(s, s.list[1])) - s.sent ELSE 0

----------------------------------------------------------------------------
(* The commands.                                                           *)

Exists(k) == srv.db[k] # Nil
TextAt(k) == TextOf(srv, srv.db[k])
Room      == Cardinality({i \in DOMAIN srv.heap : ~Permanent(i)}) < MaxObjects
CanReply(n) == Len(owed) + n <= MaxOwed /\ srv.log = <<>>
Slow        == IF owed = <<>> THEN BOOLEAN ELSE {FALSE}   \* bound: the reader and the slow log are used in turn
\* The argument of a command, as the client read it.
Arg(v)   == Create(srv, Raw(v))
ArgId    == Fresh(srv)
Means(k, t) == kvalue' = [kvalue EXCEPT ![k] = t]

\* SET with no option, NX or XX; SETNX and SETEX are the same.
SetCommand(k, v, flag, lru, slow) ==
  LET e == TryEncoding(Arg(v), ArgId, lru)
      refused == (flag = "nx" /\ Exists(k)) \/ (flag = "xx" /\ ~Exists(k))
      s == IF refused THEN e[1] ELSE SetKey(e[1], k, e[2])
  IN  /\ srv' = Ended(s, e[2], slow) /\ Recorded(s, e[2], slow)
      /\ IF refused THEN UNCHANGED kvalue ELSE Means(k, v)
      /\ UNCHANGED owed

\* MSET, MSETNX of every key.
RECURSIVE SetAll(_, _, _, _)
SetAll(s, ks, v, lru) ==
  IF ks = {} THEN s
  ELSE LET k == CHOOSE x \in ks : TRUE
           e == TryEncoding(Create(s, Raw(v)), Fresh(s), lru)
       IN  SetAll(Decr(SetKey(e[1], k, e[2]), e[2]), ks \ {k}, v, lru)
MsetCommand(v, nx, lru) ==
  LET busy == nx /\ \E k \in Keys : Exists(k)
  IN  /\ srv' = IF busy THEN srv ELSE SetAll(srv, Keys, v, lru)
      /\ kvalue' = IF busy THEN kvalue ELSE [k \in Keys |-> v]
      /\ UNCHANGED <<owed, logged>>

GetReply(s, k) == IF s.db[k] = Nil THEN AddReply(s, NullBulk) ELSE AddReplyBulk(s, s.db[k])
GetOwed(k)     == owed' = owed \o (IF kvalue[k] = None THEN <<51>> ELSE Bulk(kvalue[k]))

GetCommand(k) ==
  /\ CanReply(2 + Len(kvalue[k]))
  /\ srv' = GetReply(srv, k) /\ GetOwed(k)
  /\ UNCHANGED <<kvalue, logged>>

GetsetCommand(k, v, lru) ==
  LET e == TryEncoding(GetReply(Arg(v), k), ArgId, lru)
  IN  /\ CanReply(2 + Len(kvalue[k]))
      /\ srv' = Decr(SetKey(e[1], k, e[2]), e[2]) /\ GetOwed(k)
      /\ Means(k, v) /\ UNCHANGED logged

\* SETRANGE: the string grows with zero bytes up to the offset.
GrowZero(t, n) == t \o [i \in 1 .. (IF n > Len(t) THEN n - Len(t) ELSE 0) |-> 12]
Over(t, offset, v) ==
  LET g == GrowZero(t, offset + Len(v))
  IN  [i \in DOMAIN g |-> IF i > offset /\ i <= offset + Len(v) THEN v[i - offset] ELSE g[i]]
SetrangeCommand(k, offset, v, slow) ==
  LET a == Arg(v)
      skip == v = <<>> \/ offset + Len(v) > MaxText
      o == IF Exists(k) THEN Unshare(a, k) ELSE DbAdd(Create(a, Raw(<<>>)), k, Fresh(a))
      s == IF skip THEN a ELSE [o EXCEPT !.heap[o.db[k]].raw = Over(@, offset, v)]
  IN  /\ srv' = Ended(s, ArgId, slow) /\ Recorded(s, ArgId, slow)
      /\ IF skip THEN UNCHANGED kvalue ELSE Means(k, Over(IF Exists(k) THEN kvalue[k] ELSE <<>>, offset, v))
      /\ UNCHANGED owed

\* INCR, DECR, INCRBY, DECRBY.
IncrDecrCommand(k, incr) ==
  LET old == IF Exists(k) THEN Number(TextAt(k)) ELSE 0
      new == FromLongLong(srv, old + incr)
      text == TextOf(new[1], new[2])
  IN  /\ Exists(k) => IsNumber(TextAt(k))
      /\ ~(incr < 0 /\ old < 0 /\ incr < -MaxInt - 1 - old)
      /\ ~(incr > 0 /\ old > 0 /\ incr > MaxInt - old)
      /\ CanReply(2 + Len(text))
      /\ srv' = LET s == DbSet(new[1], k, new[2])
                IN  AddReply(AddReply(AddReplyString(s, <<52>>), new[2]), Crlf)
      /\ owed' = owed \o <<52>> \o Digits(old + incr) \o <<50>>
      /\ Means(k, Digits(old + incr)) /\ UNCHANGED logged

\* INCRBYFLOAT, which makes the new value an argument of the command as well.
\* Only whole numbers.
IncrbyfloatCommand(k, incr, slow) ==
  LET t == Digits((IF Exists(k) THEN Number(TextAt(k)) ELSE 0) + incr)
      n == Fresh(srv)
      s == Incr(DbSet(Create(srv, Raw(t)), k, n), n)
  IN  /\ Exists(k) => IsNumber(TextAt(k)) /\ Number(TextAt(k)) + incr \in Numbers
      /\ srv' = Ended(s, n, slow) /\ Recorded(s, n, slow)
      /\ Means(k, t) /\ UNCHANGED owed

AppendCommand(k, v, lru, slow) ==
  LET a == Arg(v)
      e == TryEncoding(a, ArgId, lru)
      u == Unshare(a, k)
      long == Exists(k) /\ Len(TextAt(k)) + Len(v) > MaxText
      s == CASE ~Exists(k) -> Incr(DbAdd(e[1], k, e[2]), e[2])
             [] long       -> a
             [] OTHER      -> [u EXCEPT !.heap[u.db[k]].raw = @ \o v]
      arg == IF Exists(k) THEN ArgId ELSE e[2]
  IN  /\ srv' = Ended(s, arg, slow) /\ Recorded(s, arg, slow)
      /\ IF long THEN UNCHANGED kvalue ELSE Means(k, IF Exists(k) THEN kvalue[k] \o v ELSE v)
      /\ UNCHANGED owed

DelCommand(k) == /\ Exists(k)
                 /\ srv' = DbDelete(srv, k) /\ Means(k, None) /\ UNCHANGED <<owed, logged>>

\* A reply of unknown length: MGET's elements under a deferred header.
MultiReply ==
  LET p == Len(srv.list) + 1
      held == {k \in Keys : Exists(k)}
      Add(s, k) == AddReplyBulk(s, s.db[k])
      seq == SetToSeq(held)
  IN  /\ CanReply(1 + FoldLeft(LAMBDA n, k : n + 2 + Len(kvalue[k]), 0, seq))
      /\ srv' = SetDeferred(FoldLeft(Add, AddDeferred(srv), seq), p, <<200 + Cardinality(held)>>)
      /\ owed' = owed \o <<200 + Cardinality(held)>> \o FlattenSeq([i \in DOMAIN seq |-> Bulk(kvalue[seq[i]])])
      /\ UNCHANGED <<kvalue, logged>>

\* SLOWLOG RESET.
SlowlogReset == /\ srv.log # <<>>
                /\ srv' = Decr([srv EXCEPT !.log = <<>>], srv.log[1])
                /\ logged' = <<>> /\ UNCHANGED <<kvalue, owed>>

SendReplyToClient(n) ==
  /\ n <= Writable(srv)
  /\ srv' = Sent(srv, n) /\ owed' = SubSeq(owed, n + 1, Len(owed))
  /\ UNCHANGED <<kvalue, logged>>

\* GETRANGE.
Getrange(t, start, end) ==
  LET a == IF start < 0 THEN Len(t) + start ELSE start
      b == IF end < 0 THEN Len(t) + end ELSE end
      s == IF a < 0 THEN 0 ELSE a
      e == IF b < 0 THEN 0 ELSE IF b >= Len(t) THEN Len(t) - 1 ELSE b
  IN  IF s > e \/ t = <<>> THEN <<>> ELSE SubSeq(t, s + 1, e + 1)

\* equalStringObjects.
Equal(o, p) == IF o.enc # "RAW" /\ p.enc # "RAW" THEN o.num = p.num ELSE Text(o) = Text(p)

----------------------------------------------------------------------------
StringsInit ==
  /\ srv = [heap |-> [i \in {Integer(n) : n \in 0 .. SharedIntegers - 1} |-> Object("INT", <<>>, -1 - i)]
                     @@ [i \in {BulkHdr(n) : n \in 0 .. MaxText} |-> Raw(<<-i>>)]
                     @@ (Crlf :> Raw(<<50>>)) @@ (NullBulk :> Raw(<<51>>)),
            db   |-> [k \in Keys |-> Nil],   \* key -> object
            log  |-> <<>>,                   \* the arguments the slow log holds
            buf  |-> <<>>,                   \* c->buf up to c->bufpos
            list |-> <<>>,                   \* c->reply
            sent |-> 0,                      \* c->sentlen
            bytes |-> 0]                     \* c->reply_bytes
  /\ kvalue = [k \in Keys |-> None] /\ owed = <<>> /\ logged = <<>>

StringsNext ==
  \/ /\ Room
     /\ \/ \E k \in Keys, v \in Values, lru \in BOOLEAN, slow \in Slow :
             \/ \E flag \in {"", "nx", "xx"} : SetCommand(k, v, flag, lru, slow)
             \/ AppendCommand(k, v, lru, slow)
        \/ \E v \in Values, nx, lru \in BOOLEAN : MsetCommand(v, nx, lru)
        \/ \E k \in Keys, v \in Values, lru \in BOOLEAN : GetsetCommand(k, v, lru)
        \/ \E k \in Keys, v \in Values \cup {<<>>}, offset \in {0, 1}, slow \in Slow :
             SetrangeCommand(k, offset, v, slow)
        \/ \E k \in Keys, i \in {1, -1} : IncrDecrCommand(k, i)
        \/ \E k \in Keys, slow \in Slow : IncrbyfloatCommand(k, 1, slow)
        \/ \E k \in Keys : GetCommand(k)
        \/ MultiReply
  \/ \E k \in Keys : DelCommand(k)
  \/ SlowlogReset
  \/ \E n \in 1 .. MaxOwed : SendReplyToClient(n)

StringsSpec == StringsInit /\ [][StringsNext]_stringvars

Pending == SubSeq(srv.buf, srv.sent + 1, Len(srv.buf))
           \o LET all == FlattenSeq([i \in DOMAIN srv.list |-> TextOf(srv, srv.list[i])])
              IN  IF srv.buf = <<>> THEN SubSeq(all, srv.sent + 1, Len(all)) ELSE all

Holders(i) == Cardinality({k \in Keys : srv.db[k] = i}) + Cardinality({j \in DOMAIN srv.list : srv.list[j] = i})
              + Cardinality({j \in DOMAIN srv.log : srv.log[j] = i}) + (IF Permanent(i) THEN 1 ELSE 0)

\* However objects are shared, each key has the text its commands mean, what is
\* left to send is what was replied, also when the key has changed since, and
\* what the slow log holds is what it recorded; every object has as many holders
\* as its count says and at least one, and reply_bytes is the size of the list.
StringsRepresent ==
  /\ \A k \in Keys : IF Exists(k) THEN TextAt(k) = kvalue[k] ELSE kvalue[k] = None
  /\ Pending = owed
  /\ [i \in DOMAIN srv.log |-> TextOf(srv, srv.log[i])] = logged
  /\ \A i \in DOMAIN srv.heap : srv.heap[i].ref = Holders(i) /\ Holders(i) > 0
  /\ srv.bytes = FoldLeft(LAMBDA n, i : n + Size(TextOf(srv, i)), 0, srv.list)
  /\ \A i \in DOMAIN srv.list : srv.heap[srv.list[i]].enc = "RAW"
  /\ \A k, j \in Keys : Exists(k) /\ Exists(j) =>
       (Equal(srv.heap[srv.db[k]], srv.heap[srv.db[j]]) <=> kvalue[k] = kvalue[j])
  /\ \A k \in Keys : Exists(k) => \A a, b \in -3 .. 3 :
       LET t == kvalue[k]
           Pos(i) == IF i < 0 THEN Len(t) + i ELSE i
           lo == IF Pos(a) < 0 THEN 0 ELSE Pos(a)
           hi == IF Pos(b) < 0 THEN 0 ELSE Pos(b)
       IN  Getrange(TextAt(k), a, b) = SubSeq(t, lo + 1, IF hi >= Len(t) THEN Len(t) ELSE hi + 1)
=============================================================================
