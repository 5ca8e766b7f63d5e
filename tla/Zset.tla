-------------------------------- MODULE Zset --------------------------------
(***************************************************************************)
(* Sorted sets (t_zset.c).  A sorted set is a ziplist of members and       *)
(* scores, or a skip list together with a dictionary.  The list is         *)
(* modelled link by link: forward pointers and spans at every level,       *)
(* backward pointers, tail, level and length.                              *)
(*                                                                         *)
(* A member is a number, in the order of compareStringObjects.  A node is  *)
(* named by its member.  Level i of the code is level i + 1 here.          *)
(***************************************************************************)
EXTENDS Integers, Sequences, FiniteSets, SequencesExt, TLC

CONSTANTS Members,     \* 1 .. n
          Long,        \* the members longer than zset-max-ziplist-value
          MaxEntries,  \* zset-max-ziplist-entries
          MaxLevel,    \* ZSKIPLIST_MAXLEVEL
          Scores,      \* bound: the scores a member may get
          Adds,        \* the sequences of pairs given to ZADD
          Incrs,       \* the increments of ZINCRBY
          Inf,         \* +inf, -Inf being -inf
          Heights,     \* bound: the levels zslRandomLevel gives the members
          Weights,     \* the weights of the key in ZUNIONSTORE and ZINTERSTORE
          Others,      \* their second sources, with weights
          LexBounds,   \* bound: the members, Low and High that bound ranges
          Ranks,       \* bound: the positions that bound ranges
          MinString, MaxString  \* the contents of shared.minstring and maxstring

VARIABLES zset,   \* the key's object, or NoObject
          zvalue, \* history: the score of each member, by the commands' meaning
          zseen   \* the value when the key was last counted and signalled

zvars == <<zset, zvalue, zseen>>

NoObject == [enc |-> "none"]
Header   == 0
Nil      == -1
Low      == 0      \* "-" and "+" as bounds of a lexicographical range
High     == 99
All      == 1000   \* above any rank

\* The sum of two doubles; NaN for the sum of opposite infinities.
NaN == 5000
Plus(a, b) ==
  CASE {a, b} = {Inf, -Inf} -> NaN
    [] a \in {Inf, -Inf} -> a
    [] b \in {Inf, -Inf} -> b
    [] OTHER -> a + b
Times(a, b) ==
  CASE 0 \in {a, b} -> IF {a, b} \cap {Inf, -Inf} # {} THEN NaN ELSE 0
    [] {a, b} \cap {Inf, -Inf} # {} -> IF (a < 0) = (b < 0) THEN Inf ELSE -Inf
    [] OTHER -> a * b

----------------------------------------------------------------------------
(* The skip list.                                                          *)

NewNode(l, s) == [score |-> s, fwd |-> [i \in 1 .. l |-> Nil],
                  span |-> [i \in 1 .. l |-> 0], back |-> Nil]
EmptyList == [level |-> 1, length |-> 0, tail |-> Nil,
              node |-> [x \in {Header} |-> NewNode(MaxLevel, 0)]]

\* The same sequence; TLC computes it once.
Tuple(q) == <<>> \o q

Nodes(sl)  == DOMAIN sl.node \ {Header}
First(sl)  == sl.node[Header].fwd[1]
Less(sl, s, e) ==
  {n \in Nodes(sl) : sl.node[n].score < s \/ (sl.node[n].score = s /\ n < e)}

\* The loop all the searches share: on one level, go on while the next node is
\* in P and its rank, by the spans, is at most lim.
RECURSIVE Walk(_, _, _, _, _)
Walk(sl, p, i, P, lim) ==
  LET f == sl.node[p.x].fwd[i]
      r == p.rank + sl.node[p.x].span[i]
  IN  IF f # Nil /\ f \in P /\ r <= lim THEN Walk(sl, [x |-> f, rank |-> r], i, P, lim)
      ELSE p

\* Where the descent from the top stops on level i: update[i] and rank[i].
RECURSIVE Descend(_, _, _, _)
Descend(sl, i, P, lim) ==
  Walk(sl, IF i = sl.level THEN [x |-> Header, rank |-> 0] ELSE Descend(sl, i + 1, P, lim),
       i, P, lim)

Update(sl, P, lim) == Tuple([i \in 1 .. sl.level |-> Descend(sl, i, P, lim).x])

\* Mutant: the levels above a new node keep their spans.
SpanKept(span) == span

\* The span of a pointer that passes over a new node.
SpanOver(span) == span + 1

\* zslInsert: lvl is what zslRandomLevel returned.
Insert(sl, e, s, lvl) ==
  LET top   == IF lvl > sl.level THEN lvl ELSE sl.level
      upd   == Tuple([i \in 1 .. top |-> IF i > sl.level THEN [x |-> Header, rank |-> 0]
                                   ELSE Descend(sl, i, Less(sl, s, e), All)])
      span(i)   == IF i > sl.level THEN sl.length ELSE sl.node[upd[i].x].span[i]
      behind(i) == upd[1].rank - upd[i].rank
      new   == [score |-> s,
                fwd   |-> Tuple([i \in 1 .. lvl |-> sl.node[upd[i].x].fwd[i]]),
                span  |-> Tuple([i \in 1 .. lvl |-> span(i) - behind(i)]),
                back  |-> IF upd[1].x = Header THEN Nil ELSE upd[1].x]
      linked(x) ==
        LET at == {i \in 1 .. top : upd[i].x = x}
            n  == sl.node[x]
        IN  [n EXCEPT !.fwd  = Tuple([i \in DOMAIN n.fwd |-> IF i \in at /\ i <= lvl THEN e ELSE n.fwd[i]]),
                      !.span = Tuple([i \in DOMAIN n.span |->
                                  CASE i \in at /\ i <= lvl -> behind(i) + 1
                                    [] i \in at /\ i > lvl -> SpanOver(n.span[i])
                                    [] OTHER -> n.span[i]]),
                      !.back = IF new.fwd[1] = x THEN e ELSE @]
  IN  [level |-> top, length |-> sl.length + 1,
       tail  |-> IF new.fwd[1] = Nil THEN e ELSE sl.tail,
       node  |-> (e :> new) @@ [x \in DOMAIN sl.node |-> linked(x)]]

\* zslDeleteNode.  The header's spans above the level are never read: 0 here.
DeleteNode(sl, x, upd) ==
  LET d == sl.node[x]
      unlinked(y) ==
        LET at == {i \in 1 .. sl.level : upd[i] = y}
            n  == sl.node[y]
        IN  [n EXCEPT !.fwd  = Tuple([i \in DOMAIN n.fwd |->
                                  IF i \in at /\ n.fwd[i] = x THEN d.fwd[i] ELSE n.fwd[i]]),
                      !.span = Tuple([i \in DOMAIN n.span |->
                                  CASE i \in at /\ n.fwd[i] = x -> n.span[i] + d.span[i] - 1
                                    [] i \in at /\ n.fwd[i] # x -> n.span[i] - 1
                                    [] OTHER -> n.span[i]]),
                      !.back = IF d.fwd[1] = y THEN d.back ELSE @]
      node == [y \in DOMAIN sl.node \ {x} |-> unlinked(y)]
      used == {1} \cup {i \in 1 .. sl.level : node[Header].fwd[i] # Nil}
      top  == CHOOSE i \in used : \A j \in used : j <= i
  IN  [level |-> top, length |-> sl.length - 1,
       tail |-> IF d.fwd[1] = Nil THEN d.back ELSE sl.tail,
       node |-> [node EXCEPT ![Header].span = [i \in 1 .. MaxLevel |-> IF i > top THEN 0 ELSE @[i]]]]

\* zslDelete, of a member that is there with that score.
Delete(sl, s, e) ==
  LET upd == Update(sl, Less(sl, s, e), All)
      x   == sl.node[upd[1]].fwd[1]
  IN  IF x = e /\ sl.node[x].score = s THEN DeleteNode(sl, x, upd) ELSE sl

\* The loop the three range deletions share: at most n nodes, while in L.
RECURSIVE DeleteWhile(_, _, _, _, _)
DeleteWhile(sl, x, upd, L, n) ==
  IF x = Nil \/ n = 0 \/ x \notin L THEN sl
  ELSE DeleteWhile(DeleteNode(sl, x, upd), sl.node[x].fwd[1], upd, L, n - 1)

DeleteBetween(sl, G, L) ==
  LET upd == Update(sl, Nodes(sl) \ G, All)
  IN  DeleteWhile(sl, sl.node[upd[1]].fwd[1], upd, L, All)

\* zslDeleteRangeByRank: ranks from 1.
DeleteByRank(sl, start, end) ==
  LET upd == Update(sl, Nodes(sl), start - 1)
      traversed == Descend(sl, 1, Nodes(sl), start - 1).rank + 1
  IN  DeleteWhile(sl, sl.node[upd[1]].fwd[1], upd, Nodes(sl),
                  IF end < traversed THEN 0 ELSE end - traversed + 1)

\* zslGetRank: the descent stops at the first level that reaches the member.
GetRank(sl, s, e) ==
  LET P  == Less(sl, s, e) \cup {e}
      at == {i \in 1 .. sl.level : Descend(sl, i, P, All).x = e}
  IN  IF at = {} THEN 0 ELSE Descend(sl, CHOOSE i \in at : \A j \in at : j <= i, P, All).rank

\* zslGetElementByRank
ElementByRank(sl, rank) ==
  LET at == {i \in 1 .. sl.level : Descend(sl, i, Nodes(sl), rank).rank = rank}
  IN  IF at = {} THEN Nil
      ELSE Descend(sl, CHOOSE i \in at : \A j \in at : j <= i, Nodes(sl), rank).x

RECURSIVE Forward(_, _)
Forward(sl, x) == IF x = Nil THEN <<>> ELSE <<x>> \o Forward(sl, sl.node[x].fwd[1])

RECURSIVE Backward(_, _)
Backward(sl, x) == IF x = Nil THEN <<>> ELSE <<x>> \o Backward(sl, sl.node[x].back)

----------------------------------------------------------------------------
(* The ziplist, and the two encodings.                                     *)

Pair(e, s) == [ele |-> e, score |-> s]

Ziplist(q)      == [enc |-> "ziplist", zl |-> q]
Skiplist(sl, d) == [enc |-> "skiplist", sl |-> sl, dict |-> d]

\* zzlInsert: before the first pair that sorts after it.
ZzlInsert(zl, e, s) ==
  LET after == {i \in DOMAIN zl : zl[i].score > s \/ (zl[i].score = s /\ zl[i].ele > e)}
      at    == IF after = {} THEN Len(zl) + 1 ELSE CHOOSE i \in after : \A j \in after : i <= j
  IN  InsertAt(zl, at, Pair(e, s))

ZzlFind(zl, e)   == {i \in DOMAIN zl : zl[i].ele = e}
ZzlDelete(zl, e) == SelectSeq(zl, LAMBDA p : p.ele # e)

Length(z) ==
  CASE z.enc = "none" -> 0 [] z.enc = "ziplist" -> Len(z.zl) [] OTHER -> z.sl.length

\* The members in the order of an iteration, and the score found with each.
Order(z) ==
  CASE z.enc = "none" -> <<>>
    [] z.enc = "ziplist" -> [i \in DOMAIN z.zl |-> z.zl[i].ele]
    [] OTHER -> Forward(z.sl, First(z.sl))
ScoreAt(z, e) ==
  IF z.enc = "ziplist" THEN z.zl[CHOOSE i \in ZzlFind(z.zl, e) : TRUE].score
  ELSE z.sl.node[e].score

\* Insert q's pairs one by one, at the levels lv.
InsertAll(sl, q, lv) == FoldLeft(LAMBDA l, p : Insert(l, p.ele, p.score, lv[p.ele]), sl, q)

DictOf(q) == [e \in {q[i].ele : i \in DOMAIN q} |->
                q[CHOOSE i \in DOMAIN q : q[i].ele = e].score]

ToSkiplist(z, lv) ==
  IF z.enc = "skiplist" THEN z
  ELSE Skiplist(InsertAll(EmptyList, z.zl, lv), DictOf(z.zl))
ToZiplist(z) ==
  Ziplist([i \in 1 .. Length(z) |-> Pair(Order(z)[i], ScoreAt(z, Order(z)[i]))])

----------------------------------------------------------------------------
(* ZADD, ZINCRBY, ZREM.                                                    *)

\* lookupKeyWrite, or a new object of the encoding the first member allows.
ForWrite(e) ==
  CASE zset # NoObject -> zset
    [] zset = NoObject /\ (MaxEntries = 0 \/ e \in Long) -> Skiplist(EmptyList, <<>>)
    [] OTHER -> Ziplist(<<>>)

Has(z, e) == IF z.enc = "ziplist" THEN ZzlFind(z.zl, e) # {} ELSE e \in DOMAIN z.dict
CurScore(z, e) == IF z.enc = "ziplist" THEN ScoreAt(z, e) ELSE z.dict[e]

\* The entry of e leads to the score s.
Pointed(d, e, s) == [x \in DOMAIN d \cup {e} |-> IF x = e THEN s ELSE d[x]]

\* One pair of zaddGenericCommand, with a new score or a new member.
Put(z, e, s, lv) ==
  IF z.enc = "ziplist"
  THEN IF Has(z, e) THEN Ziplist(ZzlInsert(ZzlDelete(z.zl, e), e, s))
       ELSE LET n == Ziplist(ZzlInsert(z.zl, e, s))
            IN  IF Len(n.zl) > MaxEntries \/ e \in Long THEN ToSkiplist(n, lv) ELSE n
  ELSE Skiplist(Insert(IF Has(z, e) THEN Delete(z.sl, z.dict[e], e) ELSE z.sl, e, s, lv[e]),
                Pointed(z.dict, e, s))

Changes(z, e, s) == ~Has(z, e) \/ CurScore(z, e) # s

Set(v, e, s) == [x \in DOMAIN v \cup {e} |-> IF x = e THEN s ELSE v[x]]

\* server.dirty += n, and signalModifiedKey.
Notice(n, signal) == zseen' = IF n > 0 /\ signal THEN zvalue' ELSE zseen

\* One pair after the other; a member that has its score is left alone.
Zadd(pairs, lv) ==
  LET Added(st, p) ==
        IF Changes(st.z, p.ele, p.score)
        THEN [z |-> Put(st.z, p.ele, p.score, lv), n |-> st.n + 1] ELSE st
      after == FoldLeft(Added, [z |-> ForWrite(pairs[1].ele), n |-> 0], pairs)
  IN  /\ zset' = after.z
      /\ zvalue' = FoldLeft(LAMBDA v, p : Set(v, p.ele, p.score), zvalue, pairs)
      /\ Notice(after.n, after.n > 0)

Zincrby(e, incr, lv) ==
  LET z0 == ForWrite(e)
      s  == IF Has(z0, e) THEN Plus(CurScore(z0, e), incr) ELSE incr
  IN  /\ s \in Scores \cup {NaN}
      /\ zset' = IF s # NaN /\ Changes(z0, e, s) THEN Put(z0, e, s, lv) ELSE zset
      /\ zvalue' = IF e \notin DOMAIN zvalue THEN Set(zvalue, e, incr)
                   ELSE IF Plus(zvalue[e], incr) = NaN THEN zvalue
                        ELSE Set(zvalue, e, Plus(zvalue[e], incr))
      /\ LET n == IF s # NaN /\ Changes(z0, e, s) THEN 1 ELSE 0 IN Notice(n, n > 0)

RemoveMember(z, e) ==
  CASE ~Has(z, e) -> z
    [] Has(z, e) /\ z.enc = "ziplist" -> Ziplist(ZzlDelete(z.zl, e))
    [] OTHER -> Skiplist(Delete(z.sl, z.dict[e], e), [x \in DOMAIN z.dict \ {e} |-> z.dict[x]])

\* dbDelete of an object that became empty: by the dictionary, if it has one.
Kept(z) ==
  IF (IF z.enc = "ziplist" THEN z.zl = <<>> ELSE DOMAIN z.dict = {}) THEN NoObject ELSE z

\* The command stops at the member that leaves nothing.
Zrem(e, f) ==
  /\ zset # NoObject
  /\ LET z1 == Kept(RemoveMember(zset, e))
         z2 == IF z1 = NoObject THEN z1 ELSE Kept(RemoveMember(z1, f))
         n  == Length(zset) - Length(z2)
     IN  /\ zset' = z2
         /\ zvalue' = [x \in DOMAIN zvalue \ {e, f} |-> zvalue[x]]
         /\ Notice(n, n > 0)

----------------------------------------------------------------------------
(* Ranges.                                                                 *)

\* A range over z: the members not below its minimum, those not above its
\* maximum, and whether the bounds alone make it empty.
ScoreRange(z, r) ==
  LET M == Range(Order(z))
  IN  [ge |-> {e \in M : IF r.minex THEN ScoreAt(z, e) > r.min ELSE ScoreAt(z, e) >= r.min},
       le |-> {e \in M : IF r.maxex THEN ScoreAt(z, e) < r.max ELSE ScoreAt(z, e) <= r.max},
       empty |-> r.min > r.max \/ (r.min = r.max /\ (r.minex \/ r.maxex))]

Content(b) == CASE b = Low -> MinString [] b = High -> MaxString [] OTHER -> b

\* "> 1" is in the code: bounds that are in the wrong order by one are let
\* through to the tests that follow.
LexRange(z, r) ==
  LET M == Range(Order(z))
  IN  [ge |-> {e \in M : IF r.minex THEN e > r.min ELSE e >= r.min},
       le |-> {e \in M : IF r.maxex THEN e < r.max ELSE e <= r.max},
       empty |-> r.min - r.max > 1 \/ (Content(r.min) = Content(r.max) /\ (r.minex \/ r.maxex))]

FirstOf(z) == IF z.enc = "ziplist" THEN (IF z.zl = <<>> THEN Nil ELSE Head(z.zl).ele) ELSE First(z.sl)
LastOf(z)  == IF z.enc = "ziplist" THEN (IF z.zl = <<>> THEN Nil ELSE z.zl[Len(z.zl)].ele) ELSE z.sl.tail

IsInRange(z, R) == ~R.empty /\ LastOf(z) \in R.ge /\ FirstOf(z) \in R.le

FirstInRange(z, R) ==
  LET ix == {i \in DOMAIN Order(z) : Order(z)[i] \in R.ge}
      x  == IF z.enc = "skiplist"
            THEN z.sl.node[Descend(z.sl, 1, Nodes(z.sl) \ R.ge, All).x].fwd[1]
            ELSE IF ix = {} THEN Nil ELSE Order(z)[CHOOSE i \in ix : \A j \in ix : i <= j]
  IN  IF IsInRange(z, R) /\ x \in R.le THEN x ELSE Nil

LastInRange(z, R) ==
  LET ix == {i \in DOMAIN Order(z) : Order(z)[i] \in R.le}
      x  == IF z.enc = "skiplist" THEN Descend(z.sl, 1, R.le, All).x
            ELSE IF ix = {} THEN Nil ELSE Order(z)[CHOOSE i \in ix : \A j \in ix : j <= i]
  IN  IF IsInRange(z, R) /\ x \in R.ge THEN x ELSE Nil

\* What is left after ZREMRANGEBYSCORE or ZREMRANGEBYLEX.
WithoutRange(z, R) ==
  IF z.enc = "skiplist"
  THEN LET sl == DeleteBetween(z.sl, R.ge, R.le)
       IN  Skiplist(sl, [e \in DOMAIN z.dict \cap DOMAIN sl.node |-> z.dict[e]])
  ELSE IF FirstInRange(z, R) = Nil THEN z
       ELSE Ziplist(SelectSeq(z.zl, LAMBDA p : ~(p.ele \in R.ge /\ p.ele \in R.le)))

\* Mutant: the end of the range is not brought back inside.
RankRangeUnclipped(z, start, end) ==
  LET n == Length(z)
      a == IF start < 0 THEN n + start ELSE start
  IN  [first |-> IF a < 0 THEN 0 ELSE a, last |-> end]

\* The start and the end of ZRANGE and ZREMRANGEBYRANK.
RankRange(z, start, end) ==
  LET n == Length(z)
      a == IF start < 0 THEN n + start ELSE start
      b == IF end < 0 THEN n + end ELSE end
  IN  [first |-> IF a < 0 THEN 0 ELSE a, last |-> IF b >= n THEN n - 1 ELSE b]

WithoutRanks(z, R) ==
  CASE R.first > R.last \/ R.first >= Length(z) -> z
    [] z.enc = "ziplist" -> Ziplist(SubSeq(z.zl, 1, R.first) \o SubSeq(z.zl, R.last + 2, Len(z.zl)))
    [] OTHER -> LET sl == DeleteByRank(z.sl, R.first + 1, R.last + 1)
                IN  Skiplist(sl, [e \in DOMAIN z.dict \cap DOMAIN sl.node |-> z.dict[e]])

----------------------------------------------------------------------------
(* The reference: a sorted set is a function from members to scores.       *)

Sorted(v) ==
  LET Before(e) == {f \in DOMAIN v : v[f] < v[e] \/ (v[f] = v[e] /\ f < e)}
  IN  [i \in 1 .. Cardinality(DOMAIN v) |->
         CHOOSE e \in DOMAIN v : Cardinality(Before(e)) = i - 1]
InScores(v, r) ==
  {e \in DOMAIN v : /\ IF r.minex THEN v[e] > r.min ELSE v[e] >= r.min
                    /\ IF r.maxex THEN v[e] < r.max ELSE v[e] <= r.max}
InLex(v, r) ==
  {e \in DOMAIN v : /\ IF r.minex THEN e > r.min ELSE e >= r.min
                    /\ IF r.maxex THEN e < r.max ELSE e <= r.max}
\* The positions start .. end, from the end if negative.
InRanks(v, start, end) ==
  LET n == Cardinality(DOMAIN v)
      At(i) == IF i < 0 THEN n + i ELSE i
  IN  {Sorted(v)[i] : i \in {j \in 1 .. n : At(start) < j /\ j <= At(end) + 1}}
Without(v, S) == [e \in DOMAIN v \ S |-> v[e]]

SameScores(v) == \A e, f \in DOMAIN v : v[e] = v[f]

\* zremrangeGenericCommand
Zremrange(z, meant) ==
  /\ zset # NoObject
  /\ zset' = Kept(z)
  /\ zvalue' = Without(zvalue, meant)
  /\ LET n == Length(zset) - Length(zset')
     IN  Notice(n, n > 0)

----------------------------------------------------------------------------
(* ZUNIONSTORE and ZINTERSTORE.                                            *)

\* A source: a sorted set, or a plain set whose members all have score 1.
Items(src) == IF src.type = "set"
              THEN LET q == Sorted([e \in src.members |-> 1])
                   IN  [i \in DOMAIN q |-> Pair(q[i], 1)]
              ELSE [i \in 1 .. Length(src.z) |-> Pair(Order(src.z)[i], ScoreAt(src.z, Order(src.z)[i]))]
Find(src, e)   == IF src.type = "set" THEN e \in src.members
                  ELSE src.z # NoObject /\ Has(src.z, e)
Value(src, e)  == IF src.type = "set" THEN 1 ELSE CurScore(src.z, e)

NotNaN(x) == IF x = NaN THEN 0 ELSE x
Aggregate(agg, a, b) ==
  CASE agg = "sum" -> NotNaN(Plus(a, b))
    [] agg = "min" -> IF b < a THEN b ELSE a
    [] agg = "max" -> IF b > a THEN b ELSE a

\* The sources in the order of their cardinalities.
BySize(s, t) == IF Len(Items(s)) <= Len(Items(t)) THEN <<s, t>> ELSE <<t, s>>

InterPairs(src, agg) ==
  LET both == SelectSeq(Items(src[1]), LAMBDA p : Find(src[2], p.ele))
  IN  [i \in DOMAIN both |->
         LET e == both[i].ele
         IN  Pair(e, Aggregate(agg, NotNaN(Times(src[1].weight, both[i].score)),
                                    Times(src[2].weight, Value(src[2], e))))]

\* The accumulator: one source after the other.
Accumulate(acc, src, agg) ==
  FoldLeft(LAMBDA a, p :
             LET s == NotNaN(Times(src.weight, p.score))
             IN  Set(a, p.ele, IF p.ele \in DOMAIN a THEN Aggregate(agg, a[p.ele], s) ELSE s),
           acc, Items(src))

UnionPairs(src, agg) ==
  LET acc == Accumulate(Accumulate(<<>>, src[1], agg), src[2], agg)
      ele == Sorted([e \in DOMAIN acc |-> 1])
  IN  [i \in DOMAIN ele |-> Pair(ele[i], acc[ele[i]])]

Stored(q, lv) ==
  LET z == Skiplist(InsertAll(EmptyList, q, lv), DictOf(q))
  IN  CASE q = <<>> -> NoObject
        [] Len(q) <= MaxEntries /\ (\A i \in DOMAIN q : q[i].ele \notin Long) -> ToZiplist(z)
        [] OTHER -> z

\* The meaning of the two commands.
Weighted(src, e) == NotNaN(Times(src.weight, Value(src, e)))
Meant(s, t, op, agg) ==
  LET in(x) == {e \in Members : Find(x, e)}
  IN  [e \in IF op = "inter" THEN in(s) \cap in(t) ELSE in(s) \cup in(t) |->
         CASE ~Find(t, e) -> Weighted(s, e) [] ~Find(s, e) -> Weighted(t, e)
           [] OTHER -> Aggregate(agg, Weighted(s, e), Weighted(t, e))]

AsSource(z, w) == [type |-> "zset", z |-> z, weight |-> w]
ValueAsSource(w) == AsSource(IF zvalue = <<>> THEN NoObject
  ELSE Skiplist(EmptyList, zvalue), w)

\* Into one of its own sources; a NaN that a weight makes of an infinity is
\* only excluded on the first of intersected sources.
ZunionInter(t, w, op, agg, lv) ==
  LET src == BySize(AsSource(zset, w), t)
      q   == IF op = "inter" THEN InterPairs(src, agg) ELSE UnionPairs(src, agg)
      n   == (IF zset # NoObject THEN 1 ELSE 0) + (IF q # <<>> THEN 1 ELSE 0)
  IN  /\ \A i \in DOMAIN q : q[i].score \in Scores
      /\ zset' = Stored(q, lv)
      /\ zvalue' = Meant(ValueAsSource(w), t, op, agg)
      /\ Notice(n, n > 0)

----------------------------------------------------------------------------
(* Reads.                                                                  *)

RECURSIVE While(_, _, _)
While(q, S, n) ==
  IF q = <<>> \/ n = 0 \/ Head(q) \notin S THEN <<>> ELSE <<Head(q)>> \o While(Tail(q), S, n - 1)

\* From member x on, in one direction or the other.
Onward(z, x, rev) ==
  CASE x = Nil -> <<>>
    [] x # Nil /\ z.enc = "skiplist" -> IF rev THEN Backward(z.sl, x) ELSE Forward(z.sl, x)
    [] OTHER -> LET i == CHOOSE j \in DOMAIN z.zl : z.zl[j].ele = x
                IN  IF rev THEN Reverse(SubSeq(Order(z), 1, i)) ELSE SubSeq(Order(z), i, Len(z.zl))

\* LIMIT offset limit; "while (ln && offset--)" runs to the end if negative.
Limited(q, offset, limit, S) ==
  IF offset < 0 THEN <<>> ELSE While(SubSeq(q, offset + 1, Len(q)), S, limit)

ZrangeByScore(z, r, rev, offset, limit) ==
  LET R == ScoreRange(z, r)
  IN  Limited(Onward(z, IF rev THEN LastInRange(z, R) ELSE FirstInRange(z, R), rev),
              offset, limit, IF rev THEN R.ge ELSE R.le)

ZrangeByLex(z, r, rev, offset, limit) ==
  LET R == LexRange(z, r)
  IN  Limited(Onward(z, IF rev THEN LastInRange(z, R) ELSE FirstInRange(z, R), rev),
              offset, limit, IF rev THEN R.ge ELSE R.le)

\* The skip list counts by the ranks of the first and the last member.
Counted(z, R) ==
  LET f == FirstInRange(z, R)
      l == LastInRange(z, R)
      Rank(e) == GetRank(z.sl, ScoreAt(z, e), e)
  IN  CASE f = Nil -> 0
        [] f # Nil /\ z.enc = "ziplist" -> Len(While(Onward(z, f, FALSE), R.le, All))
        [] OTHER -> z.sl.length - (Rank(f) - 1) - (IF l = Nil THEN 0 ELSE z.sl.length - Rank(l))
Zcount(z, r)    == Counted(z, ScoreRange(z, r))
Zlexcount(z, r) == Counted(z, LexRange(z, r))

Zrange(z, start, end, rev) ==
  LET R == RankRange(z, start, end)
      x == CASE z.enc = "ziplist" -> Order(z)[IF rev THEN Length(z) - R.first ELSE R.first + 1]
             [] z.enc = "skiplist" /\ R.first = 0 -> IF rev THEN z.sl.tail ELSE First(z.sl)
             [] OTHER -> ElementByRank(z.sl, IF rev THEN Length(z) - R.first ELSE R.first + 1)
  IN  IF R.first > R.last \/ R.first >= Length(z) THEN <<>>
      ELSE SubSeq(Onward(z, x, rev), 1, R.last - R.first + 1)

Zrank(z, e, rev) ==
  LET i == IF z.enc = "ziplist" THEN CHOOSE j \in DOMAIN z.zl : z.zl[j].ele = e
           ELSE GetRank(z.sl, z.dict[e], e)
  IN  IF rev THEN Length(z) - i ELSE i - 1

----------------------------------------------------------------------------
Specs == [min : Scores, max : Scores, minex : BOOLEAN, maxex : BOOLEAN]
LexSpecs == {r \in [min : LexBounds, max : LexBounds, minex : BOOLEAN, maxex : BOOLEAN] :
               (r.min \in {Low, High} => ~r.minex) /\ (r.max \in {Low, High} => ~r.maxex)}

ZInit == zset = NoObject /\ zvalue = <<>> /\ zseen = <<>>

ZNext ==
  \/ \E lv \in Heights :
       \/ \E pairs \in Adds : Zadd(pairs, lv)
       \/ \E e \in Members, i \in Incrs : Zincrby(e, i, lv)
       \/ \E t \in Others, w \in Weights, op \in {"union", "inter"}, agg \in {"sum", "min", "max"} :
            ZunionInter(t, w, op, agg, lv)
  \/ \E e, f \in Members : Zrem(e, f)
  \/ \E r \in Specs : Zremrange(WithoutRange(zset, ScoreRange(zset, r)), InScores(zvalue, r))
  \/ \E r \in LexSpecs : SameScores(zvalue) /\ Zremrange(WithoutRange(zset, LexRange(zset, r)), InLex(zvalue, r))
  \/ \E a, b \in Ranks : Zremrange(WithoutRanks(zset, RankRange(zset, a, b)), InRanks(zvalue, a, b))

ZSpec == ZInit /\ [][ZNext]_zvars

----------------------------------------------------------------------------
(* Properties.                                                             *)

\* Every pointer and every span of the skip list says the same as the order
\* of the members: from each node the pointer of a level leads to the next node
\* that is high enough, and the span is the number of ranks to it or to the end.
WellFormed(sl, v) ==
  LET q == Sorted(v)
      Rank(x) == IF x = Header THEN 0 ELSE CHOOSE i \in DOMAIN q : q[i] = x
      Height(x) == Len(sl.node[x].fwd)
  IN  /\ Nodes(sl) = DOMAIN v /\ sl.length = Len(q)
      /\ \A x \in DOMAIN v : sl.node[x].score = v[x]
      /\ sl.tail = IF q = <<>> THEN Nil ELSE q[Len(q)]
      /\ \A x \in DOMAIN v : sl.node[x].back = IF Rank(x) = 1 THEN Nil ELSE q[Rank(x) - 1]
      /\ sl.level = 1 \/ sl.node[Header].fwd[sl.level] # Nil
      /\ \A x \in DOMAIN sl.node : \A i \in 1 .. Height(x) : i <= sl.level =>
           LET later == {y \in DOMAIN v : Rank(y) > Rank(x) /\ Height(y) >= i}
           IN  IF later = {}
               THEN sl.node[x].fwd[i] = Nil /\ sl.node[x].span[i] = Len(q) - Rank(x)
               ELSE LET y == CHOOSE y \in later : \A z \in later : Rank(y) <= Rank(z)
                    IN  sl.node[x].fwd[i] = y /\ sl.node[x].span[i] = Rank(y) - Rank(x)

\* After any sequence of commands the object holds the value that the commands
\* mean, in either encoding: skip list, dictionary and ziplist agree with it.
ZsetRepresents ==
  CASE zset = NoObject -> zvalue = <<>>
    [] zset.enc = "ziplist" ->
         /\ Len(zset.zl) > 0
         /\ zset.zl = [i \in 1 .. Cardinality(DOMAIN zvalue) |->
                         Pair(Sorted(zvalue)[i], zvalue[Sorted(zvalue)[i]])]
    [] OTHER -> zset.dict = zvalue /\ zvalue # <<>> /\ WellFormed(zset.sl, zvalue)

\* The sequence a range query should return.
Wanted(S, rev, offset, limit) ==
  LET q == SelectSeq(Sorted(zvalue), LAMBDA e : e \in S)
      d == IF rev THEN Reverse(q) ELSE q
  IN  CASE offset < 0 -> <<>>
        [] offset >= 0 /\ limit < 0 -> SubSeq(d, offset + 1, Len(d))
        [] OTHER -> SubSeq(d, offset + 1, IF offset + limit > Len(d) THEN Len(d) ELSE offset + limit)

\* Every query answers from the object what the value says: ranges by score,
\* by member (when the scores are equal) and by rank, in both directions and with
\* LIMIT, counts, ranks and scores.
ZsetAnswers ==
  zset # NoObject => \A rev \in BOOLEAN :
    /\ \A r \in Specs : \A o \in {-1, 0, 1}, l \in {-1, 1} :
         ZrangeByScore(zset, r, rev, o, l) = Wanted(InScores(zvalue, r), rev, o, l)
    /\ \A r \in Specs : Zcount(zset, r) = Cardinality(InScores(zvalue, r))
    /\ SameScores(zvalue) => \A r \in LexSpecs :
         /\ ZrangeByLex(zset, r, rev, 0, -1) = Wanted(InLex(zvalue, r), rev, 0, -1)
         /\ Zlexcount(zset, r) = Cardinality(InLex(zvalue, r))
    /\ \A a, b \in Ranks :
         Zrange(zset, a, b, rev) =
           LET q == Sorted(zvalue)
               d == IF rev THEN Reverse(q) ELSE q
               n == Len(q)
               At(i) == IF i < 0 THEN n + i ELSE i
           IN  SelectSeq(d, LAMBDA e : \E i \in DOMAIN d : d[i] = e /\ At(a) < i /\ i <= At(b) + 1)
    /\ \A e \in DOMAIN zvalue :
         /\ CurScore(zset, e) = zvalue[e]
         /\ IF rev THEN Reverse(Sorted(zvalue))[Zrank(zset, e, rev) + 1] = e
            ELSE Sorted(zvalue)[Zrank(zset, e, rev) + 1] = e

\* A command that changes the value counts it in server.dirty and signals the
\* key, or WATCH, the slaves and the AOF would not know.
ZsetSeen == zseen = zvalue
=============================================================================
