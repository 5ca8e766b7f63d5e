------------------------------- MODULE Ziplist -------------------------------
(***************************************************************************)
(* ziplist.c.  A ziplist is one block of memory: total size, offset of the *)
(* last entry, number of entries, and the entries, each of which begins    *)
(* with the length of the one before in one byte or in five.  Growing that *)
(* field makes the entry longer, and the next one may have to follow.      *)
(*                                                                         *)
(* An entry is [psize, plen, val]: the width and the content of the field, *)
(* and the value.  Offsets are bytes from the start of the block.          *)
(***************************************************************************)
EXTENDS Integers, Sequences, FiniteSets, SequencesExt

CONSTANTS Payloads,   \* values: [int, len], the length of an integer in bytes
          CountMax,   \* UINT16_MAX
          MaxItems    \* bound: entries in the list

VARIABLES ziplist,  \* the block
          items,    \* history: the values, by the calls' meaning
          clipped   \* the block was made shorter than what it still held

ziplistvars == <<ziplist, items, clipped>>

BigLen == 254
Head0  == 10        \* ZIPLIST_HEADER_SIZE

\* Width of the field for a previous length; bytes of a length or encoding.
PrevWidth(n) == IF n < BigLen THEN 1 ELSE 5
LenWidth(v)  == CASE v.int \/ v.len < 64 -> 1 [] ~v.int /\ v.len >= 16384 -> 5 [] OTHER -> 2
Raw(e)       == e.psize + LenWidth(e.val) + e.val.len

RECURSIVE RawSum(_)
RawSum(q)     == IF q = <<>> THEN 0 ELSE Raw(Head(q)) + RawSum(Tail(q))
Offset(zl, i) == Head0 + RawSum(SubSeq(zl.e, 1, i - 1))

\* The entry at an offset; 0 at the end, or between entries.
EntryAt(zl, off) ==
  LET at == {i \in DOMAIN zl.e : Offset(zl, i) = off}
  IN  IF at = {} THEN 0 ELSE CHOOSE i \in at : TRUE

\* ZIPLIST_INCR_LENGTH: CountMax means that the entries have to be counted.
Counted(zl, n) == [zl EXCEPT !.len = IF @ < CountMax THEN @ + n ELSE @]

New == [bytes |-> Head0 + 1, tail |-> Head0, len |-> 0, e |-> <<>>]

\* __ziplistCascadeUpdate from entry i: a wider field makes the next entry
\* longer; a field that could be narrower stays as wide as it is.
RECURSIVE Cascade(_, _)
Cascade(zl, i) ==
  IF i >= Len(zl.e) THEN zl
  ELSE LET raw   == Raw(zl.e[i])
           next  == zl.e[i + 1]
           extra == PrevWidth(raw) - next.psize
       IN  CASE next.plen = raw -> zl
             [] next.plen # raw /\ extra > 0 ->
                  Cascade([zl EXCEPT !.e[i + 1] = [next EXCEPT !.psize = @ + extra, !.plen = raw],
                                     !.bytes = @ + extra,
                                     !.tail = IF @ = Offset(zl, i + 1) THEN @ ELSE @ + extra], i + 1)
             [] OTHER -> [zl EXCEPT !.e[i + 1].plen = raw]

\* The new entry that __ziplistInsert puts before entry i, and the change of
\* the width of the field that follows it.
Entry(zl, i, v) ==
  LET last == EntryAt(zl, zl.tail)
      plen == IF i <= Len(zl.e) THEN zl.e[i].plen ELSE IF last = 0 THEN 0 ELSE Raw(zl.e[last])
  IN  [psize |-> PrevWidth(plen), plen |-> plen, val |-> v]
NextDiff(zl, i, raw) == IF i <= Len(zl.e) THEN PrevWidth(raw) - zl.e[i].psize ELSE 0

Insert(zl, i, v) ==
  LET new  == Entry(zl, i, v)
      req  == Raw(new)
      diff == NextDiff(zl, i, req)
      rest == SubSeq(zl.e, i, Len(zl.e))
      put  == [zl EXCEPT
                 !.e = SubSeq(@, 1, i - 1) \o <<new>> \o
                       (IF rest = <<>> THEN rest
                        ELSE <<[rest[1] EXCEPT !.psize = @ + diff, !.plen = req]>> \o Tail(rest)),
                 !.bytes = @ + req + diff,
                 !.tail = CASE rest = <<>> -> Offset(zl, i)
                            [] Len(rest) = 1 -> @ + req
                            [] OTHER -> @ + req + diff]
  IN  Counted(IF diff # 0 THEN Cascade(put, i + 1) ELSE put, 1)

\* __ziplistDelete: at most num entries from i on.
Delete(zl, i, num) ==
  LET k     == IF num > Len(zl.e) - i + 1 THEN Len(zl.e) - i + 1 ELSE num
      first == zl.e[i]
      gone  == RawSum(SubSeq(zl.e, i, i + k - 1))
      rest  == SubSeq(zl.e, i + k, Len(zl.e))
      diff  == NextDiff(zl, i + k, first.plen)
      cut   == [zl EXCEPT
                  !.e = SubSeq(@, 1, i - 1) \o
                        (IF rest = <<>> THEN rest
                         ELSE <<[rest[1] EXCEPT !.psize = @ + diff, !.plen = first.plen]>> \o Tail(rest)),
                  !.bytes = @ - gone + diff,
                  !.tail = CASE rest = <<>> -> Offset(zl, i) - first.plen
                             [] Len(rest) = 1 -> @ - gone
                             [] OTHER -> @ - gone + diff]
  IN  Counted(IF diff # 0 THEN Cascade(cut, i) ELSE cut, -k)

----------------------------------------------------------------------------
(* Reading.  A result of 0 is NULL.                                        *)

RECURSIVE Back(_, _, _)
Back(zl, off, n) ==
  LET i == EntryAt(zl, off)
  IN  IF i = 0 \/ n = 0 THEN i
      ELSE IF zl.e[i].plen = 0 THEN 0 ELSE Back(zl, off - zl.e[i].plen, n - 1)

\* ziplistIndex
Index(zl, n) ==
  IF n < 0 THEN Back(zl, zl.tail, (-n) - 1) ELSE IF n < Len(zl.e) THEN n + 1 ELSE 0

\* ziplistPrev; i = Len + 1 is the end.
Prev(zl, i) ==
  CASE i > Len(zl.e) -> EntryAt(zl, zl.tail)
    [] i <= Len(zl.e) /\ i = 1 -> 0
    [] OTHER -> EntryAt(zl, Offset(zl, i) - zl.e[i].plen)

\* ziplistFind: from entry i on, with skip entries between two comparisons.
Find(zl, i, v, skip) ==
  LET at == {j \in i .. Len(zl.e) : (j - i) % (skip + 1) = 0 /\ zl.e[j].val = v}
  IN  IF at = {} THEN 0 ELSE CHOOSE j \in at : \A k \in at : j <= k

\* ziplistLen stores the number of entries when it had to count them.
Recount(zl) == IF zl.len < CountMax \/ Len(zl.e) >= CountMax THEN zl ELSE [zl EXCEPT !.len = Len(zl.e)]
LenOf(zl)   == IF zl.len < CountMax THEN zl.len ELSE Len(zl.e)

----------------------------------------------------------------------------
ZiplistInit == ziplist = New /\ items = <<>> /\ clipped = FALSE

\* ziplistInsert and ziplistPush.  ziplistResize cuts the block to its new size
\* before the entries are moved; when the new entry takes less room than the
\* field after it gives back, the end of the last entry is lost.
ZiplistInsert(i, v) ==
  /\ ~clipped /\ Len(items) < MaxItems
  /\ LET req == Raw(Entry(ziplist, i, v))
     IN  clipped' = (req + NextDiff(ziplist, i, req) < 0)
  /\ ziplist' = Insert(ziplist, i, v)
  /\ items' = InsertAt(items, i, v)

\* ziplistDelete (num is 1) and ziplistDeleteRange.
ZiplistDelete(i, num) ==
  /\ ~clipped
  /\ ziplist' = Delete(ziplist, i, num)
  /\ items' = SubSeq(items, 1, i - 1) \o SubSeq(items, i + num, Len(items))
  /\ UNCHANGED clipped

ZiplistLen ==
  /\ ~clipped
  /\ ziplist' = Recount(ziplist)
  /\ UNCHANGED <<items, clipped>>

ZiplistNext ==
  \/ \E i \in 1 .. MaxItems + 1, v \in Payloads : i <= Len(items) + 1 /\ ZiplistInsert(i, v)
  \/ \E i \in 1 .. MaxItems, num \in 1 .. MaxItems : i <= Len(items) /\ ZiplistDelete(i, num)
  \/ ZiplistLen

ZiplistSpec == ZiplistInit /\ [][ZiplistNext]_ziplistvars

----------------------------------------------------------------------------
\* After any insertions and deletions the block is the list of the values: it
\* reads the same from both ends, the length fields lead from each entry to the
\* one before, and the size, the tail and the count are those of the entries.
ZiplistHolds ==
  LET zl == ziplist
      n  == Len(items)
  IN  ~clipped =>
        /\ Len(zl.e) = n /\ \A i \in 1 .. n : zl.e[i].val = items[i]
        /\ zl.bytes = Offset(zl, n + 1) + 1
        /\ zl.tail = IF n = 0 THEN Head0 ELSE Offset(zl, n)
        /\ \A i \in 1 .. n : /\ zl.e[i].plen = IF i = 1 THEN 0 ELSE Raw(zl.e[i - 1])
                             /\ zl.e[i].psize \in {PrevWidth(zl.e[i].plen), 5}
        /\ \A i \in 1 .. n : Index(zl, i - 1) = i /\ Index(zl, i - 1 - n) = i
        /\ Index(zl, n) = 0 /\ Index(zl, -(n + 1)) = 0
        /\ \A i \in 1 .. n + 1 : Prev(zl, i) = i - 1
        /\ LenOf(zl) = n
        /\ \A v \in Payloads, skip \in 0 .. 1 :
             LET f == Find(zl, 1, v, skip)
             IN  IF f = 0 THEN \A i \in 1 .. n : i % (skip + 1) = 1 % (skip + 1) => items[i] # v ELSE items[f] = v
=============================================================================
