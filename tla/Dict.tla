-------------------------------- MODULE Dict --------------------------------
(***************************************************************************)
(* Hash tables (dict.c): two tables while entries are moved from the first *)
(* to the second a bucket at a time, safe iterators that hold the moving   *)
(* up, and the stateless scan of the SCAN commands (db.c), whose callers   *)
(* may do anything between two calls.  A key is its own hash.              *)
(***************************************************************************)
EXTENDS Integers, Sequences, FiniteSets, SequencesExt, FiniteSetsExt, TLC

CONSTANTS Keys, Vals, Missing,
          InitialSize,  \* DICT_HT_INITIAL_SIZE
          ForceRatio,   \* dict_force_resize_ratio
          MinFill,      \* REDIS_HT_MINFILL, per cent
          Bits,         \* bound: bits of a cursor
          Replaced      \* bound: the keys given other values

VARIABLES dict,       \* [ht, rehashidx, iterators]
          can_resize, \* dict_can_resize
          iter,       \* a safe iterator, or NoIter
          scan        \* a SCAN iteration: cursor, what it returned, see ScanInit

dictvars == <<dict, can_resize, iter, scan>>

None    == -1
NoEntry == [key |-> None, val |-> Missing]
NoIter  == [on |-> FALSE, table |-> 1, index |-> None, entry |-> None, next |-> None,
            got |-> {}, ever |-> {}, wrong |-> FALSE]
ScanInit == [cursor |-> 0, on |-> FALSE, due |-> {}, missed |-> {}, skewed |-> FALSE]

Tuple(q) == <<>> \o q

----------------------------------------------------------------------------
(* Tables: table is the sequence of buckets, a bucket its chain of entries.*)

Reset    == [size |-> 0, used |-> 0, table |-> <<>>]
Sized(n) == [size |-> n, used |-> 0, table |-> Tuple([i \in 1 .. n |-> <<>>])]
Bucket(h, i)      == h.table[i + 1]
Slot(h, k)        == k % h.size           \* hash & sizemask
Push(h, i, e)     == [h EXCEPT !.table[i + 1] = <<e>> \o @, !.used = @ + 1]
Chain(h, k)       == IF h.size = 0 THEN <<>> ELSE Bucket(h, Slot(h, k))
Holds(h, k)       == \E i \in DOMAIN Chain(h, k) : Chain(h, k)[i].key = k
EntryIn(h, k)     == Chain(h, k)[CHOOSE i \in DOMAIN Chain(h, k) : Chain(h, k)[i].key = k]
Unlinked(h, k)    == [h EXCEPT !.table[Slot(h, k) + 1] = SelectSeq(@, LAMBDA e : e.key # k), !.used = @ - 1]

IsRehashing(d) == d.rehashidx # None
Tables(d)      == IF IsRehashing(d) THEN <<d.ht[1], d.ht[2]>> ELSE <<d.ht[1]>>
Entries(h)     == UNION {ToSet(h.table[i]) : i \in DOMAIN h.table}
Size(d)        == d.ht[1].used + d.ht[2].used

RECURSIVE NextPower(_, _)
NextPower(i, n) == IF i >= n THEN i ELSE NextPower(2 * i, n)

\* Mutant: a new table takes the place of one that holds entries.
ExpandFirst(d, n) == IF IsRehashing(d) \/ d.ht[1].used > n THEN d
                     ELSE [d EXCEPT !.ht[1] = Sized(NextPower(InitialSize, n))]

\* dictExpand.
Expand(d, n) ==
  LET fresh == Sized(NextPower(InitialSize, n))
  IN  CASE IsRehashing(d) \/ d.ht[1].used > n -> d
        [] d.ht[1].size = 0 -> [d EXCEPT !.ht[1] = fresh]
        [] OTHER -> [d EXCEPT !.ht[2] = fresh, !.rehashidx = 0]

\* dictResize, when htNeedsResize says so.
NeedsResize(d) == /\ d.ht[1].size + d.ht[2].size > InitialSize /\ Size(d) > 0
                  /\ (Size(d) * 100) \div (d.ht[1].size + d.ht[2].size) < MinFill
Resize(d) == IF ~can_resize \/ IsRehashing(d) THEN d
             ELSE Expand(d, IF d.ht[1].used < InitialSize THEN InitialSize ELSE d.ht[1].used)

\* dictRehash, one bucket; the move reverses the chains it joins.
RehashBucket(d) ==
  LET i  == Min({j \in d.rehashidx .. d.ht[1].size - 1 : Bucket(d.ht[1], j) # <<>>})
      es == Bucket(d.ht[1], i)
  IN  IF d.ht[1].used = 0 THEN [d EXCEPT !.ht = <<@[2], Reset>>, !.rehashidx = None]
      ELSE [d EXCEPT !.ht[1].table[i + 1] = <<>>, !.ht[1].used = @ - Len(es),
                     !.ht[2] = FoldLeft(LAMBDA h, e : Push(h, Slot(h, e.key), e), @, es),
                     !.rehashidx = i + 1]
RECURSIVE Rehash(_, _)
Rehash(d, n) == IF n = 0 \/ ~IsRehashing(d) THEN d ELSE Rehash(RehashBucket(d), n - 1)
RehashStep(d) == IF d.iterators = 0 THEN Rehash(d, 1) ELSE d

ExpandIfNeeded(d) ==
  LET h == d.ht[1]
  IN  CASE IsRehashing(d) -> d
        [] h.size = 0 -> Expand(d, InitialSize)
        [] h.size > 0 /\ h.used >= h.size /\ (can_resize \/ h.used \div h.size > ForceRatio) -> Expand(d, h.used * 2)
        [] OTHER -> d

----------------------------------------------------------------------------
(* The calls.                                                              *)

Find(d, k) == LET hs == SelectSeq(Tables(d), LAMBDA h : Holds(h, k))
              IN  IF hs = <<>> THEN NoEntry ELSE EntryIn(hs[1], k)

\* dictAddRaw with dictAdd: the new entry goes to the second table while rehashing.
AddRaw(d0, k, v) ==
  LET d == ExpandIfNeeded(RehashStep(d0))
      t == IF IsRehashing(d) THEN 2 ELSE 1
  IN  IF Find(d, k) # NoEntry THEN d
      ELSE [d EXCEPT !.ht[t] = Push(@, Slot(@, k), [key |-> k, val |-> v])]

SetVal(d, k, v) ==
  LET t == IF Holds(d.ht[1], k) THEN 1 ELSE 2
  IN  [d EXCEPT !.ht[t].table[Slot(d.ht[t], k) + 1] =
         Tuple([i \in DOMAIN @ |-> IF @[i].key = k THEN [key |-> k, val |-> v] ELSE @[i]])]

\* dictReplace finds the entry again when it could not be added.
ReplaceVal(d, k, v) ==
  LET a == AddRaw(d, k, v)
  IN  IF Find(RehashStep(d), k) = NoEntry THEN a ELSE SetVal(RehashStep(a), k, v)

\* dictGenericDelete.
DeleteKey(d0, k) ==
  LET d == RehashStep(d0)
      t == IF Holds(d.ht[1], k) THEN 1 ELSE 2
  IN  IF d0.ht[1].size = 0 \/ Find(d, k) = NoEntry THEN d ELSE [d EXCEPT !.ht[t] = Unlinked(@, k)]

\* dictGetRandomKey: any entry of any bucket.
RandomKeys(d) == UNION {Entries(Tables(d)[i]) : i \in DOMAIN Tables(d)}

\* dictNext of a safe iterator; wrong if it returns an entry twice.
RECURSIVE NextBucket(_, _, _)
NextBucket(d, t, i) ==
  CASE i >= d.ht[t].size -> IF IsRehashing(d) /\ t = 1 THEN NextBucket(d, 2, 0) ELSE <<t, i, <<>>>>
    [] i < d.ht[t].size /\ Bucket(d.ht[t], i) = <<>> -> NextBucket(d, t, i + 1)
    [] OTHER -> <<t, i, Bucket(d.ht[t], i)>>
After(q, k) == LET p == CHOOSE j \in DOMAIN q : q[j].key = k
               IN  IF p = Len(q) THEN None ELSE q[p + 1].key
Returned(it, k, n) == [it EXCEPT !.entry = k, !.next = n, !.got = @ \cup ({k} \cap it.ever),
                                 !.wrong = @ \/ k \in it.got]

----------------------------------------------------------------------------
(* dictScan.                                                               *)

RECURSIVE Pow2(_)
Pow2(n) == IF n = 0 THEN 1 ELSE 2 * Pow2(n - 1)
RECURSIVE Rev(_, _)
Rev(v, n) == IF n = 0 THEN 0 ELSE (v % 2) * Pow2(n - 1) + Rev(v \div 2, n - 1)

\* v |= ~m0; v = rev(v); v++; v = rev(v), for a table of n buckets, in a word of Bits
\* bits: the bits above the mask are set, so the carry goes to those under it.
NextCursor(v, n) ==
  LET low == v % n
      set == low + (Pow2(Bits) - n)
  IN  Rev((Rev(set, Bits) + 1) % Pow2(Bits), Bits)

KeysAt(h, v) == {Bucket(h, v % h.size)[i].key : i \in DOMAIN Bucket(h, v % h.size)}

\* The buckets of the larger table visited for cursor v: the bits above m0 are
\* counted up from where v has them until they are all zero again.
RECURSIVE Expansions(_, _, _)
Expansions(v, s, l) == LET u == (v + s) % l
                       IN  {v % l} \cup (IF u < s THEN {} ELSE Expansions(u, s, l))

Visit(d, v) ==
  LET big == IF d.ht[1].size > d.ht[2].size THEN 1 ELSE 2
      s == d.ht[3 - big]
      l == d.ht[big]
  IN  CASE Size(d) = 0 -> [cursor |-> 0, keys |-> {}, partial |-> FALSE]
        [] Size(d) > 0 /\ ~IsRehashing(d) ->
             [cursor |-> NextCursor(v, d.ht[1].size), keys |-> KeysAt(d.ht[1], v), partial |-> FALSE]
        [] OTHER ->
             [cursor |-> NextCursor(v % s.size, s.size),
              keys   |-> KeysAt(s, v) \cup UNION {KeysAt(l, u) : u \in Expansions(v, s.size, l.size)},
              partial |-> l.size > 2 * s.size /\ (v % l.size) >= s.size]

\* The loop of scanGenericCommand: one call for COUNT count.
RECURSIVE Scanned(_, _, _, _)
Scanned(d, r, count, left) ==
  LET x == Visit(d, r.cursor)
      y == [cursor |-> x.cursor, keys |-> r.keys \cup x.keys, partial |-> r.partial \/ x.partial]
  IN  IF x.cursor # 0 /\ left > 0 /\ Cardinality(y.keys) < count THEN Scanned(d, y, count, left - 1) ELSE y

----------------------------------------------------------------------------
(* Actions.                                                                *)

\* What a scan has still to return, and what is there from the start of an iteration.
Gone(k) == /\ scan' = [scan EXCEPT !.due = @ \ {k}]
           /\ iter' = [iter EXCEPT !.ever = @ \ {k}, !.got = @ \ {k}, !.entry = None]
Kept    == UNCHANGED <<scan, iter>>

\* While an iterator is in use only its loop runs, and it deletes no other entry
\* than the one it was given.
DictAdd(k, v) ==
  /\ dict' = AddRaw(dict, k, v)
  /\ Kept /\ UNCHANGED can_resize
DictReplace(k, v) ==
  /\ dict' = ReplaceVal(dict, k, v)
  /\ Kept /\ UNCHANGED can_resize
DictDelete(k) ==
  /\ iter.on => k = iter.entry
  /\ dict' = DeleteKey(dict, k)
  /\ Gone(k) /\ UNCHANGED can_resize
DictFind(k) ==
  /\ dict' = IF dict.ht[1].size = 0 THEN dict ELSE RehashStep(dict)
  /\ Kept /\ UNCHANGED can_resize
DictGetRandomKey ==
  /\ Size(dict) > 0 /\ dict' = RehashStep(dict)
  /\ Kept /\ UNCHANGED can_resize
DictEmpty ==
  /\ ~iter.on /\ dict' = [ht |-> <<Reset, Reset>>, rehashidx |-> None, iterators |-> 0]
  /\ scan' = [scan EXCEPT !.due = {}] /\ UNCHANGED <<iter, can_resize>>

\* tryResizeHashTables, or the resize after a deletion; dictRehashMilliseconds.
DictResize ==
  /\ ~iter.on /\ NeedsResize(dict) /\ dict' = Resize(dict)
  /\ Kept /\ UNCHANGED can_resize
DictRehash(n) ==
  /\ ~iter.on /\ IsRehashing(dict) /\ dict' = Rehash(dict, n)
  /\ Kept /\ UNCHANGED can_resize
\* updateDictResizePolicy, when a child is forked or ends.  Bound: not during a scan
\* or an iteration, like the replacement of a value.
ResizePolicy == ~iter.on /\ ~scan.on /\ can_resize' = ~can_resize /\ Kept /\ UNCHANGED dict

GetSafeIterator ==
  /\ ~iter.on /\ ~scan.on   \* bound: not during a scan
  /\ iter' = [NoIter EXCEPT !.on = TRUE, !.ever = {e.key : e \in RandomKeys(dict)}]
  /\ UNCHANGED <<dict, can_resize, scan>>

\* dictReleaseIterator; an iteration that came to its end must have returned all
\* that was there from its start.
Released(d) == IF iter.index = None /\ iter.table = 1 THEN d ELSE [d EXCEPT !.iterators = @ - 1]
ReleaseIterator ==
  /\ iter.on /\ dict' = Released(dict) /\ iter' = [NoIter EXCEPT !.wrong = iter.wrong]
  /\ UNCHANGED <<can_resize, scan>>

DictNext ==
  LET n == NextBucket(dict, iter.table, iter.index + 1)
      q == Bucket(dict.ht[iter.table], iter.index)
      first == iter.index = None /\ iter.table = 1
      d == IF first THEN [dict EXCEPT !.iterators = @ + 1] ELSE dict
      end == iter.next = None /\ n[3] = <<>>
  IN  /\ iter.on
      /\ dict' = IF end THEN [d EXCEPT !.iterators = @ - 1] ELSE d
      /\ iter' = CASE end -> [NoIter EXCEPT !.wrong = iter.wrong \/ iter.got # iter.ever]
                   [] ~end /\ iter.next # None -> Returned(iter, iter.next, After(q, iter.next))
                   [] OTHER -> Returned([iter EXCEPT !.table = n[1], !.index = n[2]], n[3][1].key,
                                        After(n[3], n[3][1].key))
      /\ UNCHANGED <<can_resize, scan>>

\* One SCAN command; the iteration is over when the cursor is 0 again.
ScanCommand(count) ==
  LET s == IF scan.on THEN scan ELSE [ScanInit EXCEPT !.due = {e.key : e \in RandomKeys(dict)}]
      r == Scanned(dict, [cursor |-> s.cursor, keys |-> {}, partial |-> FALSE], count, 10 * count)
      due == s.due \ r.keys
      skewed == s.skewed \/ r.partial
  IN  /\ ~iter.on
      /\ scan' = IF r.cursor = 0 THEN [ScanInit EXCEPT !.missed = due, !.skewed = skewed /\ due # {}]
                 ELSE [s EXCEPT !.on = TRUE, !.cursor = r.cursor, !.due = due, !.skewed = skewed]
      /\ UNCHANGED <<dict, can_resize, iter>>

----------------------------------------------------------------------------
DictInit == /\ dict = [ht |-> <<Reset, Reset>>, rehashidx |-> None, iterators |-> 0]
            /\ can_resize = TRUE /\ iter = NoIter /\ scan = ScanInit

DictNextStep ==
  \/ \E k \in Keys :
       \/ DictAdd(k, CHOOSE v \in Vals : TRUE) \/ DictDelete(k) \/ DictFind(k)
       \/ k \in Replaced /\ ~scan.on /\ ~iter.on /\ \E v \in Vals : DictReplace(k, v)
  \/ DictGetRandomKey \/ DictEmpty
  \/ DictResize \/ ResizePolicy \/ \E n \in {1, 100} : DictRehash(n)
  \/ GetSafeIterator \/ DictNext \/ ReleaseIterator
  \/ ScanCommand(1)

DictSpec == DictInit /\ [][DictNextStep]_dictvars

----------------------------------------------------------------------------
(* Properties.                                                             *)

\* "The function guarantees that all the elements that are present in the
\* dictionary from the start to the end of the iteration are returned" (dictScan).
ScanComplete == scan.missed = {}

\* The same for the scans that never meet a cursor of a much larger table while
\* the table is being shrunk.
ScanCompleteUnskewed == ~scan.skewed => scan.missed = {}

\* The counters, the buckets and the two tables agree at any point of a rehash; a
\* bucket before rehashidx is empty; entries do not move while an iterator is in
\* use, which returns all that stays, once.
DictSound ==
  /\ \A t \in 1 .. 2 : LET h == dict.ht[t]
                       IN  /\ Len(h.table) = h.size
                           /\ h.used = FoldLeft(LAMBDA n, q : n + Len(q), 0, h.table)
                           /\ h.used = Cardinality(Entries(h))
                           /\ \A i \in 0 .. h.size - 1 : \A j \in DOMAIN Bucket(h, i) : Slot(h, Bucket(h, i)[j].key) = i
  /\ \A e \in RandomKeys(dict) : Find(dict, e.key) = e
  /\ IsRehashing(dict) => \A i \in 0 .. dict.rehashidx - 1 : Bucket(dict.ht[1], i) = <<>>
  /\ IsRehashing(dict) <=> dict.ht[2].size > 0
  /\ dict.iterators = (IF iter.on /\ ~(iter.index = None /\ iter.table = 1) THEN 1 ELSE 0)
  /\ ~iter.wrong

\* The table is the map DictSpec describes.
TheMap == LET all == RandomKeys(dict)
          IN  [k \in Keys |-> IF \E e \in all : e.key = k THEN (CHOOSE e \in all : e.key = k).val ELSE Missing]
Map == INSTANCE DictSpec WITH map <- TheMap
=============================================================================
