-------------------------------- MODULE Lists --------------------------------
(***************************************************************************)
(* Lists (t_list.c): a ziplist, or the linked list of adlist.c, which is   *)
(* modelled by its links.  One key; blocking and RPOPLPUSH are in Blocking.*)
(* An element is a number; some are longer than list-max-ziplist-value.    *)
(***************************************************************************)
EXTENDS Integers, Sequences, FiniteSets, SequencesExt, TLC

CONSTANTS ListElements, LongElements,
          MaxZip,      \* list-max-ziplist-entries
          MaxList,     \* bound: elements in the list
          Indices      \* bound: the indices given to commands

VARIABLES lst,     \* the object, or NoList
          lvalue,  \* history: the elements, by the commands' meaning
          lseen    \* the value when the key was last signalled and counted

listvars == <<lst, lvalue, lseen>>

Nil    == 0
NoList == [enc |-> "none"]

----------------------------------------------------------------------------
(* adlist.c                                                                *)

ListCreate == [head |-> Nil, tail |-> Nil, len |-> 0, node |-> <<>>]
Fresh(l)   == CHOOSE n \in 1 .. l.len + 1 : n \notin DOMAIN l.node
Link(l, a, f, b) == IF a = Nil THEN l ELSE [l EXCEPT !.node[a][f] = b]

\* listAddNodeHead, listAddNodeTail and listInsertNode: between p and n.
Between(l, p, n, v) ==
  LET x == Fresh(l)
      m == [l EXCEPT !.node = (x :> [prev |-> p, next |-> n, val |-> v]) @@ @,
                     !.head = IF p = Nil THEN x ELSE @,
                     !.tail = IF n = Nil THEN x ELSE @,
                     !.len = @ + 1]
  IN  Link(Link(m, p, "next", x), n, "prev", x)

AddNodeHead(l, v) == Between(l, Nil, l.head, v)
AddNodeTail(l, v) == Between(l, l.tail, Nil, v)
InsertNode(l, x, v, after) ==
  IF after THEN Between(l, x, l.node[x].next, v) ELSE Between(l, l.node[x].prev, x, v)

DelNode(l, x) ==
  LET d == l.node[x]
      m == Link(Link(l, d.prev, "next", d.next), d.next, "prev", d.prev)
  IN  [m EXCEPT !.head = IF d.prev = Nil THEN d.next ELSE @,
                !.tail = IF d.next = Nil THEN d.prev ELSE @,
                !.len = @ - 1,
                !.node = [y \in DOMAIN m.node \ {x} |-> m.node[y]]]

\* n steps from node x; Nil past the end.
RECURSIVE Along(_, _, _, _)
Along(l, x, f, n) == IF x = Nil \/ n = 0 THEN x ELSE Along(l, l.node[x][f], f, n - 1)
ListIndex(l, i) == IF i < 0 THEN Along(l, l.tail, "prev", -i - 1) ELSE Along(l, l.head, "next", i)

RECURSIVE Iterate(_, _, _)
Iterate(l, x, f) == IF x = Nil THEN <<>> ELSE <<l.node[x].val>> \o Iterate(l, l.node[x][f], f)

\* listRotate: the tail becomes the head.
Rotate(l) ==
  LET t == l.tail
      m == [l EXCEPT !.tail = l.node[t].prev, !.head = t, !.node[t] = [@ EXCEPT !.prev = Nil, !.next = l.head]]
  IN  IF l.len <= 1 THEN l ELSE Link(Link(m, l.node[t].prev, "next", Nil), l.head, "prev", t)

----------------------------------------------------------------------------
(* Both encodings.                                                         *)

Ziplist(q)    == [enc |-> "ziplist", q |-> q]
Linked(l) == [enc |-> "linkedlist", l |-> l]
Convert(o) == Linked(FoldLeft(AddNodeTail, ListCreate, o.q))
TryConversion(o, v) == IF o.enc = "ziplist" /\ v \in LongElements THEN Convert(o) ELSE o
Length(o) == IF o.enc = "ziplist" THEN Len(o.q) ELSE o.l.len

\* The place of an element: its position in the ziplist, or its node.  Nil if
\* there is none.
At(o, i) ==
  CASE o.enc = "linkedlist" -> ListIndex(o.l, i)
    [] o.enc = "ziplist" /\ i >= 0 -> IF i < Len(o.q) THEN i + 1 ELSE Nil
    [] OTHER -> IF -i <= Len(o.q) THEN Len(o.q) + 1 + i ELSE Nil
ValueAt(o, x) == IF o.enc = "ziplist" THEN o.q[x] ELSE o.l.node[x].val
Step(o, x, rev) ==
  CASE o.enc = "linkedlist" -> IF rev THEN o.l.node[x].prev ELSE o.l.node[x].next
    [] o.enc = "ziplist" /\ rev -> x - 1
    [] OTHER -> IF x < Len(o.q) THEN x + 1 ELSE Nil

Push(obj, v, head) ==
  LET t == TryConversion(obj, v)
      o == IF t.enc = "ziplist" /\ Len(t.q) >= MaxZip THEN Convert(t) ELSE t
  IN  CASE o.enc = "ziplist" -> Ziplist(IF head THEN <<v>> \o o.q ELSE Append(o.q, v))
        [] OTHER -> Linked(IF head THEN AddNodeHead(o.l, v) ELSE AddNodeTail(o.l, v))

DeleteAt(o, x) == IF o.enc = "ziplist" THEN Ziplist(RemoveAt(o.q, x)) ELSE Linked(DelNode(o.l, x))
Kept(o)        == IF Length(o) = 0 THEN NoList ELSE o
Notice(dirty)  == lseen' = IF dirty THEN lvalue' ELSE lseen

\* LPUSH, RPUSH; LPUSHX and RPUSHX if the list must exist.
PushCommand(v, head, must) ==
  /\ must => lst # NoList
  /\ lst' = Push(IF lst = NoList THEN Ziplist(<<>>) ELSE lst, v, head)
  /\ lvalue' = IF head THEN <<v>> \o lvalue ELSE Append(lvalue, v)
  /\ Notice(TRUE)

PopCommand(head) ==
  /\ lst # NoList
  /\ lst' = Kept(DeleteAt(lst, At(lst, IF head THEN 0 ELSE -1)))
  /\ lvalue' = IF head THEN Tail(lvalue) ELSE Front(lvalue)
  /\ Notice(TRUE)

\* The first element from place x on that equals v.
RECURSIVE Search(_, _, _)
Search(o, x, v) == IF x = Nil \/ ValueAt(o, x) = v THEN x ELSE Search(o, Step(o, x, FALSE), v)
FirstPos(q, v) == CHOOSE i \in DOMAIN q : q[i] = v /\ \A j \in 1 .. i - 1 : q[j] # v

\* LINSERT: the encoding is tried before the pivot is looked for.
Linsert(pivot, v, after) ==
  LET o == TryConversion(lst, v)
      x == Search(o, At(o, 0), pivot)
      n == IF o.enc = "ziplist" THEN Ziplist(InsertAt(o.q, IF after THEN x + 1 ELSE x, v))
           ELSE Linked(InsertNode(o.l, x, v, after))
  IN  /\ lst # NoList
      /\ lst' = CASE x = Nil -> o
                  [] x # Nil /\ n.enc = "ziplist" /\ Len(n.q) > MaxZip -> Convert(n)
                  [] OTHER -> n
      /\ lvalue' = IF pivot \notin Range(lvalue) THEN lvalue
                   ELSE InsertAt(lvalue, FirstPos(lvalue, pivot) + (IF after THEN 1 ELSE 0), v)
      /\ Notice(x # Nil)

Lset(i, v) ==
  LET o == TryConversion(lst, v)
      x == At(o, i)
      at == IF i < 0 THEN Len(lvalue) + i + 1 ELSE i + 1
  IN  /\ lst # NoList
      /\ lst' = CASE x = Nil -> o
                  [] x # Nil /\ o.enc = "ziplist" -> Ziplist(InsertAt(RemoveAt(o.q, x), x, v))
                  [] OTHER -> [o EXCEPT !.l.node[x].val = v]
      /\ lvalue' = IF at \in DOMAIN lvalue THEN [lvalue EXCEPT ![at] = v] ELSE lvalue
      /\ Notice(x # Nil)

\* The start and the end of LRANGE and LTRIM; an empty range is <<n, n - 1>>.
Bounds(n, start, end) ==
  LET a == IF start < 0 THEN n + start ELSE start
      b == IF end < 0 THEN n + end ELSE end
      s == IF a < 0 THEN 0 ELSE a
  IN  IF s > b \/ s >= n THEN <<n, n - 1>> ELSE <<s, IF b >= n THEN n - 1 ELSE b>>

RECURSIVE Times(_, _, _)
Times(o, i, n) == IF n = 0 THEN o ELSE Times(DeleteAt(o, At(o, i)), i, n - 1)

Ltrim(start, end) ==
  LET b == Bounds(Length(lst), start, end)
      first == Times(lst, 0, b[1])
  IN  /\ lst # NoList
      /\ lst' = Kept(Times(first, -1, Length(lst) - b[2] - 1))
      /\ lvalue' = LET c == Bounds(Len(lvalue), start, end) IN SubSeq(lvalue, c[1] + 1, c[2] + 1)
      /\ Notice(TRUE)

\* LREM: the iterator goes on from the element after, or before, the removed one.
\* n = 0 removes all.
RECURSIVE Removed(_, _, _, _, _)
Removed(o, x, rev, v, n) ==
  LET next == Step(o, x, rev)
      d    == DeleteAt(o, x)
      on   == IF o.enc = "ziplist" /\ ~rev THEN (IF x <= Len(d.q) THEN x ELSE Nil) ELSE next
  IN  CASE x = Nil -> o
        [] x # Nil /\ ValueAt(o, x) # v -> Removed(o, next, rev, v, n)
        [] OTHER -> IF n = 1 THEN d ELSE Removed(d, on, rev, v, n - 1)

RECURSIVE Without(_, _, _)
Without(q, v, n) ==
  CASE q = <<>> -> q
    [] q # <<>> /\ Head(q) = v /\ n # 0 -> Without(Tail(q), v, n - 1)
    [] OTHER -> <<Head(q)>> \o Without(Tail(q), v, n)

Lrem(n, v) ==
  LET o == IF n < 0 THEN Removed(lst, At(lst, -1), TRUE, v, -n) ELSE Removed(lst, At(lst, 0), FALSE, v, n)
  IN  /\ lst # NoList
      /\ lst' = Kept(o)
      /\ lvalue' = CASE n = 0 -> Without(lvalue, v, MaxList)
                     [] n > 0 -> Without(lvalue, v, n)
                     [] OTHER -> Reverse(Without(Reverse(lvalue), v, -n))
      /\ Notice(Length(o) < Length(lst))

\* LRANGE: in the second half a linked list is entered from its tail.
Lrange(o, start, end) ==
  LET n == Length(o)
      b == Bounds(n, start, end)
      i == IF o.enc = "linkedlist" /\ b[1] > n \div 2 THEN b[1] - n ELSE b[1]
      q == IF o.enc = "ziplist" THEN SubSeq(o.q, i + 1, Len(o.q)) ELSE Iterate(o.l, ListIndex(o.l, i), "next")
  IN  IF b[1] > b[2] THEN <<>> ELSE SubSeq(q, 1, b[2] - b[1] + 1)

----------------------------------------------------------------------------
ListInit == lst = NoList /\ lvalue = <<>> /\ lseen = <<>>
ListNext ==
  \/ Len(lvalue) < MaxList /\ \E v \in ListElements, head, must \in BOOLEAN : PushCommand(v, head, must)
  \/ Len(lvalue) < MaxList /\ \E p, v \in ListElements, after \in BOOLEAN : Linsert(p, v, after)
  \/ \E head \in BOOLEAN : PopCommand(head)
  \/ \E i \in Indices, v \in ListElements : Lset(i, v) \/ Lrem(i, v)
  \/ \E i, j \in Indices : Ltrim(i, j)
ListSpec == ListInit /\ [][ListNext]_listvars

\* In either encoding the list is the sequence that the commands mean, read from
\* both ends: links, head, tail and length of the linked list agree; LRANGE and
\* LINDEX answer from it; no empty list is left; every change was signalled.
ListRepresents ==
  /\ lst = NoList <=> lvalue = <<>>
  /\ lseen = lvalue
  /\ lst # NoList =>
       /\ Length(lst) = Len(lvalue)
       /\ CASE lst.enc = "ziplist" -> lst.q = lvalue /\ Len(lvalue) <= MaxZip
            [] OTHER -> LET l == lst.l
                            R == Rotate(l)
                        IN  /\ Iterate(l, l.head, "next") = lvalue /\ Iterate(l, l.tail, "prev") = Reverse(lvalue)
                            /\ Cardinality(DOMAIN l.node) = l.len
                            /\ Iterate(R, R.head, "next") = <<Last(lvalue)>> \o Front(lvalue)
                            /\ Iterate(R, R.tail, "prev") = Reverse(Front(lvalue)) \o <<Last(lvalue)>>
       /\ \A i, j \in Indices :
            Lrange(lst, i, j) = LET n == Len(lvalue)
                                    Pos(k) == IF k < 0 THEN n + k ELSE k
                                    lo == IF Pos(i) < 0 THEN 1 ELSE Pos(i) + 1
                                    hi == IF Pos(j) >= n THEN n ELSE Pos(j) + 1
                                IN  SubSeq(lvalue, lo, hi)
       /\ \A i \in Indices : LET at == IF i < 0 THEN Len(lvalue) + i + 1 ELSE i + 1
                             IN  IF at \in DOMAIN lvalue
                                 THEN At(lst, i) # Nil /\ ValueAt(lst, At(lst, i)) = lvalue[at]
                                 ELSE At(lst, i) = Nil
=============================================================================
