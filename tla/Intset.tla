------------------------------- MODULE Intset --------------------------------
(***************************************************************************)
(* intset.c: a sorted array of integers, all of the width of the widest.   *)
(* The memory is a sequence of cells of the narrowest width; an integer of *)
(* width w is written as w cells, so that a read at a place or of a width  *)
(* that was not written is seen.  Positions are from 0, as in the code.    *)
(***************************************************************************)
EXTENDS Integers, Sequences, FiniteSets

CONSTANTS Ints,            \* bound: the values
          Narrow, Middle   \* those of one and of at most two cells

VARIABLES intset,  \* [enc, length, cells]
          ints     \* history: the set, by the calls' meaning

intsetvars == <<intset, ints>>

Unset  == -99999
NoCell == [val |-> Unset, width |-> 0, part |-> 0]
Valued(v) == CASE v \in Narrow -> 1 [] v \in Middle \ Narrow -> 2 [] OTHER -> 4

CellsOf(v, w)    == [k \in 1 .. w |-> [val |-> v, width |-> w, part |-> k]]
Load(c, pos, w)  == LET s == SubSeq(c, pos * w + 1, pos * w + w)
                    IN  IF \E v \in Ints : s = CellsOf(v, w) THEN s[1].val ELSE Unset
Store(c, pos, w, v) == SubSeq(c, 1, pos * w) \o CellsOf(v, w) \o SubSeq(c, pos * w + w + 1, Len(c))
Get(is, pos)     == Load(is.cells, pos, is.enc)
Put(is, pos, v)  == [is EXCEPT !.cells = Store(@, pos, is.enc, v)]
Resize(is, n)    == [is EXCEPT !.cells = [k \in 1 .. n * is.enc |-> IF k <= Len(@) THEN @[k] ELSE NoCell]]

\* The loop of intsetSearch.
RECURSIVE Bisect(_, _, _, _)
Bisect(is, v, min, max) ==
  LET mid == (min + max) \div 2
      cur == Get(is, mid)
  IN  CASE max < min \/ cur = Unset -> [found |-> FALSE, pos |-> min]
        [] max >= min /\ v > cur -> Bisect(is, v, mid + 1, max)
        [] max >= min /\ v < cur -> Bisect(is, v, min, mid - 1)
        [] OTHER -> [found |-> TRUE, pos |-> mid]

Search(is, v) ==
  CASE is.length = 0 -> [found |-> FALSE, pos |-> 0]
    [] is.length > 0 /\ v > Get(is, is.length - 1) -> [found |-> FALSE, pos |-> is.length]
    [] is.length > 0 /\ v < Get(is, 0) -> [found |-> FALSE, pos |-> 0]
    [] OTHER -> Bisect(is, v, 0, is.length - 1)

\* The elements are widened in place, the last one first.
RECURSIVE Widen(_, _, _, _)
Widen(is, old, prepend, n) ==
  IF n = 0 THEN is
  ELSE Widen(Put(is, n - 1 + prepend, Load(is.cells, n - 1, old)), old, prepend, n - 1)

\* intsetUpgradeAndAdd: a value that needs a greater width is the first or the last.
UpgradeAndAdd(is, v) ==
  LET prepend == IF v < 0 THEN 1 ELSE 0
      wide == Resize([is EXCEPT !.enc = Valued(v)], is.length + 1)
      old  == Widen(wide, is.enc, prepend, is.length)
  IN  [Put(old, IF prepend = 1 THEN 0 ELSE is.length, v) EXCEPT !.length = @ + 1]

\* intsetMoveTail, a memmove of the elements from "from" on.
MoveTail(is, from, to) ==
  LET moved == SubSeq(is.cells, from * is.enc + 1, is.length * is.enc)
  IN  [is EXCEPT !.cells = SubSeq(@, 1, to * is.enc) \o moved \o
                           SubSeq(@, to * is.enc + Len(moved) + 1, Len(@))]

Add(is, v) ==
  LET pos  == Search(is, v).pos
      room == Resize(is, is.length + 1)
  IN  CASE Valued(v) > is.enc -> UpgradeAndAdd(is, v)
        [] Valued(v) <= is.enc /\ Search(is, v).found -> is
        [] OTHER -> [Put(IF pos < is.length THEN MoveTail(room, pos, pos + 1) ELSE room, pos, v)
                       EXCEPT !.length = @ + 1]

Find(is, v) == Valued(v) <= is.enc /\ Search(is, v).found

Remove(is, v) ==
  LET pos == Search(is, v).pos
  IN  IF ~Find(is, v) THEN is
      ELSE [Resize(IF pos < is.length - 1 THEN MoveTail(is, pos + 1, pos) ELSE is, is.length - 1)
              EXCEPT !.length = @ - 1]

IntsetInit == intset = [enc |-> 1, length |-> 0, cells |-> <<>>] /\ ints = {}
IntsetAdd(v)    == intset' = Add(intset, v) /\ ints' = ints \cup {v}
IntsetRemove(v) == intset' = Remove(intset, v) /\ ints' = ints \ {v}
IntsetNext == \E v \in Ints : IntsetAdd(v) \/ IntsetRemove(v)
IntsetSpec == IntsetInit /\ [][IntsetNext]_intsetvars

\* Through any additions and removals, the upgrades in place included, the array
\* holds exactly the set, in order, and the search finds its elements and no others.
IntsetHolds ==
  /\ intset.length = Cardinality(ints) /\ Len(intset.cells) = intset.length * intset.enc
  /\ {Get(intset, i) : i \in 0 .. intset.length - 1} = ints
  /\ \A i \in 1 .. intset.length - 1 : Get(intset, i - 1) < Get(intset, i)
  /\ \A v \in Ints : Find(intset, v) = (v \in ints)
=============================================================================
