--------------------------- MODULE BlockingProofs ---------------------------
(***************************************************************************)
(* The properties of module Blocking, for any clients, keys and bounds.    *)
(***************************************************************************)
EXTENDS Blocking, SequenceTheorems, WellFoundedInduction, TLAPS

----------------------------------------------------------------------------
(* Sequences.                                                              *)

Less == {p \in Nat \X Nat : p[1] < p[2]}

\* A nonempty set of naturals has a least element.
LEMMA LeastNatural ==
  ASSUME NEW T \in SUBSET Nat, T # {}
  PROVE  \E x \in T : \A y \in T : x <= y
<1>1. IsWellFoundedOn(Less, Nat)
  BY NatLessThanWellFounded DEF Less, OpToRel
<1>2. PICK x \in T : \A y \in T : ~(<<y, x>> \in Less)
  BY <1>1, WFMin
<1>3. ASSUME NEW y \in T
      PROVE  x <= y
  <2>1. ~(y < x)
    BY <1>2 DEF Less
  <2> QED BY <2>1
<1> QED BY <1>3

\* The list without the first entry for x.
LEMMA RemovedFirst ==
  ASSUME NEW S, NEW s \in Seq(S), NEW x \in Rng(s)
  PROVE  LET r == RemoveFirst(s, x) IN
         \E i \in 1 .. Len(s) :
           /\ s[i] = x /\ \A j \in 1 .. i - 1 : s[j] # x
           /\ r \in Seq(S) /\ Len(r) = Len(s) - 1
           /\ \A j \in 1 .. Len(r) : r[j] = IF j < i THEN s[j] ELSE s[j + 1]
<1> DEFINE T == {i \in DOMAIN s : s[i] = x}
<1>1. T \in SUBSET Nat /\ T # {}
  BY DEF Rng
<1>2. PICK m \in T : \A y \in T : m <= y
  <2> HIDE DEF T
  <2> QED BY <1>1, LeastNatural
<1>3. m \in DOMAIN s /\ s[m] = x /\ \A j \in 1 .. m - 1 : s[j] # x
  BY <1>2
<1> DEFINE i == CHOOSE i \in DOMAIN s : s[i] = x /\ \A j \in 1 .. i - 1 : s[j] # x
<1>4. i \in DOMAIN s /\ s[i] = x /\ \A j \in 1 .. i - 1 : s[j] # x
  BY <1>3, Zenon
<1>5. RemoveFirst(s, x) = SubSeq(s, 1, i - 1) \o SubSeq(s, i + 1, Len(s))
  BY DEF RemoveFirst
<1> HIDE DEF i, T
<1>6. i \in 1 .. Len(s)
  BY <1>4
<1> DEFINE a == SubSeq(s, 1, i - 1)
           b == SubSeq(s, i + 1, Len(s))
<1>7. /\ a \in Seq(S) /\ Len(a) = i - 1
      /\ \A j \in 1 .. i - 1 : a[j] = s[j]
  BY <1>6, SubSeqProperties
<1>8. /\ b \in Seq(S) /\ Len(b) = Len(s) - i
      /\ \A j \in 1 .. Len(s) - i : b[j] = s[i + j]
  BY <1>6, SubSeqProperties
<1> HIDE DEF a, b
<1> DEFINE r == a \o b
<1>9. /\ r \in Seq(S) /\ Len(r) = Len(s) - 1
      /\ \A j \in 1 .. Len(r) : r[j] = IF j < i THEN s[j] ELSE s[j + 1]
  <2>1. /\ r \in Seq(S) /\ Len(r) = Len(a) + Len(b)
        /\ \A j \in 1 .. Len(a) + Len(b) : r[j] = IF j <= Len(a) THEN a[j] ELSE b[j - Len(a)]
    BY <1>7, <1>8, ConcatProperties
  <2> HIDE DEF r
  <2>2. Len(r) = Len(s) - 1
    BY <1>6, <1>7, <1>8, <2>1
  <2>3. ASSUME NEW j \in 1 .. Len(r)
        PROVE  r[j] = IF j < i THEN s[j] ELSE s[j + 1]
    <3>1. CASE j < i
      BY <1>6, <1>7, <1>8, <2>1, <2>2, <3>1
    <3>2. CASE j >= i
      <4>1. j - (i - 1) \in 1 .. Len(s) - i /\ i + (j - (i - 1)) = j + 1
        BY <1>6, <2>2, <3>2
      <4> QED BY <1>6, <1>7, <1>8, <2>1, <2>2, <3>2, <4>1
    <3> QED BY <1>6, <3>1, <3>2
  <2> QED BY <2>1, <2>2, <2>3
<1>10. RemoveFirst(s, x) = r
  BY <1>5 DEF a, b
<1> HIDE DEF r
<1> QED BY <1>4, <1>6, <1>9, <1>10

\* Of a sequence without duplicates, nothing else moves.
LEMMA RemovedDistinct ==
  ASSUME NEW S, NEW s \in Seq(S), NEW x \in Rng(s), Distinct(s)
  PROVE  LET r == RemoveFirst(s, x) IN
         /\ r \in Seq(S) /\ Len(r) = Len(s) - 1
         /\ Rng(r) = Rng(s) \ {x} /\ Distinct(r)
         /\ \A y, z : y # x /\ z # x /\ Before(s, y, z) => Before(r, y, z)
         /\ \A j, k \in DOMAIN r : j < k => Before(s, r[j], r[k])
<1> DEFINE r == RemoveFirst(s, x)
<1>1. PICK i \in 1 .. Len(s) :
           /\ s[i] = x
           /\ r \in Seq(S) /\ Len(r) = Len(s) - 1
           /\ \A j \in 1 .. Len(r) : r[j] = IF j < i THEN s[j] ELSE s[j + 1]
  BY RemovedFirst
<1> HIDE DEF r
<1>2. /\ DOMAIN s = 1 .. Len(s) /\ DOMAIN r = 1 .. Len(s) - 1 /\ Len(s) \in Nat
      /\ \A j, k \in 1 .. Len(s) : s[j] = s[k] => j = k
  BY <1>1 DEF Distinct
<1> DEFINE old(j) == IF j < i THEN j ELSE j + 1
           new(j) == IF j < i THEN j ELSE j - 1
<1>3. ASSUME NEW j \in DOMAIN r
      PROVE  old(j) \in DOMAIN s /\ old(j) # i /\ s[old(j)] = r[j]
  BY <1>1, <1>2, <1>3
<1>4. ASSUME NEW j \in DOMAIN s, j # i
      PROVE  new(j) \in DOMAIN r /\ r[new(j)] = s[j]
  BY <1>1, <1>2, <1>4
<1>5. \A j, k \in DOMAIN r : j < k => old(j) < old(k)
  BY <1>1, <1>2
<1>6. \A j, k \in DOMAIN s : j # i /\ k # i /\ j < k => new(j) < new(k)
  BY <1>1, <1>2
<1> HIDE DEF old, new
<1>7. ASSUME NEW j \in DOMAIN r PROVE r[j] \in Rng(s) \ {x}
  BY <1>1, <1>2, <1>3, <1>7 DEF Rng
<1>8. ASSUME NEW y \in Rng(s) \ {x} PROVE y \in Rng(r)
  BY <1>1, <1>4 DEF Rng
<1>9. Rng(r) = Rng(s) \ {x}
  BY <1>7, <1>8 DEF Rng
<1>10. ASSUME NEW j \in DOMAIN r, NEW k \in DOMAIN r, j < k
       PROVE  r[j] # r[k] /\ Before(s, r[j], r[k])
  <2>1. old(j) \in DOMAIN s /\ old(k) \in DOMAIN s /\ old(j) < old(k)
        /\ s[old(j)] = r[j] /\ s[old(k)] = r[k]
    BY <1>3, <1>5, <1>10
  <2>2. old(j) \in Nat /\ old(k) \in Nat
    BY <1>2, <2>1
  <2> QED BY <1>2, <2>1, <2>2 DEF Before
<1>11. Distinct(r)
  <2> SUFFICES ASSUME NEW j \in DOMAIN r, NEW k \in DOMAIN r, r[j] = r[k], j # k
               PROVE  FALSE
    BY DEF Distinct
  <2>1. j < k \/ k < j
    BY <1>2
  <2> QED BY <1>10, <2>1
<1>12. ASSUME NEW y, NEW z, y # x, z # x, Before(s, y, z)
       PROVE  Before(r, y, z)
  <2>1. PICK j \in DOMAIN s, k \in DOMAIN s : j < k /\ s[j] = y /\ s[k] = z
    BY <1>12 DEF Before
  <2>2. j # i /\ k # i
    BY <1>1, <1>12, <2>1
  <2> QED BY <1>4, <1>6, <2>1, <2>2 DEF Before
<1> QED BY <1>1, <1>9, <1>10, <1>11, <1>12 DEF r

LEMMA Appended ==
  ASSUME NEW S, NEW s \in Seq(S), NEW x \in S
  PROVE  LET r == Append(s, x) IN
         /\ r \in Seq(S) /\ r # <<>> /\ Len(r) = Len(s) + 1 /\ Rng(r) = Rng(s) \cup {x}
         /\ Distinct(s) /\ x \notin Rng(s) => Distinct(r)
         /\ \A y, z : Before(s, y, z) => Before(r, y, z)
         /\ \A y \in Rng(s) : Before(r, y, x)
<1> DEFINE r == Append(s, x)
<1>1. /\ r \in Seq(S) /\ r # <<>> /\ Len(r) = Len(s) + 1
      /\ \A i \in 1 .. Len(s) : r[i] = s[i]
      /\ r[Len(s) + 1] = x
  BY AppendProperties
<1>2. DOMAIN s = 1 .. Len(s) /\ DOMAIN r = 1 .. Len(s) + 1 /\ Len(s) \in Nat
  BY <1>1
<1> HIDE DEF r
<1>3. Rng(r) = Rng(s) \cup {x}
  <2>1. \A i \in DOMAIN r : i \in DOMAIN s \/ i = Len(s) + 1
    BY <1>2
  <2>2. \A i \in DOMAIN s : i \in DOMAIN r
    BY <1>2
  <2>3. Len(s) + 1 \in DOMAIN r
    BY <1>2
  <2>4. \A i \in DOMAIN s : r[i] = s[i]
    BY <1>1, <1>2
  <2> QED BY <1>1, <2>1, <2>2, <2>3, <2>4 DEF Rng
<1>4. ASSUME Distinct(s), x \notin Rng(s) PROVE Distinct(r)
  BY <1>1, <1>2, <1>4 DEF Distinct, Rng
<1>5. \A y, z : Before(s, y, z) => Before(r, y, z)
  BY <1>1, <1>2 DEF Before
<1>6. ASSUME NEW y \in Rng(s) PROVE Before(r, y, x)
  <2>1. PICK i \in DOMAIN s : s[i] = y
    BY DEF Rng
  <2>2. i \in DOMAIN r /\ Len(s) + 1 \in DOMAIN r /\ i < Len(s) + 1
        /\ r[i] = y /\ r[Len(s) + 1] = x
    BY <1>1, <1>2, <2>1
  <2> QED BY <2>2 DEF Before
<1> QED BY <1>1, <1>3, <1>4, <1>5, <1>6 DEF r

LEMMA SeqOfSubset ==
  ASSUME NEW S, NEW s \in Seq(S), NEW T, Rng(s) \subseteq T
  PROVE  s \in Seq(T)
<1>1. \A i \in 1 .. Len(s) : s[i] \in T
  BY DEF Rng
<1>2. s \in [1 .. Len(s) -> T] /\ Len(s) \in Nat
  BY <1>1
<1> QED BY <1>2, SeqDef

LEMMA AppendedToSecond ==
  ASSUME NEW S, NEW s \in Seq(S), NEW t \in Seq(S), NEW x \in S
  PROVE  s \o Append(t, x) = Append(s \o t, x)
<1>1. <<x>> \in Seq(S) /\ s \o t \in Seq(S)
  OBVIOUS
<1>2. Append(t, x) = t \o <<x>>
  BY AppendIsConcat
<1>3. Append(s \o t, x) = (s \o t) \o <<x>>
  BY <1>1, AppendIsConcat
<1>4. (s \o t) \o <<x>> = s \o (t \o <<x>>)
  BY <1>1, ConcatAssociative
<1> QED BY <1>2, <1>3, <1>4

LEMMA TailOfFirst ==
  ASSUME NEW S, NEW s \in Seq(S), NEW t \in Seq(S), s # <<>>
  PROVE  /\ Tail(s) \o t = Tail(s \o t) /\ Head(s \o t) = Head(s)
         /\ s \o t \in Seq(S) /\ s \o t # <<>>
<1> DEFINE c == s \o t
           d == Tail(s) \o t
<1>1. Len(s) \in Nat \ {0} /\ Len(t) \in Nat
  BY EmptySeq
<1>2. /\ Tail(s) \in Seq(S) /\ Len(Tail(s)) = Len(s) - 1
      /\ \A i \in 1 .. Len(s) - 1 : Tail(s)[i] = s[i + 1]
  BY HeadTailProperties
<1>3. /\ c \in Seq(S) /\ Len(c) = Len(s) + Len(t)
      /\ \A i \in 1 .. Len(s) + Len(t) : c[i] = IF i <= Len(s) THEN s[i] ELSE t[i - Len(s)]
  BY ConcatProperties
<1>4. /\ d \in Seq(S) /\ Len(d) = Len(s) - 1 + Len(t)
      /\ \A i \in 1 .. Len(d) :
           d[i] = IF i <= Len(s) - 1 THEN Tail(s)[i] ELSE t[i - (Len(s) - 1)]
  BY <1>2, ConcatProperties
<1> HIDE DEF c, d
<1>5. c # <<>>
  BY <1>1, <1>3
<1>6. /\ Tail(c) \in Seq(S) /\ Len(Tail(c)) = Len(c) - 1
      /\ \A i \in 1 .. Len(c) - 1 : Tail(c)[i] = c[i + 1]
  BY <1>3, <1>5, HeadTailProperties
<1>7. ASSUME NEW i \in 1 .. Len(d) PROVE d[i] = Tail(c)[i]
  <2>1. i + 1 \in 1 .. Len(s) + Len(t) /\ i \in 1 .. Len(c) - 1
    BY <1>1, <1>3, <1>4
  <2>2. CASE i <= Len(s) - 1
    BY <1>1, <1>2, <1>3, <1>4, <1>6, <2>1, <2>2
  <2>3. CASE i > Len(s) - 1
    <3>1. i - (Len(s) - 1) = (i + 1) - Len(s) /\ ~(i + 1 <= Len(s))
      BY <1>1, <2>3
    <3>2. c[i + 1] = t[(i + 1) - Len(s)]
      BY <1>3, <2>1, <3>1
    <3>3. d[i] = t[i - (Len(s) - 1)]
      BY <1>1, <1>4, <2>3
    <3>4. Tail(c)[i] = c[i + 1]
      BY <1>6, <2>1
    <3>5. t[i - (Len(s) - 1)] = t[(i + 1) - Len(s)]
      BY <3>1
    <3> QED BY <3>2, <3>3, <3>4, <3>5
  <2>4. i \in Nat /\ Len(s) \in Nat
    BY <1>1, <1>4
  <2>5. i <= Len(s) - 1 \/ i > Len(s) - 1
    BY <2>4
  <2> QED BY <2>2, <2>3, <2>5
<1>8. d = Tail(c)
  BY <1>1, <1>3, <1>4, <1>6, <1>7, SeqEqual
<1>9. Head(c) = Head(s)
  BY <1>1, <1>3
<1> QED BY <1>3, <1>5, <1>8, <1>9 DEF c, d

\* An element at the other end.
LEMMA Prepended ==
  ASSUME NEW S, NEW s \in Seq(S), NEW x \in S
  PROVE  LET r == <<x>> \o s IN
         /\ r \in Seq(S) /\ r # <<>> /\ Rng(r) = Rng(s) \cup {x}
         /\ Distinct(s) /\ x \notin Rng(s) => Distinct(r)
<1> DEFINE r == <<x>> \o s
<1>1. /\ r \in Seq(S) /\ Len(r) = Len(s) + 1
      /\ r[1] = x /\ \A i \in 1 .. Len(s) : r[i + 1] = s[i]
  <2>1. <<x>> \in Seq(S) /\ Len(<<x>>) = 1 /\ <<x>>[1] = x
    OBVIOUS
  <2>2. /\ r \in Seq(S) /\ Len(r) = 1 + Len(s)
        /\ \A i \in 1 .. 1 + Len(s) : r[i] = IF i <= 1 THEN <<x>>[i] ELSE s[i - 1]
    BY <2>1, ConcatProperties
  <2> HIDE DEF r
  <2> QED BY <2>1, <2>2
<1>2. DOMAIN s = 1 .. Len(s) /\ DOMAIN r = 1 .. Len(s) + 1 /\ Len(s) \in Nat
  BY <1>1
<1> HIDE DEF r
<1>3. \A i \in DOMAIN r : i = 1 \/ (i - 1 \in DOMAIN s /\ r[i] = s[i - 1])
  <2> SUFFICES ASSUME NEW i \in DOMAIN r, i # 1
               PROVE  i - 1 \in 1 .. Len(s) /\ r[i] = s[i - 1]
    BY <1>2
  <2>1. i - 1 \in 1 .. Len(s) /\ (i - 1) + 1 = i
    BY <1>2
  <2> QED BY <1>1, <2>1
<1>4. Rng(r) = Rng(s) \cup {x}
  <2>1. \A i \in DOMAIN s : i + 1 \in DOMAIN r /\ r[i + 1] = s[i]
    BY <1>1, <1>2
  <2>2. 1 \in DOMAIN r
    BY <1>2
  <2>3. \A i \in DOMAIN r : r[i] \in Rng(s) \cup {x}
    BY <1>1, <1>3 DEF Rng
  <2>4. x \in Rng(r) /\ \A i \in DOMAIN s : s[i] \in Rng(r)
    BY <1>1, <2>1, <2>2 DEF Rng
  <2> QED BY <2>3, <2>4 DEF Rng
<1>5. ASSUME Distinct(s), x \notin Rng(s) PROVE Distinct(r)
  <2> SUFFICES ASSUME NEW i \in DOMAIN r, NEW j \in DOMAIN r, r[i] = r[j]
               PROVE  i = j
    BY DEF Distinct
  <2>1. CASE i = 1 \/ j = 1
    BY <1>1, <1>3, <1>5, <2>1 DEF Rng
  <2>2. CASE i # 1 /\ j # 1
    <3>1. i - 1 = j - 1
      BY <1>3, <1>5, <2>2 DEF Distinct
    <3> QED BY <1>2, <3>1
  <2> QED BY <2>1, <2>2
<1>6. r # <<>>
  BY <1>1
<1> QED BY <1>1, <1>4, <1>5, <1>6 DEF r

\* Head and Tail, and the same at the other end.
LEMMA Popped ==
  ASSUME NEW S, NEW s \in Seq(S), s # <<>>, NEW w \in {"head", "tail"}
  PROVE  LET r == IF w = "head" THEN Tail(s) ELSE SubSeq(s, 1, Len(s) - 1)
             e == End(s, w)
         IN  /\ r \in Seq(S) /\ e \in S /\ Len(r) = Len(s) - 1
             /\ Rng(s) = Rng(r) \cup {e}
             /\ Distinct(s) => Distinct(r) /\ e \notin Rng(r)
<1> DEFINE r == IF w = "head" THEN Tail(s) ELSE SubSeq(s, 1, Len(s) - 1)
           e == End(s, w)
           at == IF w = "head" THEN 1 ELSE Len(s)
           old(i) == IF w = "head" THEN i + 1 ELSE i
<1>1. Len(s) \in Nat \ {0} /\ DOMAIN s = 1 .. Len(s)
  BY EmptySeq
<1>2. at \in DOMAIN s /\ s[at] = e
  BY <1>1 DEF End, Last
<1>3. /\ r \in Seq(S) /\ Len(r) = Len(s) - 1
      /\ \A i \in 1 .. Len(r) : r[i] = s[old(i)]
  <2>1. CASE w = "head"
    BY <2>1, HeadTailProperties
  <2>2. CASE w = "tail"
    BY <1>1, <2>2, SubSeqProperties
  <2> QED BY <2>1, <2>2
<1>4. \A i \in 1 .. Len(r) : old(i) \in DOMAIN s /\ old(i) # at
  <2> HIDE DEF r
  <2> QED BY <1>1, <1>3
<1>5. \A i \in DOMAIN s : i # at => \E j \in 1 .. Len(r) : old(j) = i
  <2> HIDE DEF r
  <2>1. CASE w = "head"
    <3> TAKE i \in DOMAIN s
    <3> HAVE i # at
    <3>1. i - 1 \in 1 .. Len(r) /\ old(i - 1) = i
      BY <1>1, <1>3, <2>1
    <3> QED BY <3>1
  <2>2. CASE w = "tail"
    BY <1>1, <1>3, <2>2
  <2> QED BY <2>1, <2>2
<1>6. \A i, j \in 1 .. Len(r) : old(i) = old(j) => i = j
  <2> HIDE DEF r
  <2> QED BY <1>1, <1>3
<1>7. DOMAIN r = 1 .. Len(r)
  BY <1>3
<1> HIDE DEF r, e, at, old
<1>8. Rng(s) = Rng(r) \cup {e}
  <2>1. \A i \in DOMAIN r : r[i] \in Rng(s)
    BY <1>3, <1>4, <1>7 DEF Rng
  <2>2. \A i \in DOMAIN s : s[i] \in Rng(r) \cup {e}
    BY <1>2, <1>3, <1>5, <1>7 DEF Rng
  <2>3. e \in Rng(s)
    BY <1>2 DEF Rng
  <2> QED BY <2>1, <2>2, <2>3 DEF Rng
<1>9. e \in S
  BY <1>2
<1>10. ASSUME Distinct(s) PROVE Distinct(r) /\ e \notin Rng(r)
  BY <1>2, <1>3, <1>4, <1>6, <1>7, <1>10, SMTT(30) DEF Distinct, Rng
<1> QED BY <1>3, <1>8, <1>9, <1>10 DEF r, e

----------------------------------------------------------------------------
(* Key spaces.                                                             *)

Elems == 1 .. MaxElems

\* The elements of the list of a key, and that none is there twice.
In(ds, k)   == Rng(ds[k].els)
Once(ds, k) == Distinct(ds[k].els)

LEMMA PushedList ==
  ASSUME NEW ds \in [Keys -> Values], NEW k \in Keys, NEW e \in Elems,
         NEW w \in {"head", "tail"}
  PROVE  LET new == Push(ds, k, e, w) IN
         /\ new \in [Keys -> Values] /\ new[k].type = "list" /\ new[k].els # <<>>
         /\ In(new, k) = In(ds, k) \cup {e}
         /\ Once(ds, k) /\ e \notin In(ds, k) => Once(new, k)
         /\ \A j \in Keys : j # k => new[j] = ds[j]
<1> DEFINE s == ds[k].els
           r == IF w = "head" THEN <<e>> \o s ELSE Append(s, e)
<1>1. s \in Seq(Elems)
  BY DEF Values, Elems
<1>2. /\ r \in Seq(Elems) /\ r # <<>> /\ Rng(r) = Rng(s) \cup {e}
      /\ Distinct(s) /\ e \notin Rng(s) => Distinct(r)
  <2> HIDE DEF s
  <2> QED BY <1>1, Prepended, Appended
<1>3. Push(ds, k, e, w) = [ds EXCEPT ![k] = [type |-> "list", els |-> r]]
  BY DEF Push, List
<1> HIDE DEF r
<1>4. [type |-> "list", els |-> r] \in Values
  BY <1>2 DEF Values, Elems
<1> QED BY <1>2, <1>3, <1>4 DEF In, Once

LEMMA PoppedList ==
  ASSUME NEW ds \in [Keys -> Values], NEW k \in Keys, ds[k].els # <<>>,
         NEW w \in {"head", "tail"}
  PROVE  LET new == Pop(ds, k, w)
             e   == End(ds[k].els, w)
         IN  /\ new \in [Keys -> Values] /\ new[k].type = ds[k].type
             /\ e \in Elems
             /\ In(ds, k) = In(new, k) \cup {e}
             /\ Once(ds, k) => Once(new, k) /\ e \notin In(new, k)
             /\ \A j \in Keys : j # k => new[j] = ds[j]
<1> DEFINE s == ds[k].els
           r == IF w = "head" THEN Tail(s) ELSE SubSeq(s, 1, Len(s) - 1)
           e == End(s, w)
<1>1. s \in Seq(Elems) /\ s # <<>>
  BY DEF Values, Elems
<1>2. /\ r \in Seq(Elems) /\ e \in Elems /\ Rng(s) = Rng(r) \cup {e}
      /\ Distinct(s) => Distinct(r) /\ e \notin Rng(r)
  <2> HIDE DEF s
  <2> QED BY <1>1, Popped
<1>3. Pop(ds, k, w) = [ds EXCEPT ![k].els = r]
  BY DEF Pop
<1> HIDE DEF r, e
<1>4. ds[k] \in Values /\ [ds[k] EXCEPT !.els = r] \in Values
  BY <1>2 DEF Values, Elems
<1>5. [ds[k] EXCEPT !.els = r].type = ds[k].type /\ [ds[k] EXCEPT !.els = r].els = r
  BY <1>4 DEF Values
<1> QED BY <1>2, <1>3, <1>4, <1>5 DEF e, In, Once

\* dbDelete of an empty list: it changes no element.
LEMMA TidiedList ==
  ASSUME NEW ds \in [Keys -> Values], NEW k \in Keys
  PROVE  LET new == Tidy(ds, k) IN
         /\ new \in [Keys -> Values]
         /\ \A j \in Keys : new[j].els = ds[j].els
         /\ \A j \in Keys : j # k => new[j] = ds[j]
         /\ ds[k].type = "list" /\ ds[k].els = <<>> => new[k] = Nothing
         /\ ds[k].els # <<>> => new = ds
<1>1. ds[k] \in Values /\ Nothing \in Values /\ Nothing.els = <<>>
  BY DEF Values, Nothing
<1>2. CASE ds[k] = List(<<>>)
  BY <1>1, <1>2 DEF Tidy, List
<1>3. CASE ds[k] # List(<<>>)
  <2>1. ~(ds[k].type = "list" /\ ds[k].els = <<>>)
    BY <1>1, <1>3 DEF List, Values
  <2> QED BY <1>3, <2>1 DEF Tidy
<1> QED BY <1>2, <1>3

----------------------------------------------------------------------------
(* The inductive invariant.                                                *)

\* A list exists exactly if it holds elements.
Whole(ds) ==
  \A k \in Keys : IF ds[k].type = "list" THEN ds[k].els # <<>> ELSE ds[k].els = <<>>

\* Only the list being served may be empty, and only until it is tidied; the
\* reader of the commands has already deleted it.
ReplicaFollows ==
  /\ Whole(replica)
  /\ replica = IF serving.key = NoKey THEN dict ELSE Tidy(dict, serving.key)

\* All the clients of the key that is served are to be served, if the elements
\* suffice.
ServesOneList ==
  LET k == serving.key
  IN  /\ k = NoKey => serving.left = 0
      /\ k # NoKey => dict[k].type = "list" /\ serving.left = Len(blocking_keys[k])

\* Nothing is served during an EXEC.
ExecAlone == exec # NoExec => serving = Idle

\* Every list that clients wait for is being served or waits to be.
ListsSignalled ==
  \A k \in Keys : dict[k].type = "list" /\ blocking_keys[k] # <<>>
                   => k \in db_ready \/ serving.key = k

\* A client that was unblocked reads its reply before it blocks again.
OneState == blocked \cap unblocked = {}

\* freeClient and beforeSleep find every client that has the flag.
UnblockedFound == unblocked \subseteq Rng(unblocked_clients)

IndInv ==
  /\ TypeOK /\ ReadyOnce /\ ListsInOrder /\ UnblockedFound
  /\ ReplicaFollows /\ ServesOneList /\ ExecAlone
  /\ ElementsConserved
  /\ Stored \subseteq {"string"} => ListsSignalled
  /\ ~Pipelining => UnblockedOnce /\ OneState

\* ElementsConserved, of a key space, the number of elements and those taken.
Apart(ds) ==
  /\ \A k \in Keys : Once(ds, k)
  /\ \A k, j \in Keys : k # j => In(ds, k) \cap In(ds, j) = {}
Held(ds) == UNION {In(ds, k) : k \in Keys}
Conserved(ds, n, t) == Apart(ds) /\ Held(ds) = 1 .. n \ t

----------------------------------------------------------------------------
(* What the operations of the tables do.                                   *)

\* A client is in the list of a key once.
LEMMA InOrderDistinct ==
  ASSUME TypeOK, ListsInOrder, NEW k \in Keys
  PROVE  Distinct(blocking_keys[k])
<1> DEFINE s == blocking_keys[k]
<1> SUFFICES ASSUME NEW i \in DOMAIN s, NEW j \in DOMAIN s, s[i] = s[j], i < j
             PROVE  FALSE
  <2>1. \A i \in DOMAIN s : i \in Nat
    BY DEF TypeOK
  <2> QED BY <2>1 DEF Distinct
<1>1. Before(arrivals, s[i], s[j])
  BY DEF ListsInOrder
<1>2. \A a \in DOMAIN arrivals : a \in Nat
  BY DEF TypeOK
<1> QED BY <1>1, <1>2 DEF Before, Distinct, ListsInOrder

\* unblockClientWaitingData: the others keep their place.
LEMMA UnblockedLists ==
  ASSUME IndInv, NEW c \in blocked, Unblocked(c)
  PROVE  /\ ListsInOrder' /\ blocked' = blocked \ {c}
         /\ arrivals' \in Seq(blocked')
         /\ bpop' \in [Clients -> Waits]
         /\ blocking_keys' \in [Keys -> Seq(blocked')]
         /\ \A k \in bpop[c].keys : Len(blocking_keys'[k]) = Len(blocking_keys[k]) - 1
         /\ \A k \in Keys \ bpop[c].keys : blocking_keys'[k] = blocking_keys[k]
<1>1. /\ blocked' = blocked \ {c} /\ bpop' = [bpop EXCEPT ![c] = NotWaiting]
      /\ \A k \in Keys : blocking_keys'[k] = IF k \in bpop[c].keys
                                              THEN RemoveFirst(blocking_keys[k], c)
                                              ELSE blocking_keys[k]
      /\ blocking_keys' = [k \in Keys |-> blocking_keys'[k]]
      /\ arrivals' = RemoveFirst(arrivals, c)
  BY DEF Unblocked
<1>2. /\ blocked \subseteq clients /\ clients \subseteq Clients /\ arrivals \in Seq(clients)
      /\ blocking_keys \in [Keys -> Seq(clients)]
      /\ bpop \in [Clients -> Waits]
  BY DEF IndInv, TypeOK
<1>3. Rng(arrivals) = blocked /\ Distinct(arrivals)
  BY DEF IndInv, ListsInOrder
<1>4. /\ bpop' \in [Clients -> Waits]
      /\ bpop'[c].keys = {} /\ \A d \in blocked' : bpop'[d] = bpop[d]
  <2>1. NotWaiting \in Waits /\ NotWaiting.keys = {}
    BY DEF NotWaiting, Waits
  <2> QED BY <1>1, <1>2, <2>1
<1>5. /\ arrivals' \in Seq(clients) /\ Rng(arrivals') = blocked' /\ Distinct(arrivals')
      /\ \A x, y : x # c /\ y # c /\ Before(arrivals, x, y) => Before(arrivals', x, y)
  BY <1>1, <1>2, <1>3, RemovedDistinct
<1>6. arrivals' \in Seq(blocked')
  BY <1>5, SeqOfSubset
<1>7. ASSUME NEW k \in Keys
      PROVE  /\ blocking_keys'[k] \in Seq(clients)
             /\ Rng(blocking_keys'[k]) = {d \in blocked' : k \in bpop'[d].keys}
             /\ \A i, j \in DOMAIN blocking_keys'[k] :
                  i < j => Before(arrivals', blocking_keys'[k][i], blocking_keys'[k][j])
             /\ k \in bpop[c].keys => Len(blocking_keys'[k]) = Len(blocking_keys[k]) - 1
  <2> DEFINE s == blocking_keys[k]
             r == blocking_keys'[k]
  <2>1. /\ s \in Seq(clients) /\ Rng(s) = {d \in blocked : k \in bpop[d].keys}
        /\ \A i, j \in DOMAIN s : i < j => Before(arrivals, s[i], s[j])
    BY <1>2 DEF IndInv, ListsInOrder
  <2>2. CASE k \notin bpop[c].keys
    <3>1. r = s
      BY <1>1, <2>2
    <3>2. Rng(r) = {d \in blocked' : k \in bpop'[d].keys}
      BY <1>1, <1>4, <2>1, <2>2, <3>1
    <3>3. \A i \in DOMAIN s : s[i] # c
      BY <2>1, <2>2 DEF Rng
    <3> QED BY <1>5, <2>1, <2>2, <3>1, <3>2, <3>3
  <2>3. CASE k \in bpop[c].keys
    <3>1. Distinct(s)
      BY <1>2, <2>1, InOrderDistinct DEF IndInv
    <3>2. r = RemoveFirst(s, c) /\ c \in Rng(s)
      BY <1>1, <2>1, <2>3
    <3>3. /\ r \in Seq(clients) /\ Len(r) = Len(s) - 1 /\ Rng(r) = Rng(s) \ {c}
          /\ \A i, j \in DOMAIN r : i < j => Before(s, r[i], r[j])
      <4> HIDE DEF s, r
      <4> QED BY <2>1, <3>1, <3>2, RemovedDistinct
    <3>4. Rng(r) = {d \in blocked' : k \in bpop'[d].keys}
      BY <1>1, <1>4, <2>1, <3>3
    <3>5. ASSUME NEW i \in DOMAIN r, NEW j \in DOMAIN r, i < j
          PROVE  Before(arrivals', r[i], r[j])
      <4>1. r[i] # c /\ r[j] # c
        BY <3>3 DEF Rng
      <4>2. PICK a \in DOMAIN s, b \in DOMAIN s : a < b /\ s[a] = r[i] /\ s[b] = r[j]
        BY <3>3, <3>5 DEF Before
      <4>3. Before(arrivals, r[i], r[j])
        BY <2>1, <4>2
      <4> QED BY <1>5, <4>1, <4>3
    <3> QED BY <3>3, <3>4, <3>5
  <2> QED BY <2>2, <2>3
<1>8. ListsInOrder'
  BY <1>5, <1>7 DEF ListsInOrder
<1>9. \A k \in Keys : blocking_keys'[k] \in Seq(blocked')
  BY <1>7, SeqOfSubset
<1>10. blocking_keys' \in [Keys -> Seq(blocked')]
  BY <1>1, <1>9
<1>11. bpop[c].keys \subseteq Keys
  BY <1>2 DEF Waits
<1> QED BY <1>1, <1>4, <1>6, <1>7, <1>8, <1>10, <1>11

\* blockForKeys: the new client is the last of its lists.
LEMMA BlockedLists ==
  ASSUME IndInv, NEW c \in clients \ blocked, NEW ks \in SUBSET Keys,
         NEW target \in Keys \cup {NoKey}, NEW w \in {"head", "tail"}, NEW timed \in BOOLEAN,
         BlockForKeys(c, ks, target, w, timed)
  PROVE  /\ ListsInOrder'
         /\ blocked' \subseteq clients /\ arrivals' \in Seq(clients)
         /\ bpop' \in [Clients -> Waits]
         /\ blocking_keys' \in [Keys -> Seq(clients)]
         /\ \A k \in Keys \ ks : blocking_keys'[k] = blocking_keys[k]
<1> DEFINE new == [keys |-> ks, target |-> target, where |-> w, timed |-> timed]
<1>1. /\ blocked' = blocked \cup {c} /\ bpop' = [bpop EXCEPT ![c] = new]
      /\ blocking_keys' = [k \in Keys |-> IF k \in ks THEN Append(blocking_keys[k], c)
                                                       ELSE blocking_keys[k]]
      /\ arrivals' = Append(arrivals, c)
  BY DEF BlockForKeys
<1>2. /\ blocked \subseteq clients /\ clients \subseteq Clients /\ arrivals \in Seq(clients)
      /\ blocking_keys \in [Keys -> Seq(clients)]
      /\ bpop \in [Clients -> Waits]
  BY DEF IndInv, TypeOK
<1>3. Rng(arrivals) = blocked /\ Distinct(arrivals)
  BY DEF IndInv, ListsInOrder
<1>4. /\ bpop' \in [Clients -> Waits]
      /\ bpop'[c].keys = ks /\ \A d \in blocked : bpop'[d] = bpop[d]
  BY <1>1, <1>2 DEF Waits
<1>5. /\ arrivals' \in Seq(clients) /\ Rng(arrivals') = blocked' /\ Distinct(arrivals')
      /\ \A x, y : Before(arrivals, x, y) => Before(arrivals', x, y)
      /\ \A x \in blocked : Before(arrivals', x, c)
  BY <1>1, <1>2, <1>3, Appended
<1>6. ASSUME NEW k \in Keys
      PROVE  /\ blocking_keys'[k] \in Seq(clients)
             /\ Rng(blocking_keys'[k]) = {d \in blocked' : k \in bpop'[d].keys}
             /\ \A i, j \in DOMAIN blocking_keys'[k] :
                  i < j => Before(arrivals', blocking_keys'[k][i], blocking_keys'[k][j])
  <2> DEFINE s == blocking_keys[k]
             r == blocking_keys'[k]
  <2>1. /\ s \in Seq(clients) /\ Rng(s) = {d \in blocked : k \in bpop[d].keys}
        /\ \A i, j \in DOMAIN s : i < j => Before(arrivals, s[i], s[j])
    BY <1>2 DEF IndInv, ListsInOrder
  <2>2. CASE k \notin ks
    <3>1. r = s
      BY <1>1, <2>2
    <3>2. Rng(r) = {d \in blocked' : k \in bpop'[d].keys}
      BY <1>1, <1>4, <2>1, <2>2, <3>1
    <3> QED BY <1>5, <2>1, <3>1, <3>2
  <2>3. CASE k \in ks
    <3>1. r = Append(s, c)
      BY <1>1, <2>3
    <3>2. r \in Seq(clients) /\ Len(r) = Len(s) + 1 /\ Rng(r) = Rng(s) \cup {c}
          /\ r[Len(s) + 1] = c /\ \A i \in 1 .. Len(s) : r[i] = s[i]
      <4> HIDE DEF s, r
      <4> QED BY <2>1, <3>1, Appended, AppendProperties
    <3>3. Rng(r) = {d \in blocked' : k \in bpop'[d].keys}
      BY <1>1, <1>4, <2>1, <2>3, <3>2
    <3>4. ASSUME NEW i \in DOMAIN r, NEW j \in DOMAIN r, i < j
          PROVE  Before(arrivals', r[i], r[j])
      <4> HIDE DEF s, r
      <4>1. DOMAIN s = 1 .. Len(s) /\ DOMAIN r = 1 .. Len(s) + 1 /\ Len(s) \in Nat
        BY <2>1, <3>2
      <4>2. i \in DOMAIN s /\ r[i] = s[i]
        BY <3>2, <3>4, <4>1
      <4>3. CASE j = Len(s) + 1
        <5>1. r[i] \in blocked /\ r[j] = c
          BY <2>1, <3>2, <4>2, <4>3 DEF Rng
        <5> QED BY <1>5, <5>1
      <4>4. CASE j # Len(s) + 1
        <5>1. j \in DOMAIN s /\ r[j] = s[j]
          BY <3>2, <4>1, <4>4
        <5> QED BY <1>5, <2>1, <3>4, <4>2, <5>1
      <4> QED BY <4>3, <4>4
    <3> QED BY <3>2, <3>3, <3>4
  <2> QED BY <2>2, <2>3
<1>7. ListsInOrder'
  BY <1>5, <1>6 DEF ListsInOrder
<1>8. blocking_keys' \in [Keys -> Seq(clients)]
  BY <1>1, <1>6
<1> QED BY <1>1, <1>2, <1>4, <1>5, <1>7, <1>8

\* signalListAsReady: the key waits to be handled, once, also in the middle of
\* a round.
LEMMA SignalledKeys ==
  ASSUME IndInv, NEW k \in Keys, Signal(k)
  PROVE  /\ ready_keys' \in Seq(Keys)
         /\ db_ready \subseteq db_ready' /\ db_ready' \subseteq Keys
         /\ blocking_keys[k] # <<>> => k \in db_ready'
         /\ Rng(serving.keys \o ready_keys') = db_ready'
         /\ Distinct(serving.keys \o ready_keys')
<1> DEFINE s == serving.keys \o ready_keys
<1>1. ready_keys \in Seq(Keys) /\ db_ready \subseteq Keys /\ serving.keys \in Seq(Keys)
  BY DEF IndInv, TypeOK
<1>2. s \in Seq(Keys) /\ Rng(s) = db_ready /\ Distinct(s)
  BY <1>1 DEF IndInv, ReadyOnce
<1>3. CASE UNCHANGED readyVars /\ (blocking_keys[k] # <<>> => k \in db_ready)
  BY <1>1, <1>2, <1>3 DEF readyVars
<1>4. CASE k \notin db_ready /\ db_ready' = db_ready \cup {k} /\ ready_keys' = Append(ready_keys, k)
  <2>1. serving.keys \o ready_keys' = Append(s, k)
    <3>1. \A a, b \in Seq(Keys) : a \o Append(b, k) = Append(a \o b, k)
      BY AppendedToSecond
    <3>2. serving.keys \o Append(ready_keys, k) = Append(serving.keys \o ready_keys, k)
      BY <1>1, <3>1
    <3> QED BY <1>4, <3>2
  <2>2. Rng(Append(s, k)) = db_ready' /\ Distinct(Append(s, k))
    <3> HIDE DEF s
    <3> QED BY <1>2, <1>4, Appended
  <2> QED BY <1>1, <1>4, <2>1, <2>2
<1> QED BY <1>3, <1>4 DEF Signal

LEMMA Signalled ==
  ASSUME IndInv, NEW k \in Keys, Signal(k), UNCHANGED serving
  PROVE  /\ ReadyOnce' /\ ready_keys' \in Seq(Keys)
         /\ db_ready \subseteq db_ready' /\ db_ready' \subseteq Keys
         /\ blocking_keys[k] # <<>> => k \in db_ready'
<1>1. ready_keys' \in Seq(Keys) /\ db_ready \subseteq db_ready' /\ db_ready' \subseteq Keys
      /\ (blocking_keys[k] # <<>> => k \in db_ready')
      /\ Rng(serving.keys \o ready_keys') = db_ready' /\ Distinct(serving.keys \o ready_keys')
  BY SignalledKeys
<1>2. ReadyOnce'
  BY <1>1, Zenon DEF ReadyOnce
<1> QED BY <1>1, <1>2

----------------------------------------------------------------------------
(* The steps.                                                              *)

\* A command that changes the key space as its reader will, and signals the
\* lists it makes.
LEMMA Executed ==
  ASSUME IndInv, serving = Idle,
         NEW new \in [Keys -> Values], dict' = new, replica' = new, Whole(new),
         nelems' \in 0 .. MaxElems, taken' \subseteq 1 .. nelems', Conserved(new, nelems', taken'),
         exec = NoExec \/ exec.left > 0, CountExec,
         ReadyOnce', ready_keys' \in Seq(Keys), db_ready' \subseteq Keys,
         db_ready \subseteq db_ready',
         Stored \subseteq {"string"} =>
           \A k \in Keys : /\ new[k].type = "list" /\ dict[k].type # "list"
                          /\ blocking_keys[k] # <<>>
                          => k \in db_ready',
         UNCHANGED <<clients, tableVars, queueVars, serving>>
  PROVE  IndInv'
<1>1. TypeOK /\ ListsInOrder /\ ServesOneList /\ ExecAlone
  BY DEF IndInv
<1>2. exec' \in [client : Clients \cup {NoClient}, left : 0 .. MaxQueue]
  <2>1. MaxQueue \in Nat /\ exec \in [client : Clients \cup {NoClient}, left : 0 .. MaxQueue]
    BY <1>1, ConstantsAssumption DEF TypeOK
  <2> QED BY <2>1 DEF CountExec
<1>3. TypeOK'
  BY <1>1, <1>2 DEF TypeOK, tableVars, queueVars, Elems
<1>4. ListsInOrder' /\ ServesOneList' /\ ExecAlone'
  BY <1>1 DEF ListsInOrder, ServesOneList, ExecAlone, tableVars, Idle
<1>5. ReplicaFollows'
  BY DEF ReplicaFollows, Idle
<1>6. ElementsConserved'
  BY DEF ElementsConserved, Conserved, Apart, Held, In, Once
<1>7. ASSUME Stored \subseteq {"string"} PROVE ListsSignalled'
  BY <1>7 DEF IndInv, ListsSignalled, tableVars, Idle
<1>8. ASSUME ~Pipelining PROVE UnblockedOnce' /\ OneState'
  BY <1>8 DEF IndInv, UnblockedOnce, OneState, tableVars, queueVars
<1>9. UnblockedFound'
  BY DEF IndInv, UnblockedFound, queueVars
<1> QED BY <1>3, <1>4, <1>5, <1>6, <1>7, <1>8, <1>9 DEF IndInv

\* When a client may run a command the data set is whole.
LEMMA Settled ==
  ASSUME IndInv, NEW c, NEW op, May(c, op)
  PROVE  /\ serving = Idle /\ (exec = NoExec \/ exec.left > 0) /\ c \in clients \ blocked
         /\ replica = dict /\ dict \in [Keys -> Values] /\ Whole(dict)
         /\ nelems \in 0 .. MaxElems /\ taken \subseteq 1 .. nelems
         /\ Conserved(dict, nelems, taken)
         /\ ReadyOnce /\ ready_keys \in Seq(Keys) /\ db_ready \subseteq Keys
         /\ \A k \in Keys : In(dict, k) \subseteq 1 .. nelems \ taken
<1>1. serving = Idle /\ (exec = NoExec \/ exec.left > 0) /\ c \in clients \ blocked
  BY DEF May, IndInv, ExecAlone, NotServing, NoExec
<1>2. replica = dict /\ dict \in [Keys -> Values] /\ Whole(dict)
  BY <1>1 DEF IndInv, TypeOK, ReplicaFollows, Idle
<1>3. /\ nelems \in 0 .. MaxElems /\ taken \subseteq 1 .. nelems
      /\ ReadyOnce /\ ready_keys \in Seq(Keys) /\ db_ready \subseteq Keys
  BY DEF IndInv, TypeOK, Elems
<1>4. Conserved(dict, nelems, taken)
  BY DEF IndInv, ElementsConserved, Conserved, Apart, Held, In, Once
<1> QED BY <1>1, <1>2, <1>3, <1>4 DEF Conserved, Held

\* Whether its key was there or not.
LEMMA SignalledIfAdded ==
  ASSUME IndInv, NEW k \in Keys, SignalIfAdded(k), UNCHANGED serving
  PROVE  /\ ReadyOnce' /\ ready_keys' \in Seq(Keys)
         /\ db_ready \subseteq db_ready' /\ db_ready' \subseteq Keys
         /\ dict[k].type = "none" /\ blocking_keys[k] # <<>> => k \in db_ready'
<1>1. CASE dict[k].type = "none"
  BY <1>1, Signalled DEF SignalIfAdded
<1>2. CASE dict[k].type # "none"
  BY <1>2 DEF SignalIfAdded, readyVars, IndInv, TypeOK, ReadyOnce
<1> QED BY <1>1, <1>2

\* A value takes the place of another.
LEMMA Replaced ==
  ASSUME NEW ds, NEW new, NEW k \in Keys, \A j \in Keys : j # k => new[j] = ds[j],
         Apart(ds), Once(new, k),
         In(new, k) \cap (Held(ds) \ In(ds, k)) = {}
  PROVE  Apart(new) /\ Held(new) = (Held(ds) \ In(ds, k)) \cup In(new, k)
<1>1. \A j \in Keys : j # k => In(ds, j) \cap In(ds, k) = {}
  BY DEF Apart
<1>2. \A j \in Keys : j # k => In(new, j) = In(ds, j)
  BY DEF In
<1>3. \A j \in Keys : j # k => In(new, j) \subseteq Held(ds) \ In(ds, k)
  BY <1>1, <1>2 DEF Held
<1>4. Apart(new)
  <2>1. \A j \in Keys : Once(new, j)
    BY DEF Apart, Once
  <2>2. ASSUME NEW i \in Keys, NEW j \in Keys, i # j
        PROVE  In(new, i) \cap In(new, j) = {}
    <3>1. CASE i = k \/ j = k
      BY <1>3, <2>2, <3>1
    <3>2. CASE i # k /\ j # k
      BY <1>2, <2>2, <3>2 DEF Apart
    <3> QED BY <3>1, <3>2
  <2> QED BY <2>1, <2>2 DEF Apart
<1>5. Held(new) \subseteq (Held(ds) \ In(ds, k)) \cup In(new, k)
  BY <1>3 DEF Held
<1>6. ASSUME NEW x \in Held(ds) \ In(ds, k) PROVE x \in Held(new)
  <2>1. PICK j \in Keys : x \in In(ds, j)
    BY DEF Held
  <2> QED BY <1>2, <2>1 DEF Held
<1>7. In(new, k) \subseteq Held(new)
  BY DEF Held
<1> QED BY <1>4, <1>5, <1>6, <1>7

LEMMA PopHeld ==
  ASSUME NEW ds \in [Keys -> Values], NEW k \in Keys, ds[k].els # <<>>, Apart(ds),
         NEW w \in {"head", "tail"}
  PROVE  LET new == Pop(ds, k, w)
             e   == End(ds[k].els, w)
         IN  /\ new \in [Keys -> Values] /\ new[k].type = ds[k].type
             /\ \A j \in Keys : j # k => new[j] = ds[j]
             /\ e \in Elems /\ e \in Held(ds)
             /\ Apart(new) /\ Held(new) = Held(ds) \ {e}
<1> DEFINE new == Pop(ds, k, w)
           e   == End(ds[k].els, w)
<1>1. /\ new \in [Keys -> Values] /\ new[k].type = ds[k].type /\ e \in Elems
      /\ In(ds, k) = In(new, k) \cup {e}
      /\ Once(ds, k) => Once(new, k) /\ e \notin In(new, k)
      /\ \A j \in Keys : j # k => new[j] = ds[j]
  BY PoppedList
<1> HIDE DEF new, e
<1>2. In(ds, k) \subseteq Held(ds)
  BY DEF Held
<1>3. Once(new, k) /\ e \notin In(new, k)
  BY <1>1 DEF Apart
<1>4. Apart(new) /\ Held(new) = (Held(ds) \ In(ds, k)) \cup In(new, k)
  BY <1>1, <1>3, Replaced
<1> QED BY <1>1, <1>2, <1>3, <1>4 DEF new, e

LEMMA PushHeld ==
  ASSUME NEW ds \in [Keys -> Values], NEW k \in Keys, Apart(ds),
         NEW e \in Elems, e \notin Held(ds), NEW w \in {"head", "tail"}
  PROVE  LET new == Push(ds, k, e, w)
         IN  /\ new \in [Keys -> Values] /\ new[k].type = "list" /\ new[k].els # <<>>
             /\ \A j \in Keys : j # k => new[j] = ds[j]
             /\ Apart(new) /\ Held(new) = Held(ds) \cup {e}
<1> DEFINE new == Push(ds, k, e, w)
<1>1. In(ds, k) \subseteq Held(ds)
  BY DEF Held
<1>2. Once(ds, k) /\ e \notin In(ds, k)
  BY <1>1 DEF Apart
<1>3. /\ new \in [Keys -> Values] /\ new[k].type = "list" /\ new[k].els # <<>>
      /\ In(new, k) = In(ds, k) \cup {e}
      /\ Once(ds, k) /\ e \notin In(ds, k) => Once(new, k)
      /\ \A j \in Keys : j # k => new[j] = ds[j]
  BY PushedList
<1> HIDE DEF new
<1>4. In(new, k) \cap (Held(ds) \ In(ds, k)) = {}
  BY <1>3
<1>5. Apart(new) /\ Held(new) = (Held(ds) \ In(ds, k)) \cup In(new, k)
  BY <1>2, <1>3, <1>4, Replaced
<1> QED BY <1>1, <1>3, <1>5 DEF new

LEMMA TidyHeld ==
  ASSUME NEW ds \in [Keys -> Values], NEW k \in Keys, Apart(ds)
  PROVE  Apart(Tidy(ds, k)) /\ Held(Tidy(ds, k)) = Held(ds)
<1> DEFINE new == Tidy(ds, k)
<1>1. \A j \in Keys : new[j].els = ds[j].els
  BY TidiedList
<1> HIDE DEF new
<1>2. Apart(new) /\ Held(new) = Held(ds)
  BY <1>1 DEF Apart, Held, In, Once
<1> QED BY <1>2 DEF new

\* An element moves from one list to another, or within one.
LEMMA MoveHeld ==
  ASSUME NEW ds \in [Keys -> Values], NEW src \in Keys, NEW dst \in Keys,
         ds[src].els # <<>>, ds[src].type = "list", Apart(ds)
  PROVE  LET new == Push(Pop(ds, src, "tail"), dst, Last(ds[src].els), "head")
         IN  /\ new \in [Keys -> Values] /\ Apart(new) /\ Held(new) = Held(ds)
             /\ new[dst].type = "list" /\ new[dst].els # <<>> /\ new[src].type = "list"
             /\ \A j \in Keys : j # src /\ j # dst => new[j] = ds[j]
<1> DEFINE mid == Pop(ds, src, "tail")
           e   == Last(ds[src].els)
           new == Push(mid, dst, e, "head")
<1>1. End(ds[src].els, "tail") = e
  BY DEF End
<1>2. /\ mid \in [Keys -> Values] /\ mid[src].type = "list"
      /\ \A j \in Keys : j # src => mid[j] = ds[j]
      /\ e \in Elems /\ e \in Held(ds)
      /\ Apart(mid) /\ Held(mid) = Held(ds) \ {e}
  <2> HIDE DEF e
  <2> QED BY <1>1, PopHeld
<1> HIDE DEF mid, e
<1>3. /\ new \in [Keys -> Values] /\ new[dst].type = "list" /\ new[dst].els # <<>>
      /\ \A j \in Keys : j # dst => new[j] = mid[j]
      /\ Apart(new) /\ Held(new) = Held(mid) \cup {e}
  BY <1>2, PushHeld
<1> HIDE DEF new
<1>4. new[src].type = "list"
  BY <1>2, <1>3
<1> QED BY <1>2, <1>3, <1>4 DEF new, mid, e

LEMMA PushCommandKeeps ==
  ASSUME IndInv, NEW c \in Clients, NEW k \in Keys, NEW w \in {"head", "tail"},
         PushCommand(c, k, w)
  PROVE  IndInv'
<1> DEFINE e   == nelems'
           new == Push(dict, k, e, w)
<1>1. /\ nelems < MaxElems /\ nelems' = nelems + 1 /\ taken' = taken
      /\ dict' = new /\ replica' = Push(replica, k, nelems', w)
      /\ CountExec /\ SignalIfAdded(k) /\ dict[k].type # "string"
      /\ UNCHANGED <<clients, tableVars, queueVars, serving>>
  BY DEF PushCommand, Execute
<1>2. PICK op : May(c, op)
  BY DEF PushCommand
<1>3. /\ serving = Idle /\ (exec = NoExec \/ exec.left > 0)
      /\ replica = dict /\ dict \in [Keys -> Values] /\ Whole(dict)
      /\ nelems \in 0 .. MaxElems /\ taken \subseteq 1 .. nelems
      /\ Apart(dict) /\ Held(dict) = 1 .. nelems \ taken
      /\ In(dict, k) \subseteq 1 .. nelems
  BY <1>2, Settled DEF Conserved
<1>4. MaxElems \in Nat
  BY ConstantsAssumption
<1>5. dict \in [Keys -> Values] /\ Apart(dict) /\ e \in Elems /\ e \notin Held(dict)
  BY <1>1, <1>3, <1>4 DEF Elems
<1>6. /\ new \in [Keys -> Values] /\ new[k].type = "list" /\ new[k].els # <<>>
      /\ \A j \in Keys : j # k => new[j] = dict[j]
      /\ Apart(new) /\ Held(new) = Held(dict) \cup {e}
  <2> HIDE DEF e
  <2> QED BY <1>5, PushHeld
<1> HIDE DEF new
<1>8. Conserved(new, nelems', taken') /\ nelems' \in 0 .. MaxElems /\ taken' \subseteq 1 .. nelems'
  BY <1>1, <1>3, <1>4, <1>6 DEF Conserved
<1>9. Whole(new)
  BY <1>3, <1>6 DEF Whole
<1>10. /\ ReadyOnce' /\ ready_keys' \in Seq(Keys) /\ db_ready' \subseteq Keys
       /\ db_ready \subseteq db_ready'
       /\ \A j \in Keys : new[j].type = "list" /\ dict[j].type # "list" /\ blocking_keys[j] # <<>>
                          => j \in db_ready'
  <2>1. dict[k].type \in {"none", "list", "string"}
    BY <1>3 DEF Values
  <2> QED BY <1>1, <1>6, <2>1, SignalledIfAdded
<1> QED BY <1>1, <1>3, <1>6, <1>8, <1>9, <1>10, Executed DEF new

LEMMA PopTidied ==
  ASSUME NEW ds \in [Keys -> Values], Whole(ds), NEW k \in Keys, ds[k].type = "list", Apart(ds),
         NEW w \in {"head", "tail"}
  PROVE  LET new == PopAndTidy(ds, k, w)
             e   == End(ds[k].els, w)
         IN  /\ new \in [Keys -> Values] /\ Whole(new)
             /\ \A j \in Keys : new[j].type = "list" => ds[j].type = "list"
             /\ e \in Elems /\ e \in Held(ds)
             /\ Apart(new) /\ Held(new) = Held(ds) \ {e}
<1> DEFINE mid == Pop(ds, k, w)
           e   == End(ds[k].els, w)
           new == Tidy(mid, k)
<1>1. ds[k].els # <<>>
  BY DEF Whole
<1>2. /\ mid \in [Keys -> Values] /\ mid[k].type = "list"
      /\ \A j \in Keys : j # k => mid[j] = ds[j]
      /\ e \in Elems /\ e \in Held(ds)
      /\ Apart(mid) /\ Held(mid) = Held(ds) \ {e}
  BY <1>1, PopHeld
<1> HIDE DEF mid, e
<1>3. /\ new \in [Keys -> Values]
      /\ \A j \in Keys : j # k => new[j] = mid[j]
      /\ mid[k].type = "list" /\ mid[k].els = <<>> => new[k] = Nothing
      /\ mid[k].els # <<>> => new = mid
      /\ Apart(new) /\ Held(new) = Held(mid)
  BY <1>2, TidiedList, TidyHeld
<1> HIDE DEF new
<1>4. Nothing.type = "none" /\ Nothing.els = <<>>
  BY DEF Nothing
<1>5. Whole(new)
  BY <1>2, <1>3, <1>4 DEF Whole
<1>6. \A j \in Keys : new[j].type = "list" => ds[j].type = "list"
  BY <1>2, <1>3
<1>7. PopAndTidy(ds, k, w) = new
  BY DEF PopAndTidy, new, mid
<1> QED BY <1>2, <1>3, <1>5, <1>6, <1>7 DEF e

\* The first of two keys is found if there is one.
LEMMA FirstKeyIsKey ==
  ASSUME NEW ks \in KeyLists
  PROVE  /\ Rng(ks) \subseteq Keys
         /\ FirstKey(ks) # NoKey => FirstKey(ks) \in Keys
         /\ FirstKey(ks) = NoKey => \A k \in Rng(ks) : dict[k].type = "none"
<1>1. /\ DOMAIN ks \in {1 .. 1, 1 .. 2} /\ \A i \in DOMAIN ks : ks[i] \in Keys
  <2>1. ks \in {<<k>> : k \in Keys} \/ ks \in [1 .. 2 -> Keys]
    BY DEF KeyLists
  <2>2. CASE ks \in {<<k>> : k \in Keys}
    BY <2>2
  <2> QED BY <2>1, <2>2
<1> DEFINE Found(i) == /\ dict[ks[i]].type # "none"
                       /\ \A j \in 1 .. i - 1 : dict[ks[j]].type = "none"
<1>2. CASE \E i \in DOMAIN ks : dict[ks[i]].type # "none"
  <2>1. \E i \in DOMAIN ks : Found(i)
    <3>1. CASE dict[ks[1]].type # "none"
      BY <1>1, <3>1
    <3>2. CASE dict[ks[1]].type = "none"
      BY <1>1, <1>2, <3>2
    <3> QED BY <3>1, <3>2
  <2>2. (CHOOSE i \in DOMAIN ks : Found(i)) \in DOMAIN ks
    <3> HIDE DEF Found
    <3> QED BY <2>1
  <2>3. FirstKey(ks) = ks[CHOOSE i \in DOMAIN ks : Found(i)]
    BY <1>2 DEF FirstKey
  <2> HIDE DEF Found
  <2>4. FirstKey(ks) \in Keys
    BY <1>1, <2>2, <2>3
  <2> QED BY <1>1, <2>4, ConstantsAssumption DEF Rng
<1>3. CASE ~ \E i \in DOMAIN ks : dict[ks[i]].type # "none"
  BY <1>1, <1>3 DEF FirstKey, Rng
<1> QED BY <1>2, <1>3

\* LPOP and RPOP, and BLPOP and BRPOP when there is data.
LEMMA PopKeeps ==
  ASSUME IndInv, NEW c, NEW op, May(c, op), NEW k \in Keys, dict[k].type = "list",
         NEW w \in {"head", "tail"},
         taken' = taken \cup {End(dict[k].els, w)},
         dict' = PopAndTidy(dict, k, w), replica' = PopAndTidy(replica, k, w),
         CountExec, UNCHANGED <<clients, tableVars, queueVars, serving>>,
         UNCHANGED <<readyVars, nelems>>
  PROVE  IndInv'
<1> DEFINE new == PopAndTidy(dict, k, w)
           e   == End(dict[k].els, w)
<1>1. /\ serving = Idle /\ (exec = NoExec \/ exec.left > 0)
      /\ replica = dict /\ dict \in [Keys -> Values] /\ Whole(dict)
      /\ nelems \in 0 .. MaxElems /\ taken \subseteq 1 .. nelems
      /\ Apart(dict) /\ Held(dict) = 1 .. nelems \ taken
      /\ ReadyOnce /\ ready_keys \in Seq(Keys) /\ db_ready \subseteq Keys
  BY Settled DEF Conserved
<1>2. /\ new \in [Keys -> Values] /\ Whole(new)
      /\ \A j \in Keys : new[j].type = "list" => dict[j].type = "list"
      /\ e \in Elems /\ e \in Held(dict)
      /\ Apart(new) /\ Held(new) = Held(dict) \ {e}
  BY <1>1, PopTidied
<1> HIDE DEF new, e
<1>3. taken' = taken \cup {e} /\ dict' = new /\ replica' = new /\ nelems' = nelems
      /\ db_ready' = db_ready /\ ready_keys' = ready_keys
  BY <1>1 DEF new, e, readyVars
<1>4. Conserved(new, nelems', taken') /\ nelems' \in 0 .. MaxElems /\ taken' \subseteq 1 .. nelems'
  BY <1>1, <1>2, <1>3 DEF Conserved
<1>5. ReadyOnce' /\ ready_keys' \in Seq(Keys) /\ db_ready' \subseteq Keys
  BY <1>1, <1>3 DEF ReadyOnce
<1> QED BY <1>1, <1>2, <1>3, <1>4, <1>5, Executed

LEMMA LpopCommandKeeps ==
  ASSUME IndInv, NEW c \in Clients, NEW k \in Keys, LpopCommand(c, k)
  PROVE  IndInv'
<1>1. /\ May(c, "lpop") /\ dict[k].type = "list"
      /\ dict' = PopAndTidy(dict, k, "head") /\ replica' = PopAndTidy(replica, k, "head")
      /\ taken' = taken \cup {End(dict[k].els, "head")}
      /\ CountExec /\ UNCHANGED <<clients, tableVars, queueVars, serving>>
      /\ UNCHANGED <<readyVars, nelems>>
  BY DEF LpopCommand, Execute, End
<1> QED BY <1>1, PopKeeps

LEMMA PopFirstKeeps ==
  ASSUME IndInv, NEW c \in Clients, NEW op, May(c, op), NEW ks \in KeyLists,
         NEW w \in {"head", "tail"}, PopFirst(c, ks, w)
  PROVE  IndInv'
<1> DEFINE k == FirstKey(ks)
<1>1. /\ k # NoKey /\ dict[k].type = "list"
      /\ taken' = taken \cup {End(dict[k].els, w)}
      /\ dict' = PopAndTidy(dict, k, w) /\ replica' = PopAndTidy(replica, k, w)
      /\ CountExec /\ UNCHANGED <<clients, tableVars, queueVars, serving>>
      /\ UNCHANGED <<readyVars, nelems>>
  BY DEF PopFirst, Execute
<1>2. k \in Keys
  BY <1>1, FirstKeyIsKey
<1> QED BY <1>1, <1>2, PopKeeps

\* RPOPLPUSH, and BRPOPLPUSH when there is data.
LEMMA RpoplpushCommandKeeps ==
  ASSUME IndInv, NEW c \in Clients, NEW src \in Keys, NEW dst \in Keys,
         RpoplpushCommand(c, src, dst)
  PROVE  IndInv'
<1> DEFINE mid == Push(Pop(dict, src, "tail"), dst, Last(dict[src].els), "head")
           new == Tidy(mid, src)
<1>1. /\ May(c, "rpoplpush") /\ dict[src].type = "list" /\ dict[dst].type # "string"
      /\ dict' = new /\ replica' = Rpoplpush(replica, src, dst)
      /\ CountExec /\ UNCHANGED <<clients, tableVars, queueVars, serving>>
      /\ SignalIfAdded(dst) /\ nelems' = nelems /\ taken' = taken
  BY DEF RpoplpushCommand, Execute, Rpoplpush
<1>2. /\ serving = Idle /\ (exec = NoExec \/ exec.left > 0)
      /\ replica = dict /\ dict \in [Keys -> Values] /\ Whole(dict)
      /\ nelems \in 0 .. MaxElems /\ taken \subseteq 1 .. nelems
      /\ Apart(dict) /\ Held(dict) = 1 .. nelems \ taken
  BY <1>1, Settled DEF Conserved
<1>3. replica' = new
  BY <1>1, <1>2 DEF Rpoplpush
<1>4. dict[src].els # <<>>
  BY <1>1, <1>2 DEF Whole
<1>5. /\ mid \in [Keys -> Values] /\ Apart(mid) /\ Held(mid) = Held(dict)
      /\ mid[dst].type = "list" /\ mid[dst].els # <<>> /\ mid[src].type = "list"
      /\ \A j \in Keys : j # src /\ j # dst => mid[j] = dict[j]
  BY <1>1, <1>2, <1>4, MoveHeld
<1> HIDE DEF mid
<1>6. /\ new \in [Keys -> Values] /\ Apart(new) /\ Held(new) = Held(mid)
      /\ \A j \in Keys : j # src => new[j] = mid[j]
      /\ mid[src].els = <<>> => new[src] = Nothing
      /\ mid[src].els # <<>> => new = mid
  BY <1>5, TidiedList, TidyHeld
<1> HIDE DEF new
<1>7. Nothing.type = "none" /\ Nothing.els = <<>>
  BY DEF Nothing
<1>8. Whole(new)
  BY <1>2, <1>5, <1>6, <1>7 DEF Whole
<1>9. Conserved(new, nelems', taken') /\ nelems' \in 0 .. MaxElems /\ taken' \subseteq 1 .. nelems'
  BY <1>1, <1>2, <1>5, <1>6 DEF Conserved
<1>10. /\ ReadyOnce' /\ ready_keys' \in Seq(Keys) /\ db_ready' \subseteq Keys
       /\ db_ready \subseteq db_ready'
       /\ dict[dst].type = "none" /\ blocking_keys[dst] # <<>> => dst \in db_ready'
  BY <1>1, SignalledIfAdded
<1>11. ASSUME NEW j \in Keys, new[j].type = "list", dict[j].type # "list", blocking_keys[j] # <<>>
       PROVE  j \in db_ready'
  <2>1. j # src
    BY <1>1, <1>11
  <2>2. j = dst
    BY <1>5, <1>6, <1>11, <2>1
  <2>3. dict[dst].type \in {"none", "list", "string"}
    BY <1>2 DEF Values
  <2> QED BY <1>1, <1>10, <1>11, <2>2, <2>3
<1> QED BY <1>1, <1>2, <1>3, <1>6, <1>8, <1>9, <1>10, <1>11, Executed

LEMMA ValueOf ==
  ASSUME NEW type \in {"none", "list", "string"}, NEW s \in Seq(Elems)
  PROVE  [type |-> type, els |-> s] \in Values
BY DEF Values, Elems

LEMMA SetKeyKeeps ==
  ASSUME IndInv, NEW c \in Clients, NEW k \in Keys, NEW type \in Stored, SetKey(c, k, type)
  PROVE  IndInv'
<1> DEFINE v   == IF type = "list" THEN List(<<nelems + 1>>) ELSE [type |-> "string", els |-> <<>>]
           new == [dict EXCEPT ![k] = v]
<1>1. /\ May(c, "set") /\ nelems' = nelems + Len(v.els) /\ nelems' <= MaxElems
      /\ taken' = taken \cup In(dict, k)
      /\ dict' = new /\ replica' = [replica EXCEPT ![k] = v]
      /\ CountExec /\ UNCHANGED <<clients, tableVars, queueVars, serving>>
      /\ IF type = "list" THEN SignalIfAdded(k) ELSE UNCHANGED readyVars
  BY DEF SetKey, Execute, In
<1>2. /\ serving = Idle /\ (exec = NoExec \/ exec.left > 0)
      /\ replica = dict /\ dict \in [Keys -> Values] /\ Whole(dict)
      /\ nelems \in 0 .. MaxElems /\ taken \subseteq 1 .. nelems
      /\ Apart(dict) /\ Held(dict) = 1 .. nelems \ taken
      /\ ReadyOnce /\ ready_keys \in Seq(Keys) /\ db_ready \subseteq Keys
  BY <1>1, Settled DEF Conserved
<1>3. type \in {"string", "list"} /\ MaxElems \in Nat
  BY ConstantsAssumption
<1>4. /\ v \in Values /\ v.type = type /\ (type = "list" <=> v.els # <<>>)
      /\ Distinct(v.els) /\ Rng(v.els) = (nelems + 1) .. nelems'
  <2>1. CASE type = "list"
    <3>1. v = [type |-> "list", els |-> <<nelems + 1>>] /\ nelems' = nelems + 1
      BY <1>1, <2>1 DEF List
    <3>2. nelems + 1 \in 1 .. MaxElems
      BY <1>1, <1>2, <1>3, <3>1
    <3>3. v \in Values
      <4>1. <<nelems + 1>> \in Seq(Elems)
        BY <3>2 DEF Elems
      <4> HIDE DEF v
      <4> QED BY <3>1, <4>1, ValueOf
    <3>4. (nelems + 1) .. nelems' = {nelems + 1}
      BY <1>2, <3>1
    <3> QED BY <2>1, <3>1, <3>3, <3>4 DEF Rng, Distinct
  <2>2. CASE type = "string"
    <3>1. v = [type |-> "string", els |-> <<>>] /\ nelems' = nelems
      BY <1>1, <1>2, <2>2
    <3>2. v \in Values
      <4>1. <<>> \in Seq(Elems)
        OBVIOUS
      <4> HIDE DEF v
      <4> QED BY <3>1, <4>1, ValueOf
    <3>3. (nelems + 1) .. nelems' = {}
      BY <1>2, <3>1
    <3> QED BY <2>2, <3>1, <3>2, <3>3 DEF Rng, Distinct
  <2> QED BY <1>3, <2>1, <2>2
<1>5. nelems' \in 0 .. MaxElems /\ nelems <= nelems'
  <2>1. Len(v.els) \in Nat
    BY <1>4 DEF Values
  <2> HIDE DEF v
  <2> QED BY <1>1, <1>2, <1>3, <2>1
<1> HIDE DEF v
<1>6. /\ new \in [Keys -> Values] /\ new[k] = v /\ replica' = new
      /\ \A j \in Keys : j # k => new[j] = dict[j]
  BY <1>1, <1>2, <1>4
<1> HIDE DEF new
<1>7. Whole(new)
  BY <1>2, <1>3, <1>4, <1>6 DEF Whole
<1>8. In(new, k) = (nelems + 1) .. nelems' /\ Once(new, k)
  BY <1>4, <1>6 DEF In, Once
<1>9. In(dict, k) \subseteq Held(dict)
  BY DEF Held
<1>10. In(new, k) \cap (Held(dict) \ In(dict, k)) = {}
  BY <1>2, <1>8
<1>11. Apart(new) /\ Held(new) = (Held(dict) \ In(dict, k)) \cup In(new, k)
  BY <1>2, <1>6, <1>8, <1>10, Replaced
<1>12. Held(new) = 1 .. nelems' \ taken'
  BY <1>1, <1>2, <1>5, <1>8, <1>9, <1>11
<1>13. taken' \subseteq 1 .. nelems'
  <2>1. In(dict, k) \subseteq 1 .. nelems /\ nelems \in Nat /\ nelems' \in Nat
    BY <1>2, <1>3, <1>5, <1>9
  <2>2. taken' \subseteq 1 .. nelems
    BY <1>1, <1>2, <2>1
  <2>3. 1 .. nelems \subseteq 1 .. nelems'
    BY <1>5, <2>1
  <2> QED BY <2>2, <2>3
<1>14. Conserved(new, nelems', taken')
  BY <1>11, <1>12 DEF Conserved
<1>15. /\ ReadyOnce' /\ ready_keys' \in Seq(Keys) /\ db_ready' \subseteq Keys
       /\ db_ready \subseteq db_ready'
  <2>1. CASE type = "list"
    BY <1>1, <2>1, SignalledIfAdded
  <2>2. CASE type # "list"
    BY <1>1, <1>2, <2>2 DEF readyVars, ReadyOnce
  <2> QED BY <2>1, <2>2
<1>16. ASSUME Stored \subseteq {"string"}, NEW j \in Keys, new[j].type = "list"
       PROVE  dict[j].type = "list"
  BY <1>4, <1>6, <1>16
<1> QED BY <1>1, <1>2, <1>5, <1>6, <1>7, <1>13, <1>14, <1>15, <1>16, Executed

\* A key is deleted or expires: not the one that is being served.
LEMMA RemoveKeeps ==
  ASSUME IndInv, NEW k \in Keys, serving.key # k, Remove(k),
         exec' \in [client : Clients \cup {NoClient}, left : 0 .. MaxQueue],
         exec' # NoExec => serving = Idle
  PROVE  IndInv'
<1> DEFINE new == [dict EXCEPT ![k] = Nothing]
<1>1. /\ dict' = new /\ replica' = [replica EXCEPT ![k] = Nothing]
      /\ taken' = taken \cup In(dict, k) /\ nelems' = nelems
      /\ UNCHANGED <<clients, tableVars, queueVars, readyVars, nelems, serving>>
  BY DEF Remove, In
<1>2. /\ TypeOK /\ ReadyOnce /\ ListsInOrder /\ ReplicaFollows /\ ServesOneList /\ ExecAlone
      /\ Apart(dict) /\ Held(dict) = 1 .. nelems \ taken
  BY DEF IndInv, ElementsConserved, Apart, Held, In, Once
<1>3. Nothing \in Values /\ Nothing.type = "none" /\ Nothing.els = <<>>
      /\ Rng(<<>>) = {} /\ Distinct(<<>>)
  BY DEF Nothing, Values, Rng, Distinct
<1>4. dict \in [Keys -> Values] /\ replica \in [Keys -> Values]
  BY <1>2 DEF TypeOK
<1>5. /\ new \in [Keys -> Values] /\ new[k] = Nothing
      /\ replica' \in [Keys -> Values] /\ replica'[k] = Nothing
      /\ \A j \in Keys : j # k => new[j] = dict[j] /\ replica'[j] = replica[j]
  BY <1>1, <1>3, <1>4
<1> HIDE DEF new
<1>6. Apart(new) /\ Held(new) = Held(dict) \ In(dict, k)
  <2>1. In(new, k) = {} /\ Once(new, k)
    BY <1>3, <1>5 DEF In, Once
  <2> QED BY <1>2, <1>5, <2>1, Replaced
<1>7. ElementsConserved' /\ taken' \subseteq 1 .. nelems'
  <2>1. In(dict, k) \subseteq Held(dict)
    BY DEF Held
  <2>2. taken' \subseteq 1 .. nelems'
    <3>1. taken \subseteq 1 .. nelems /\ Held(dict) \subseteq 1 .. nelems
      BY <1>2 DEF TypeOK
    <3> QED BY <1>1, <2>1, <3>1
  <2>3. Held(new) = 1 .. nelems' \ taken'
    BY <1>1, <1>2, <1>6, <2>1
  <2> QED BY <1>1, <1>6, <2>2, <2>3 DEF ElementsConserved, Apart, Held, In, Once
<1>8. TypeOK'
  BY <1>1, <1>2, <1>5, <1>7 DEF TypeOK, tableVars, queueVars, readyVars
<1>9. ReplicaFollows'
  <2>1. Whole(replica')
    <3>1. Whole(replica)
      BY <1>2 DEF ReplicaFollows
    <3>2. ASSUME NEW j \in Keys
          PROVE  IF replica'[j].type = "list" THEN replica'[j].els # <<>>
                                              ELSE replica'[j].els = <<>>
      <4>1. CASE j = k
        BY <1>3, <1>5, <4>1
      <4>2. CASE j # k
        <5>1. replica'[j] = replica[j]
          BY <1>5, <4>2
        <5> QED BY <3>1, <5>1 DEF Whole
      <4> QED BY <4>1, <4>2
    <3> QED BY <3>2 DEF Whole
  <2>2. CASE serving.key = NoKey
    <3>1. replica = dict
      BY <1>2, <2>2 DEF ReplicaFollows
    <3>2. replica' = new
      BY <1>1, <3>1 DEF new
    <3> QED BY <1>1, <2>1, <2>2, <3>2 DEF ReplicaFollows
  <2>3. CASE serving.key # NoKey
    <3>1. serving.key \in Keys
      BY <1>2, <2>3 DEF TypeOK
    <3>2. replica = Tidy(dict, serving.key)
      BY <1>2, <2>3 DEF ReplicaFollows
    <3>3. new[serving.key] = dict[serving.key]
      BY <1>5, <3>1
    <3>4. replica' = Tidy(new, serving.key)
      <4>1. CASE dict[serving.key] = List(<<>>)
        <5>1. replica = [dict EXCEPT ![serving.key] = Nothing]
          BY <3>2, <4>1 DEF Tidy
        <5>2. Tidy(new, serving.key) = [new EXCEPT ![serving.key] = Nothing]
          BY <3>3, <4>1 DEF Tidy
        <5> QED BY <1>1, <1>4, <3>1, <5>1, <5>2 DEF new
      <4>2. CASE dict[serving.key] # List(<<>>)
        <5>1. replica = dict /\ Tidy(new, serving.key) = new
          BY <3>2, <3>3, <4>2 DEF Tidy
        <5> QED BY <1>1, <5>1 DEF new
      <4> QED BY <4>1, <4>2
    <3> QED BY <1>1, <2>1, <2>3, <3>4 DEF ReplicaFollows
  <2> QED BY <2>2, <2>3
<1>10. ServesOneList'
  <2>1. serving.key = NoKey \/ serving.key \in Keys
    BY <1>2 DEF TypeOK
  <2> QED BY <1>1, <1>2, <1>5, <2>1 DEF ServesOneList, tableVars
<1>11. ReadyOnce' /\ ListsInOrder' /\ ExecAlone'
  BY <1>1, <1>2 DEF ReadyOnce, ListsInOrder, ExecAlone, tableVars, readyVars
<1>12. ASSUME Stored \subseteq {"string"} PROVE ListsSignalled'
  <2>1. ListsSignalled
    BY <1>12 DEF IndInv
  <2> QED BY <1>1, <1>3, <1>5, <2>1 DEF ListsSignalled, tableVars, readyVars
<1>13. ASSUME ~Pipelining PROVE UnblockedOnce' /\ OneState'
  BY <1>1, <1>13 DEF IndInv, UnblockedOnce, OneState, tableVars, queueVars
<1>14. UnblockedFound'
  BY <1>1 DEF IndInv, UnblockedFound, queueVars
<1> QED BY <1>7, <1>8, <1>9, <1>10, <1>11, <1>12, <1>13, <1>14 DEF IndInv

LEMMA DelCommandKeeps ==
  ASSUME IndInv, NEW c \in Clients, NEW k \in Keys, DelCommand(c, k)
  PROVE  IndInv'
<1>1. May(c, "del") /\ Remove(k) /\ CountExec
  BY DEF DelCommand
<1>2. serving = Idle /\ (exec = NoExec \/ exec.left > 0)
  BY <1>1, Settled
<1>3. exec \in [client : Clients \cup {NoClient}, left : 0 .. MaxQueue] /\ MaxQueue \in Nat
  BY ConstantsAssumption DEF IndInv, TypeOK
<1>4. exec' \in [client : Clients \cup {NoClient}, left : 0 .. MaxQueue]
  BY <1>1, <1>2, <1>3 DEF CountExec
<1>5. serving.key # k
  BY <1>2, ConstantsAssumption DEF Idle
<1> QED BY <1>1, <1>2, <1>4, <1>5, RemoveKeeps

LEMMA ExpireKeeps ==
  ASSUME IndInv, NEW k \in Keys, Expire(k)
  PROVE  IndInv'
<1>1. serving.key # k /\ Remove(k) /\ exec' = exec
  BY DEF Expire
<1>2. /\ exec' \in [client : Clients \cup {NoClient}, left : 0 .. MaxQueue]
      /\ exec' # NoExec => serving = Idle
  BY <1>1 DEF IndInv, TypeOK, ExecAlone
<1> QED BY <1>1, <1>2, RemoveKeeps

LEMMA RenameCommandKeeps ==
  ASSUME IndInv, NEW c \in Clients, NEW k \in Keys, NEW new \in Keys, RenameCommand(c, k, new)
  PROVE  IndInv'
<1> DEFINE mid == [dict EXCEPT ![k] = Nothing]
           ds  == [dict EXCEPT ![new] = dict[k], ![k] = Nothing]
<1>1. /\ May(c, "rename") /\ k # new /\ dict[k].type # "none"
      /\ taken' = taken \cup In(dict, new) /\ nelems' = nelems
      /\ dict' = ds /\ replica' = [replica EXCEPT ![new] = replica[k], ![k] = Nothing]
      /\ CountExec /\ UNCHANGED <<clients, tableVars, queueVars, serving>>
      /\ IF dict[k].type = "list" THEN Signal(new) ELSE UNCHANGED readyVars
  BY DEF RenameCommand, Execute, In
<1>2. /\ serving = Idle /\ (exec = NoExec \/ exec.left > 0)
      /\ replica = dict /\ dict \in [Keys -> Values] /\ Whole(dict)
      /\ nelems \in 0 .. MaxElems /\ taken \subseteq 1 .. nelems
      /\ Apart(dict) /\ Held(dict) = 1 .. nelems \ taken
      /\ ReadyOnce /\ ready_keys \in Seq(Keys) /\ db_ready \subseteq Keys
  BY <1>1, Settled DEF Conserved
<1>3. Nothing \in Values /\ Nothing.type = "none" /\ Nothing.els = <<>>
      /\ Rng(<<>>) = {} /\ Distinct(<<>>)
  BY DEF Nothing, Values, Rng, Distinct
<1>4. replica' = ds
  BY <1>1, <1>2
<1>5. /\ mid \in [Keys -> Values] /\ mid[k] = Nothing
      /\ \A j \in Keys : j # k => mid[j] = dict[j]
      /\ ds \in [Keys -> Values] /\ ds[new] = dict[k] /\ ds[k] = Nothing
      /\ \A j \in Keys : j # k /\ j # new => ds[j] = dict[j]
  BY <1>1, <1>2, <1>3
<1> HIDE DEF mid, ds
<1>6. \A j \in Keys : j # new => ds[j] = mid[j]
  BY <1>5
<1>7. Apart(mid) /\ Held(mid) = Held(dict) \ In(dict, k)
  <2>1. In(mid, k) = {} /\ Once(mid, k)
    BY <1>3, <1>5 DEF In, Once
  <2>2. Apart(dict) /\ \A j \in Keys : j # k => mid[j] = dict[j]
    BY <1>2, <1>5
  <2>3. Apart(mid) /\ Held(mid) = (Held(dict) \ In(dict, k)) \cup In(mid, k)
    BY <2>1, <2>2, Replaced
  <2> QED BY <2>1, <2>3
<1>8. /\ In(mid, new) = In(dict, new) /\ In(ds, new) = In(dict, k) /\ Once(ds, new)
  BY <1>1, <1>2, <1>5 DEF In, Once, Apart
<1>9. In(dict, k) \cap In(dict, new) = {}
      /\ In(dict, k) \subseteq Held(dict) /\ In(dict, new) \subseteq Held(dict)
  BY <1>1, <1>2 DEF Apart, Held
<1>10. Apart(ds) /\ Held(ds) = (Held(mid) \ In(mid, new)) \cup In(ds, new)
  <2>1. In(ds, new) \cap (Held(mid) \ In(mid, new)) = {}
    BY <1>7, <1>8
  <2> QED BY <1>6, <1>7, <1>8, <2>1, Replaced
<1>11. Held(ds) = Held(dict) \ In(dict, new)
  BY <1>7, <1>8, <1>9, <1>10
<1>12. taken' \subseteq 1 .. nelems' /\ Conserved(ds, nelems', taken')
  BY <1>1, <1>2, <1>9, <1>10, <1>11 DEF Conserved
<1>13. Whole(ds)
  <2> SUFFICES ASSUME NEW j \in Keys
               PROVE  IF ds[j].type = "list" THEN ds[j].els # <<>> ELSE ds[j].els = <<>>
    BY DEF Whole
  <2>1. CASE j = k
    BY <1>3, <1>5, <2>1
  <2>2. CASE j = new
    BY <1>2, <1>5, <2>2 DEF Whole
  <2>3. CASE j # k /\ j # new
    BY <1>2, <1>5, <2>3 DEF Whole
  <2> QED BY <2>1, <2>2, <2>3
<1>14. /\ ReadyOnce' /\ ready_keys' \in Seq(Keys) /\ db_ready' \subseteq Keys
       /\ db_ready \subseteq db_ready'
       /\ dict[k].type = "list" /\ blocking_keys[new] # <<>> => new \in db_ready'
  <2>1. CASE dict[k].type = "list"
    BY <1>1, <2>1, Signalled
  <2>2. CASE dict[k].type # "list"
    BY <1>1, <1>2, <2>2 DEF readyVars, ReadyOnce
  <2> QED BY <2>1, <2>2
<1>15. ASSUME NEW j \in Keys, ds[j].type = "list", dict[j].type # "list", blocking_keys[j] # <<>>
       PROVE  j \in db_ready'
  <2>1. j = new
    BY <1>3, <1>5, <1>15
  <2> QED BY <1>5, <1>14, <1>15, <2>1
<1> QED BY <1>1, <1>2, <1>4, <1>5, <1>12, <1>13, <1>14, <1>15, Executed

\* A client blocks for keys that do not exist.
LEMMA BlockForKeysKeeps ==
  ASSUME IndInv, NEW c \in Clients, NEW op, May(c, op), NEW ks \in SUBSET Keys,
         \A k \in ks : dict[k].type = "none",
         NEW target \in Keys \cup {NoKey}, NEW w \in {"head", "tail"}, NEW timed \in BOOLEAN,
         BlockForKeys(c, ks, target, w, timed)
  PROVE  IndInv'
<1>1. c \in clients \ blocked /\ serving = Idle
  BY Settled
<1>2. /\ exec = NoExec /\ blocked' = blocked \cup {c}
      /\ UNCHANGED <<clients, queueVars, readyVars, dataVars, exec, serving>>
  BY DEF BlockForKeys
<1>3. /\ ListsInOrder'
      /\ blocked' \subseteq clients /\ arrivals' \in Seq(clients)
      /\ bpop' \in [Clients -> Waits]
      /\ blocking_keys' \in [Keys -> Seq(clients)]
      /\ \A k \in Keys \ ks : blocking_keys'[k] = blocking_keys[k]
  BY <1>1, BlockedLists, ZenonT(30)
<1>4. /\ TypeOK /\ ReadyOnce /\ ReplicaFollows /\ ServesOneList /\ ExecAlone /\ ElementsConserved
  BY DEF IndInv
<1>5. TypeOK'
  BY <1>2, <1>3, <1>4 DEF TypeOK, queueVars, readyVars, dataVars
<1>6. ReadyOnce' /\ ReplicaFollows' /\ ExecAlone' /\ ElementsConserved'
  BY <1>2, <1>4 DEF ReadyOnce, ReplicaFollows, ExecAlone, ElementsConserved, readyVars, dataVars
<1>7. ServesOneList'
  BY <1>1, <1>2 DEF ServesOneList, Idle
<1>8. ASSUME Stored \subseteq {"string"} PROVE ListsSignalled'
  BY <1>2, <1>3, <1>8 DEF IndInv, ListsSignalled, readyVars, dataVars
<1>9. ASSUME ~Pipelining PROVE UnblockedOnce' /\ OneState'
  <2>1. c \notin unblocked
    BY <1>2, <1>9 DEF May, NoExec
  <2> QED BY <1>2, <1>9, <2>1 DEF IndInv, UnblockedOnce, OneState, queueVars
<1>10. UnblockedFound'
  BY <1>2 DEF IndInv, UnblockedFound, queueVars
<1> QED BY <1>3, <1>5, <1>6, <1>7, <1>8, <1>9, <1>10 DEF IndInv

LEMMA BlockingPopKeeps ==
  ASSUME IndInv, NEW c \in Clients, NEW ks \in KeyLists, NEW w \in {"head", "tail"},
         NEW timed \in BOOLEAN, BlockingPop(c, ks, w, timed)
  PROVE  IndInv'
<1>1. PICK op : May(c, op)
  BY DEF BlockingPop
<1>2. CASE PopFirst(c, ks, w)
  BY <1>1, <1>2, PopFirstKeeps
<1>3. CASE FirstKey(ks) = NoKey /\ BlockForKeys(c, Rng(ks), NoKey, w, timed)
  <2>1. Rng(ks) \in SUBSET Keys /\ \A k \in Rng(ks) : dict[k].type = "none"
    BY <1>3, FirstKeyIsKey
  <2> QED BY <1>1, <1>3, <2>1, BlockForKeysKeeps
<1> QED BY <1>2, <1>3 DEF BlockingPop

LEMMA BrpoplpushCommandKeeps ==
  ASSUME IndInv, NEW c \in Clients, NEW src \in Keys, NEW dst \in Keys, NEW timed \in BOOLEAN,
         BrpoplpushCommand(c, src, dst, timed)
  PROVE  IndInv'
<1>1. May(c, "brpoplpush") /\ dict[src].type = "none" /\ BlockForKeys(c, {src}, dst, "tail", timed)
  BY DEF BrpoplpushCommand
<1>2. {src} \in SUBSET Keys /\ \A k \in {src} : dict[k].type = "none"
  BY <1>1
<1> QED BY <1>1, <1>2, BlockForKeysKeeps

LEMMA CommandKeeps ==
  ASSUME IndInv, NEW c \in Clients, CommandOf(c)
  PROVE  IndInv'
BY PushCommandKeeps, LpopCommandKeeps, DelCommandKeeps, SetKeyKeeps, RpoplpushCommandKeeps,
   RenameCommandKeeps, BlockingPopKeeps, BrpoplpushCommandKeeps DEF CommandOf

\* The beginning, the end and the commands of an EXEC that do nothing.
LEMMA ExecKeeps ==
  ASSUME IndInv, (\E c \in Clients : ExecCommand(c)) \/ ExecNothing \/ ExecEnd
  PROVE  IndInv'
<1>1. UNCHANGED <<clients, tableVars, queueVars, readyVars, dataVars, serving>>
  BY DEF ExecCommand, ExecNothing, ExecEnd
<1>2. exec \in [client : Clients \cup {NoClient}, left : 0 .. MaxQueue] /\ MaxQueue \in Nat
  BY ConstantsAssumption DEF IndInv, TypeOK
<1>3. /\ exec' \in [client : Clients \cup {NoClient}, left : 0 .. MaxQueue]
      /\ exec' # NoExec => serving = Idle
  <2>1. CASE \E c \in Clients : ExecCommand(c)
    <3>1. PICK c \in Clients, n \in 2 .. MaxQueue :
            exec' = [client |-> c, left |-> n] /\ NotServing
      BY <2>1 DEF ExecCommand
    <3>2. n \in 0 .. MaxQueue
      BY <1>2
    <3> QED BY <3>1, <3>2 DEF NotServing
  <2>2. CASE ExecNothing
    <3>1. exec.left > 0 /\ CountExec
      BY <2>2 DEF ExecNothing
    <3>2. exec' # NoExec => exec # NoExec
      BY <3>1 DEF CountExec
    <3>3. exec' \in [client : Clients \cup {NoClient}, left : 0 .. MaxQueue]
      BY <1>2, <3>1 DEF CountExec
    <3> QED BY <3>2, <3>3 DEF IndInv, ExecAlone
  <2>3. CASE ExecEnd
    BY <1>2, <2>3 DEF ExecEnd, NoExec
  <2> QED BY <2>1, <2>2, <2>3
<1>4. TypeOK'
  BY <1>1, <1>3 DEF IndInv, TypeOK, tableVars, queueVars, readyVars, dataVars
<1>5. ReadyOnce' /\ ListsInOrder' /\ ReplicaFollows' /\ ServesOneList' /\ ElementsConserved'
  BY <1>1 DEF IndInv, ReadyOnce, ListsInOrder, ReplicaFollows, ServesOneList, ElementsConserved,
              tableVars, readyVars, dataVars
<1>6. ExecAlone'
  BY <1>1, <1>3 DEF ExecAlone
<1>7. ASSUME Stored \subseteq {"string"} PROVE ListsSignalled'
  BY <1>1, <1>7 DEF IndInv, ListsSignalled, tableVars, readyVars, dataVars
<1>8. ASSUME ~Pipelining PROVE UnblockedOnce' /\ OneState'
  BY <1>1, <1>8 DEF IndInv, UnblockedOnce, OneState, tableVars, queueVars
<1>9. UnblockedFound'
  BY <1>1 DEF IndInv, UnblockedFound, queueVars
<1> QED BY <1>4, <1>5, <1>6, <1>7, <1>8, <1>9 DEF IndInv

LEMMA NextRoundKeeps ==
  ASSUME IndInv, NextRound
  PROVE  IndInv'
<1>1. /\ exec = NoExec /\ serving.key = NoKey /\ serving.keys = <<>>
      /\ serving' = [serving EXCEPT !.keys = ready_keys] /\ ready_keys' = <<>>
      /\ UNCHANGED <<clients, tableVars, queueVars, db_ready, dataVars, exec>>
  BY DEF NextRound, MayServe
<1>2. /\ serving \in [keys : Seq(Keys), key : Keys \cup {NoKey}, left : Nat]
      /\ ready_keys \in Seq(Keys)
  BY DEF IndInv, TypeOK
<1>3. /\ serving' \in [keys : Seq(Keys), key : Keys \cup {NoKey}, left : Nat]
      /\ serving'.keys = ready_keys /\ serving'.key = serving.key /\ serving'.left = serving.left
  BY <1>1, <1>2
<1>4. TypeOK'
  BY <1>1, <1>3 DEF IndInv, TypeOK, tableVars, queueVars, dataVars
<1>5. serving'.keys \o ready_keys' = serving.keys \o ready_keys
  BY <1>1, <1>2, <1>3, ConcatEmptySeq
<1>6. ReadyOnce'
  <2>1. ReadyOnce
    BY DEF IndInv
  <2> QED BY <1>1, <1>5, <2>1, Zenon DEF ReadyOnce
<1>7. ListsInOrder' /\ ReplicaFollows' /\ ServesOneList' /\ ElementsConserved' /\ ExecAlone'
  <2>1. ListsInOrder'
    BY <1>1 DEF IndInv, ListsInOrder, tableVars
  <2>2. ElementsConserved'
    BY <1>1 DEF IndInv, ElementsConserved, dataVars
  <2>3. ReplicaFollows'
    BY <1>1, <1>3 DEF IndInv, ReplicaFollows, dataVars
  <2>4. ServesOneList'
    BY <1>1, <1>3 DEF IndInv, ServesOneList
  <2>5. ExecAlone'
    BY <1>1 DEF ExecAlone
  <2> QED BY <2>1, <2>2, <2>3, <2>4, <2>5
<1>8. ASSUME Stored \subseteq {"string"} PROVE ListsSignalled'
  BY <1>1, <1>3, <1>8 DEF IndInv, ListsSignalled, tableVars, dataVars
<1>9. ASSUME ~Pipelining PROVE UnblockedOnce' /\ OneState'
  BY <1>1, <1>9 DEF IndInv, UnblockedOnce, OneState, tableVars, queueVars
<1>10. UnblockedFound'
  BY <1>1 DEF IndInv, UnblockedFound, queueVars
<1> QED BY <1>4, <1>6, <1>7, <1>8, <1>9, <1>10 DEF IndInv

\* The empty list is deleted before or after the element is pushed.
LEMMA MoveTidied ==
  ASSUME NEW ds \in [Keys -> Values], NEW src \in Keys, NEW dst \in Keys,
         ds[src].els # <<>>, ds[src].type = "list", Apart(ds), Whole(ds), NEW e \in Elems
  PROVE  Push(PopAndTidy(ds, src, "tail"), dst, e, "head")
           = Tidy(Push(Pop(ds, src, "tail"), dst, e, "head"), src)
<1> DEFINE mid == Pop(ds, src, "tail")
           r   == Tidy(mid, src)
           new == Push(mid, dst, e, "head")
           out == Push(r, dst, e, "head")
<1>1. mid \in [Keys -> Values] /\ mid[src].type = "list"
  BY PopHeld
<1> HIDE DEF mid
<1>2. /\ r \in [Keys -> Values]
      /\ \A j \in Keys : r[j].els = mid[j].els /\ (j # src => r[j] = mid[j])
      /\ mid[src].els = <<>> => r[src] = Nothing
      /\ mid[src].els # <<>> => r = mid
  BY <1>1, TidiedList
<1> HIDE DEF r
<1>3. /\ new = [mid EXCEPT ![dst] = List(<<e>> \o mid[dst].els)]
      /\ out = [r EXCEPT ![dst] = List(<<e>> \o r[dst].els)]
  BY DEF Push
<1>4. /\ new \in [Keys -> Values] /\ new[dst].els # <<>>
      /\ \A j \in Keys : j # dst => new[j] = mid[j]
  BY <1>1, PushedList
<1>5. out \in [Keys -> Values]
  BY <1>2, PushedList
<1> HIDE DEF new, out
<1>6. r[dst].els = mid[dst].els
  BY <1>2
<1>7. out[dst] = new[dst]
  BY <1>1, <1>2, <1>3, <1>6
<1>8. \A j \in Keys : j # dst => out[j] = r[j]
  BY <1>2, <1>3
<1>9. CASE new[src].els = <<>>
  <2>1. dst # src /\ mid[src].els = <<>> /\ new[src].type = "list"
    BY <1>1, <1>4, <1>9
  <2>2. /\ Tidy(new, src) \in [Keys -> Values] /\ Tidy(new, src)[src] = Nothing
        /\ \A j \in Keys : j # src => Tidy(new, src)[j] = new[j]
    BY <1>4, <1>9, <2>1, TidiedList
  <2>3. \A j \in Keys : out[j] = Tidy(new, src)[j]
    BY <1>2, <1>4, <1>7, <1>8, <2>1, <2>2
  <2>4. out = Tidy(new, src)
    BY <1>5, <2>2, <2>3
  <2> QED BY <2>4 DEF out, new, r, mid, PopAndTidy
<1>10. CASE new[src].els # <<>>
  <2>1. Tidy(new, src) = new
    BY <1>4, <1>10, TidiedList
  <2>2. ASSUME NEW j \in Keys PROVE out[j] = new[j]
    <3>1. CASE j = dst
      BY <1>7, <3>1
    <3>2. CASE j # dst
      <4>1. new[j] = mid[j] /\ out[j] = r[j]
        BY <1>4, <1>8, <3>2
      <4>2. CASE j = src
        BY <1>2, <1>10, <4>1, <4>2
      <4>3. CASE j # src
        BY <1>2, <4>1, <4>3
      <4> QED BY <4>2, <4>3
    <3> QED BY <3>1, <3>2
  <2>3. out = Tidy(new, src)
    BY <1>4, <1>5, <2>1, <2>2
  <2> QED BY <2>3 DEF out, new, r, mid, PopAndTidy
<1> QED BY <1>9, <1>10

LEMMA NextKeyKeeps ==
  ASSUME IndInv, NextKey
  PROVE  IndInv'
<1> DEFINE k == Head(serving.keys)
           w == serving.keys \o ready_keys
<1>1. /\ exec = NoExec /\ serving.key = NoKey /\ serving.keys # <<>>
      /\ db_ready' = db_ready \ {k}
      /\ serving' = [keys |-> Tail(serving.keys),
                     key  |-> IF dict[k].type = "list" THEN k ELSE NoKey,
                     left |-> IF dict[k].type = "list" THEN Len(blocking_keys[k]) ELSE 0]
      /\ UNCHANGED <<clients, tableVars, queueVars, ready_keys, dataVars, exec>>
  BY DEF NextKey, MayServe
<1>2. /\ serving \in [keys : Seq(Keys), key : Keys \cup {NoKey}, left : Nat]
      /\ ready_keys \in Seq(Keys) /\ blocking_keys \in [Keys -> Seq(clients)]
      /\ dict \in [Keys -> Values]
  BY DEF IndInv, TypeOK
<1>3. serving.keys \in Seq(Keys) /\ Tail(serving.keys) \in Seq(Keys) /\ k \in Keys
  BY <1>1, <1>2, HeadTailProperties
<1>4. Len(blocking_keys[k]) \in Nat
  BY <1>2, <1>3
<1>5. NoKey \notin Keys
  BY ConstantsAssumption
<1>6. /\ serving' \in [keys : Seq(Keys), key : Keys \cup {NoKey}, left : Nat]
      /\ serving'.keys = Tail(serving.keys)
      /\ dict[k].type = "list" => serving'.key = k /\ serving'.left = Len(blocking_keys[k])
      /\ dict[k].type # "list" => serving'.key = NoKey /\ serving'.left = 0
  <2> HIDE DEF k
  <2> QED BY <1>1, <1>3, <1>4
<1>7. TypeOK'
  BY <1>1, <1>6 DEF IndInv, TypeOK, tableVars, queueVars, dataVars
<1>8. ReadyOnce'
  <2>1. ReadyOnce
    BY DEF IndInv
  <2>2. w \in Seq(Keys) /\ w # <<>> /\ Head(w) = k /\ Tail(serving.keys) \o ready_keys = Tail(w)
    BY <1>1, <1>2, <1>3, TailOfFirst
  <2>3. Rng(w) = db_ready /\ Distinct(w)
    BY <2>1 DEF ReadyOnce
  <2>4. Rng(Tail(w)) = db_ready \ {k} /\ Distinct(Tail(w))
    <3>1. End(w, "head") = k
      BY <2>2 DEF End
    <3> HIDE DEF w, k
    <3>2. Rng(w) = Rng(Tail(w)) \cup {k} /\ Distinct(Tail(w)) /\ k \notin Rng(Tail(w))
      BY <2>2, <2>3, <3>1, Popped
    <3> QED BY <2>3, <3>2
  <2>5. serving'.keys \o ready_keys' = Tail(w)
    BY <1>1, <1>6, <2>2
  <2> HIDE DEF w, k
  <2> QED BY <1>1, <2>4, <2>5, Zenon DEF ReadyOnce
<1>9. ReplicaFollows'
  <2>1. Whole(replica) /\ replica = dict
    BY <1>1 DEF IndInv, ReplicaFollows
  <2>2. CASE dict[k].type = "list"
    <3>1. dict[k].els # <<>>
      BY <1>3, <2>1, <2>2 DEF Whole
    <3>2. Tidy(dict, k) = dict
      BY <1>2, <1>3, <3>1, TidiedList
    <3> QED BY <1>1, <1>3, <1>5, <1>6, <2>1, <2>2, <3>2 DEF ReplicaFollows, dataVars
  <2>3. CASE dict[k].type # "list"
    BY <1>1, <1>6, <2>1, <2>3 DEF ReplicaFollows, dataVars
  <2> QED BY <2>2, <2>3
<1>10. ServesOneList'
  <2> HIDE DEF k
  <2> QED BY <1>1, <1>3, <1>5, <1>6 DEF ServesOneList, tableVars, dataVars
<1>11. ListsInOrder' /\ ElementsConserved' /\ ExecAlone'
  <2>1. ListsInOrder'
    BY <1>1 DEF IndInv, ListsInOrder, tableVars
  <2>2. ElementsConserved'
    BY <1>1 DEF IndInv, ElementsConserved, dataVars
  <2>3. ExecAlone'
    BY <1>1 DEF ExecAlone
  <2> QED BY <2>1, <2>2, <2>3
<1>12. ASSUME Stored \subseteq {"string"} PROVE ListsSignalled'
  <2> HIDE DEF k
  <2> SUFFICES ASSUME NEW j \in Keys, dict[j].type = "list", blocking_keys[j] # <<>>
               PROVE  j \in db_ready' \/ serving'.key = j
    BY <1>1 DEF ListsSignalled, tableVars, dataVars
  <2>1. j \in db_ready
    BY <1>1, <1>5, <1>12 DEF IndInv, ListsSignalled
  <2> QED BY <1>1, <1>6, <2>1
<1>13. ASSUME ~Pipelining PROVE UnblockedOnce' /\ OneState'
  BY <1>1, <1>13 DEF IndInv, UnblockedOnce, OneState, tableVars, queueVars
<1>14. UnblockedFound'
  BY <1>1 DEF IndInv, UnblockedFound, queueVars
<1> QED BY <1>7, <1>8, <1>9, <1>10, <1>11, <1>12, <1>13, <1>14 DEF IndInv

LEMMA KeyServedKeeps ==
  ASSUME IndInv, KeyServed
  PROVE  IndInv'
<1> DEFINE k == serving.key
<1>1. /\ k # NoKey /\ (serving.left = 0 \/ dict[k].els = <<>>)
      /\ dict' = Tidy(dict, k) /\ serving' = [serving EXCEPT !.key = NoKey, !.left = 0]
      /\ UNCHANGED <<clients, tableVars, queueVars, readyVars, replica, nelems, taken, exec>>
  BY DEF KeyServed
<1>2. /\ serving \in [keys : Seq(Keys), key : Keys \cup {NoKey}, left : Nat]
      /\ blocking_keys \in [Keys -> Seq(clients)]
      /\ dict \in [Keys -> Values] /\ replica \in [Keys -> Values] /\ TypeOK
  BY DEF IndInv, TypeOK
<1>3. k \in Keys /\ NoKey \notin Keys
  BY <1>1, <1>2, ConstantsAssumption
<1>4. /\ serving' \in [keys : Seq(Keys), key : Keys \cup {NoKey}, left : Nat]
      /\ serving'.keys = serving.keys /\ serving'.key = NoKey /\ serving'.left = 0
  BY <1>1, <1>2
<1>5. /\ dict[k].type = "list" /\ serving.left = Len(blocking_keys[k])
      /\ replica = Tidy(dict, k) /\ Whole(replica) /\ exec = NoExec
  <2>1. ServesOneList /\ ReplicaFollows /\ ExecAlone
    BY DEF IndInv
  <2>2. exec = NoExec
    BY <1>1, <2>1 DEF ExecAlone, Idle
  <2> QED BY <1>1, <2>1, <2>2 DEF ServesOneList, ReplicaFollows
<1>6. dict' = replica
  BY <1>1, <1>5
<1>7. TypeOK'
  BY <1>1, <1>2, <1>4, <1>6 DEF TypeOK, tableVars, queueVars, readyVars
<1>8. ReadyOnce' /\ ListsInOrder' /\ ExecAlone'
  <2>1. ReadyOnce'
    BY <1>1, <1>4 DEF IndInv, ReadyOnce, readyVars
  <2>2. ListsInOrder'
    BY <1>1 DEF IndInv, ListsInOrder, tableVars
  <2>3. ExecAlone'
    BY <1>1, <1>5 DEF ExecAlone
  <2> QED BY <2>1, <2>2, <2>3
<1>9. ReplicaFollows' /\ ServesOneList'
  BY <1>1, <1>4, <1>5, <1>6 DEF ReplicaFollows, ServesOneList
<1>10. ElementsConserved'
  <2>1. Apart(dict) /\ Held(dict) = 1 .. nelems \ taken
    BY DEF IndInv, ElementsConserved, Apart, Held, In, Once
  <2>2. Apart(dict') /\ Held(dict') = 1 .. nelems \ taken
    BY <1>1, <1>2, <1>3, <2>1, TidyHeld
  <2> QED BY <1>1, <2>2 DEF ElementsConserved, Apart, Held, In, Once
<1>11. ASSUME Stored \subseteq {"string"} PROVE ListsSignalled'
  <2> HIDE DEF k
  <2> SUFFICES ASSUME NEW j \in Keys, dict'[j].type = "list", blocking_keys[j] # <<>>
               PROVE  j \in db_ready
    BY <1>1 DEF ListsSignalled, tableVars, readyVars
  <2>1. \A i \in Keys : i # k => dict'[i] = dict[i]
    <3>1. \A i \in Keys : i # k => Tidy(dict, k)[i] = dict[i]
      BY <1>2, <1>3, TidiedList
    <3> QED BY <1>1, <3>1
  <2>2. j # k
    <3>1. CASE serving.left = 0
      BY <1>2, <1>3, <1>5, <3>1, EmptySeq
    <3>2. CASE dict[k].els = <<>>
      <4>1. dict'[k] = Nothing
        BY <1>1, <1>2, <1>3, <1>5, <3>2, TidiedList
      <4> QED BY <4>1 DEF Nothing
    <3> QED BY <1>1, <3>1, <3>2
  <2> QED BY <1>11, <2>1, <2>2 DEF IndInv, ListsSignalled, k
<1>12. ASSUME ~Pipelining PROVE UnblockedOnce' /\ OneState'
  BY <1>1, <1>12 DEF IndInv, UnblockedOnce, OneState, tableVars, queueVars
<1>13. UnblockedFound'
  BY <1>1 DEF IndInv, UnblockedFound, queueVars
<1> QED BY <1>7, <1>8, <1>9, <1>10, <1>11, <1>12, <1>13 DEF IndInv

\* unblockClientWaitingData: the client is listed for beforeSleep.
LEMMA UnblockListed ==
  ASSUME IndInv, NEW c \in blocked, Unblock(c)
  PROVE  /\ unblocked' \subseteq clients /\ unblocked_clients' \in Seq(Clients)
         /\ UnblockedFound'
         /\ ~Pipelining => UnblockedOnce' /\ OneState'
<1>1. /\ blocked' = blocked \ {c} /\ unblocked' = unblocked \cup {c}
      /\ unblocked_clients' = Append(unblocked_clients, c)
  BY DEF Unblock, Unblocked
<1>2. /\ c \in clients /\ c \in Clients /\ unblocked \subseteq clients
      /\ unblocked_clients \in Seq(Clients) /\ unblocked \subseteq Rng(unblocked_clients)
  BY DEF IndInv, TypeOK, UnblockedFound
<1>3. /\ unblocked_clients' \in Seq(Clients)
      /\ Rng(unblocked_clients') = Rng(unblocked_clients) \cup {c}
      /\ Distinct(unblocked_clients) /\ c \notin Rng(unblocked_clients)
         => Distinct(unblocked_clients')
  BY <1>1, <1>2, Appended
<1>4. UnblockedFound'
  BY <1>1, <1>2, <1>3 DEF UnblockedFound
<1>5. ASSUME ~Pipelining PROVE UnblockedOnce' /\ OneState'
  <2>1. UnblockedOnce /\ OneState
    BY <1>5 DEF IndInv
  <2>2. Rng(unblocked_clients') = unblocked' /\ Distinct(unblocked_clients')
    BY <1>1, <1>3, <2>1 DEF UnblockedOnce, OneState
  <2>3. OneState'
    BY <1>1, <2>1 DEF OneState
  <2> QED BY <2>2, <2>3 DEF UnblockedOnce
<1> QED BY <1>1, <1>2, <1>3, <1>4, <1>5

\* A list of clients that is not empty was not empty before one left.
LEMMA StillWaiting ==
  ASSUME NEW S, NEW s \in Seq(S), NEW t \in Seq(S), t # <<>>, t = s \/ Len(t) = Len(s) - 1
  PROVE  s # <<>>
BY EmptySeq

\* SignalIfAdded while a list is served.
LEMMA SignalledInRound ==
  ASSUME IndInv, NEW k \in Keys, SignalIfAdded(k)
  PROVE  /\ ready_keys' \in Seq(Keys) /\ db_ready \subseteq db_ready' /\ db_ready' \subseteq Keys
         /\ dict[k].type = "none" /\ blocking_keys[k] # <<>> => k \in db_ready'
         /\ Rng(serving.keys \o ready_keys') = db_ready'
         /\ Distinct(serving.keys \o ready_keys')
<1>1. CASE dict[k].type = "none"
  BY <1>1, SignalledKeys DEF SignalIfAdded
<1>2. CASE dict[k].type # "none"
  <2>1. ready_keys \in Seq(Keys) /\ db_ready \subseteq Keys
        /\ Rng(serving.keys \o ready_keys) = db_ready /\ Distinct(serving.keys \o ready_keys)
    BY DEF IndInv, TypeOK, ReadyOnce
  <2>2. ready_keys' = ready_keys /\ db_ready' = db_ready
    BY <1>2 DEF SignalIfAdded, readyVars
  <2> QED BY <1>2, <2>1, <2>2
<1> QED BY <1>1, <1>2

\* One of the clients of the key that is served is given an element, or an
\* error if its destination has the wrong type.
LEMMA ServeClientKeeps ==
  ASSUME IndInv, ServeClient
  PROVE  IndInv'
<1> DEFINE k   == serving.key
           c   == Head(blocking_keys[k])
           dst == bpop[c].target
<1>1. /\ k # NoKey /\ serving.left > 0 /\ dict[k].els # <<>>
      /\ Unblock(c)
      /\ IF dst = NoKey THEN ServePop(k, bpop[c].where) ELSE ServePush(k, dst)
      /\ serving' = [serving EXCEPT !.left = @ - 1]
      /\ UNCHANGED <<clients, nelems, exec>>
  BY DEF ServeClient
<1>2. /\ serving \in [keys : Seq(Keys), key : Keys \cup {NoKey}, left : Nat]
      /\ blocking_keys \in [Keys -> Seq(clients)] /\ bpop \in [Clients -> Waits]
      /\ dict \in [Keys -> Values] /\ replica \in [Keys -> Values] /\ TypeOK
      /\ clients \subseteq Clients /\ blocked \subseteq clients /\ unblocked \subseteq clients
      /\ unblocked_clients \in Seq(Clients) /\ taken \subseteq 1 .. nelems
      /\ ready_keys \in Seq(Keys) /\ db_ready \subseteq Keys
  BY DEF IndInv, TypeOK
<1>3. k \in Keys /\ NoKey \notin Keys
  BY <1>1, <1>2, ConstantsAssumption
<1>4. /\ dict[k].type = "list" /\ serving.left = Len(blocking_keys[k])
      /\ replica = dict /\ Whole(dict) /\ exec = NoExec
  <2>1. ServesOneList /\ ReplicaFollows /\ ExecAlone
    BY DEF IndInv
  <2>2. exec = NoExec
    BY <1>1, <2>1 DEF ExecAlone, Idle
  <2>3. replica = Tidy(dict, k) /\ Whole(replica)
    BY <1>1, <2>1 DEF ReplicaFollows
  <2>4. Tidy(dict, k) = dict
    BY <1>1, <1>2, <1>3, TidiedList
  <2> QED BY <1>1, <2>1, <2>2, <2>3, <2>4 DEF ServesOneList
<1>5. /\ c \in blocked /\ k \in bpop[c].keys /\ bpop[c] \in Waits
      /\ dst \in Keys \cup {NoKey} /\ bpop[c].where \in {"head", "tail"}
  <2>1. blocking_keys[k] \in Seq(clients) /\ blocking_keys[k] # <<>>
    BY <1>1, <1>2, <1>3, <1>4
  <2>2. c \in Rng(blocking_keys[k])
    BY <2>1 DEF Rng
  <2>3. Rng(blocking_keys[k]) = {d \in blocked : k \in bpop[d].keys}
    BY <1>3 DEF IndInv, ListsInOrder
  <2>4. c \in blocked /\ k \in bpop[c].keys
    BY <2>2, <2>3
  <2> HIDE DEF c
  <2>5. bpop[c] \in Waits
    BY <1>2, <2>4
  <2> QED BY <2>4, <2>5 DEF Waits
<1> HIDE DEF c
<1>6. /\ ListsInOrder' /\ blocked' = blocked \ {c}
      /\ arrivals' \in Seq(blocked') /\ bpop' \in [Clients -> Waits]
      /\ blocking_keys' \in [Keys -> Seq(blocked')]
      /\ \A j \in bpop[c].keys : Len(blocking_keys'[j]) = Len(blocking_keys[j]) - 1
      /\ \A j \in Keys \ bpop[c].keys : blocking_keys'[j] = blocking_keys[j]
      /\ unblocked' = unblocked \cup {c} /\ unblocked_clients' = Append(unblocked_clients, c)
  BY <1>1, <1>5, UnblockedLists DEF Unblock
<1>7. /\ arrivals' \in Seq(clients) /\ blocking_keys' \in [Keys -> Seq(clients)]
      /\ blocked' \subseteq clients /\ unblocked' \subseteq clients
      /\ unblocked_clients' \in Seq(Clients)
  <2>1. blocked' \subseteq clients
    BY <1>2, <1>6
  <2>2. \A s \in Seq(blocked') : s \in Seq(clients)
    BY <2>1, SeqMonotonic
  <2> QED BY <1>2, <1>5, <1>6, <2>1, <2>2
<1>8. /\ serving' \in [keys : Seq(Keys), key : Keys \cup {NoKey}, left : Nat]
      /\ serving'.keys = serving.keys /\ serving'.key = k /\ serving'.left = serving.left - 1
  <2>1. serving.left - 1 \in Nat
    BY <1>1, <1>2
  <2> QED BY <1>1, <1>2, <2>1
<1>9. \A j \in Keys : blocking_keys'[j] # <<>> => blocking_keys[j] # <<>>
  <2> SUFFICES ASSUME NEW j \in Keys, blocking_keys'[j] # <<>>
               PROVE  blocking_keys[j] # <<>>
    OBVIOUS
  <2>1. blocking_keys[j] \in Seq(clients) /\ blocking_keys'[j] \in Seq(clients)
    BY <1>2, <1>7
  <2>2. blocking_keys'[j] = blocking_keys[j] \/ Len(blocking_keys'[j]) = Len(blocking_keys[j]) - 1
    BY <1>6
  <2> QED BY <2>1, <2>2, StillWaiting
\* What is left of the lists, and what was signalled.
<1>10. /\ dict' \in [Keys -> Values] /\ dict'[k].type = "list"
      /\ replica' \in [Keys -> Values] /\ replica' = Tidy(dict', k) /\ Whole(replica')
      /\ Apart(dict') /\ Held(dict') = 1 .. nelems \ taken' /\ taken' \subseteq 1 .. nelems
      /\ ready_keys' \in Seq(Keys) /\ db_ready' \subseteq Keys
      /\ db_ready \subseteq db_ready'
      /\ Rng(serving.keys \o ready_keys') = db_ready' /\ Distinct(serving.keys \o ready_keys')
      /\ \A j \in Keys : dict'[j].type = "list" /\ dict[j].type # "list" /\ blocking_keys'[j] # <<>>
                         => j \in db_ready'
  <2>1. IndInv /\ Apart(dict) /\ Held(dict) = 1 .. nelems \ taken /\ ReadyOnce
    BY DEF IndInv, ElementsConserved, Apart, Held, In, Once
  <2>2. Rng(serving.keys \o ready_keys) = db_ready /\ Distinct(serving.keys \o ready_keys)
    BY <2>1 DEF ReadyOnce
  <2>3. CASE dst = NoKey
    <3> DEFINE w == bpop[c].where
               e == End(dict[k].els, w)
    <3>1. /\ dict' = Pop(dict, k, w) /\ replica' = PopAndTidy(dict, k, w)
          /\ taken' = taken \cup {e} /\ db_ready' = db_ready /\ ready_keys' = ready_keys
      BY <1>1, <1>4, <2>3 DEF ServePop, readyVars
    <3>2. /\ Pop(dict, k, w) \in [Keys -> Values] /\ Pop(dict, k, w)[k].type = "list"
          /\ \A j \in Keys : j # k => Pop(dict, k, w)[j] = dict[j]
          /\ e \in Held(dict)
          /\ Apart(Pop(dict, k, w)) /\ Held(Pop(dict, k, w)) = Held(dict) \ {e}
      <4>1. w \in {"head", "tail"}
        BY <1>5
      <4>2. dict \in [Keys -> Values] /\ k \in Keys /\ dict[k].els # <<>> /\ Apart(dict)
            /\ dict[k].type = "list"
        BY <1>1, <1>2, <1>3, <1>4, <2>1
      <4> HIDE DEF w, k
      <4> QED BY <4>1, <4>2, PopHeld
    <3>3. PopAndTidy(dict, k, w) \in [Keys -> Values] /\ Whole(PopAndTidy(dict, k, w))
      <4>1. w \in {"head", "tail"}
        BY <1>5
      <4> HIDE DEF w
      <4> QED BY <1>2, <1>3, <1>4, <2>1, <4>1, PopTidied
    <3>4. replica' = Tidy(dict', k)
      BY <3>1 DEF PopAndTidy
    <3> HIDE DEF e, w
    <3>5. /\ dict' \in [Keys -> Values] /\ dict'[k].type = "list"
          /\ \A j \in Keys : j # k => dict'[j] = dict[j]
          /\ replica' \in [Keys -> Values] /\ Whole(replica')
          /\ Apart(dict') /\ Held(dict') = Held(dict) \ {e}
      BY <3>1, <3>2, <3>3
    <3>6. taken' \subseteq 1 .. nelems /\ Held(dict') = 1 .. nelems \ taken'
      BY <1>2, <2>1, <3>1, <3>2, <3>5
    <3>7. \A j \in Keys : dict'[j].type = "list" => dict[j].type = "list"
      BY <1>4, <3>5
    <3>8. /\ ready_keys' \in Seq(Keys) /\ db_ready' \subseteq Keys /\ db_ready \subseteq db_ready'
          /\ Rng(serving.keys \o ready_keys') = db_ready'
          /\ Distinct(serving.keys \o ready_keys')
      BY <1>2, <2>2, <3>1
    <3> QED BY <3>4, <3>5, <3>6, <3>7, <3>8
  <2>4. CASE dst # NoKey /\ dict[dst].type = "string"
    <3>1. dict' = dict /\ replica' = replica /\ taken' = taken /\ UNCHANGED readyVars
      BY <1>1, <2>4 DEF ServePush
    <3>2. Tidy(dict, k) = dict
      BY <1>1, <1>2, <1>3, TidiedList
    <3> QED BY <1>2, <1>4, <2>1, <2>2, <3>1, <3>2 DEF readyVars
  <2>5. CASE dst # NoKey /\ dict[dst].type # "string"
    <3> DEFINE e   == Last(dict[k].els)
               new == Push(Pop(dict, k, "tail"), dst, e, "head")
    <3>1. dst \in Keys /\ dict \in [Keys -> Values] /\ k \in Keys /\ dict[k].els # <<>>
          /\ dict[k].type = "list" /\ Apart(dict) /\ Whole(dict)
      BY <1>1, <1>2, <1>3, <1>4, <1>5, <2>1, <2>5
    <3>2. /\ dict' = new /\ replica' = Push(PopAndTidy(replica, k, "tail"), dst, e, "head")
          /\ SignalIfAdded(dst) /\ taken' = taken
      BY <1>1, <2>5 DEF ServePush
    <3>3. e \in Elems
      <4>1. e = End(dict[k].els, "tail")
        BY DEF End
      <4> HIDE DEF e, k
      <4> QED BY <3>1, <4>1, PopHeld
    <3>4. /\ new \in [Keys -> Values] /\ Apart(new) /\ Held(new) = Held(dict)
          /\ new[dst].type = "list" /\ new[dst].els # <<>> /\ new[k].type = "list"
          /\ \A j \in Keys : j # k /\ j # dst => new[j] = dict[j]
      <4> HIDE DEF k
      <4> QED BY <3>1, MoveHeld
    <3>5. replica' = Tidy(new, k)
      <4>1. replica' = Push(PopAndTidy(dict, k, "tail"), dst, e, "head")
        BY <1>4, <3>2
      <4> HIDE DEF e, k
      <4> QED BY <3>1, <3>3, <4>1, MoveTidied DEF new
    <3> HIDE DEF new
    <3>6. /\ replica' \in [Keys -> Values]
          /\ \A j \in Keys : j # k => replica'[j] = new[j]
          /\ new[k].els = <<>> => replica'[k] = Nothing
          /\ new[k].els # <<>> => replica' = new
      <4>1. \A j \in Keys : j # k => Tidy(new, k)[j] = new[j]
        BY <1>3, <3>4, TidiedList
      <4>2. Tidy(new, k) \in [Keys -> Values]
        BY <1>3, <3>4, TidiedList
      <4>3. (new[k].els = <<>> => Tidy(new, k)[k] = Nothing) /\ (new[k].els # <<>> => Tidy(new, k) = new)
        BY <1>3, <3>4, TidiedList
      <4> QED BY <3>5, <4>1, <4>2, <4>3
    <3>7. Whole(replica')
      <4> SUFFICES ASSUME NEW j \in Keys
                   PROVE  IF replica'[j].type = "list" THEN replica'[j].els # <<>>
                                                       ELSE replica'[j].els = <<>>
        BY DEF Whole
      <4>1. CASE j = k
        <5>1. Nothing.type = "none" /\ Nothing.els = <<>>
          BY DEF Nothing
        <5>2. CASE new[k].els = <<>>
          BY <3>6, <4>1, <5>1, <5>2
        <5>3. CASE new[k].els # <<>>
          BY <3>4, <3>6, <4>1, <5>3
        <5> QED BY <5>2, <5>3
      <4>2. CASE j # k /\ j = dst
        <5>1. replica'[j] = new[dst]
          BY <3>6, <4>2
        <5>2. new[dst].type = "list" /\ new[dst].els # <<>>
          BY <3>4
        <5> QED BY <5>1, <5>2
      <4>3. CASE j # k /\ j # dst
        <5>1. replica'[j] = dict[j]
          BY <3>4, <3>6, <4>3
        <5> QED BY <3>1, <5>1 DEF Whole
      <4> QED BY <4>1, <4>2, <4>3
    <3>8. /\ ready_keys' \in Seq(Keys) /\ db_ready' \subseteq Keys /\ db_ready \subseteq db_ready'
          /\ dict[dst].type = "none" /\ blocking_keys[dst] # <<>> => dst \in db_ready'
          /\ Rng(serving.keys \o ready_keys') = db_ready'
          /\ Distinct(serving.keys \o ready_keys')
      BY <2>1, <3>1, <3>2, SignalledInRound
    <3>9. ASSUME NEW j \in Keys, new[j].type = "list", dict[j].type # "list", blocking_keys'[j] # <<>>
          PROVE  j \in db_ready'
      <4>1. j = dst /\ dst # k
        BY <1>4, <3>4, <3>9
      <4>2. dict[dst].type = "none"
        BY <2>5, <3>1, <3>9, <4>1 DEF Values
      <4>3. blocking_keys[j] # <<>>
        BY <1>9, <3>9
      <4> QED BY <3>8, <4>1, <4>2, <4>3
    <3>10. taken' \subseteq 1 .. nelems /\ Held(new) = 1 .. nelems \ taken'
      BY <1>2, <2>1, <3>2, <3>4
    <3> QED BY <3>2, <3>4, <3>5, <3>6, <3>7, <3>8, <3>9, <3>10
  <2> QED BY <2>3, <2>4, <2>5
<1>11. TypeOK'
  BY <1>1, <1>2, <1>6, <1>7, <1>8, <1>10 DEF TypeOK
<1>12. ReadyOnce'
  BY <1>8, <1>10, Zenon DEF ReadyOnce
<1>13. ReplicaFollows' /\ ExecAlone'
  BY <1>1, <1>4, <1>8, <1>10 DEF ReplicaFollows, ExecAlone
<1>14. ServesOneList'
  BY <1>1, <1>4, <1>5, <1>6, <1>8, <1>10 DEF ServesOneList
<1>15. ElementsConserved'
  BY <1>1, <1>10 DEF ElementsConserved, Apart, Held, In, Once
<1>16. ASSUME Stored \subseteq {"string"} PROVE ListsSignalled'
  <2> SUFFICES ASSUME NEW j \in Keys, dict'[j].type = "list", blocking_keys'[j] # <<>>, j # k
               PROVE  j \in db_ready'
    BY <1>8 DEF ListsSignalled
  <2>1. CASE dict[j].type # "list"
    BY <1>10, <2>1
  <2>2. CASE dict[j].type = "list"
    <3>1. blocking_keys[j] # <<>>
      BY <1>9
    <3>2. ListsSignalled
      BY <1>16 DEF IndInv
    <3> QED BY <1>10, <2>2, <3>1, <3>2 DEF ListsSignalled
  <2> QED BY <2>1, <2>2
<1>17. UnblockedFound' /\ (~Pipelining => UnblockedOnce' /\ OneState')
  BY <1>1, <1>5, UnblockListed
<1> QED BY <1>6, <1>11, <1>12, <1>13, <1>14, <1>15, <1>16, <1>17 DEF IndInv

----------------------------------------------------------------------------
(* Clients come, go and wait too long, when nothing else goes on.          *)

\* The commands, the key space and the ready keys do not change; some of the
\* lists of waiting clients get shorter.
LEMMA ClientsChange ==
  ASSUME IndInv, Quiet,
         UNCHANGED <<readyVars, dataVars, exec, serving>>,
         clients' \subseteq Clients, blocked' \subseteq clients', unblocked' \subseteq clients',
         bpop' \in [Clients -> Waits], blocking_keys' \in [Keys -> Seq(clients')],
         arrivals' \in Seq(clients'), unblocked_clients' \in Seq(Clients),
         \A k \in Keys : blocking_keys'[k] # <<>> => blocking_keys[k] # <<>>,
         ListsInOrder', UnblockedFound', ~Pipelining => UnblockedOnce' /\ OneState'
  PROVE  IndInv'
<1>1. serving = Idle /\ serving.key = NoKey /\ serving.left = 0
  BY DEF Quiet, NotServing, Idle
<1>2. TypeOK'
  BY DEF IndInv, TypeOK, readyVars, dataVars
<1>3. ReadyOnce' /\ ReplicaFollows' /\ ElementsConserved'
  BY DEF IndInv, ReadyOnce, ReplicaFollows, ElementsConserved, readyVars, dataVars
<1>4. ServesOneList' /\ ExecAlone'
  BY <1>1 DEF ServesOneList, ExecAlone
<1>5. ASSUME Stored \subseteq {"string"} PROVE ListsSignalled'
  BY <1>5 DEF IndInv, ListsSignalled, readyVars, dataVars
<1> QED BY <1>2, <1>3, <1>4, <1>5 DEF IndInv

\* The lists without a client are lists of the others.
LEMMA ShorterLists ==
  ASSUME IndInv, NEW c \in blocked, Unblocked(c)
  PROVE  /\ blocked' \subseteq clients \ {c} /\ bpop' \in [Clients -> Waits] /\ ListsInOrder'
         /\ blocking_keys' \in [Keys -> Seq(clients \ {c})] /\ arrivals' \in Seq(clients \ {c})
         /\ \A k \in Keys : blocking_keys'[k] # <<>> => blocking_keys[k] # <<>>
<1>1. /\ ListsInOrder' /\ blocked' = blocked \ {c}
      /\ arrivals' \in Seq(blocked') /\ bpop' \in [Clients -> Waits]
      /\ blocking_keys' \in [Keys -> Seq(blocked')]
      /\ \A k \in bpop[c].keys : Len(blocking_keys'[k]) = Len(blocking_keys[k]) - 1
      /\ \A k \in Keys \ bpop[c].keys : blocking_keys'[k] = blocking_keys[k]
  BY UnblockedLists
<1>2. blocked \subseteq clients /\ blocking_keys \in [Keys -> Seq(clients)]
  BY DEF IndInv, TypeOK
<1>3. \A s \in Seq(blocked') : s \in Seq(clients \ {c})
  BY <1>1, <1>2, SeqMonotonic
<1>4. ASSUME NEW k \in Keys, blocking_keys'[k] # <<>>
      PROVE  blocking_keys[k] # <<>>
  <2>1. \A s \in Seq(blocked') : s \in Seq(clients)
    BY <1>1, <1>2, SeqMonotonic
  <2>2. blocking_keys[k] \in Seq(clients) /\ blocking_keys'[k] \in Seq(clients)
    BY <1>1, <1>2, <2>1
  <2>3. blocking_keys'[k] = blocking_keys[k] \/ Len(blocking_keys'[k]) = Len(blocking_keys[k]) - 1
    BY <1>1
  <2> QED BY <1>4, <2>2, <2>3, StillWaiting
<1> QED BY <1>1, <1>2, <1>3, <1>4

LEMMA TimeoutKeeps ==
  ASSUME IndInv, NEW c \in Clients, Timeout(c)
  PROVE  IndInv'
<1>1. /\ Quiet /\ c \in blocked /\ Unblock(c) /\ Unblocked(c)
      /\ UNCHANGED <<clients, readyVars, dataVars, exec, serving>>
  BY DEF Timeout, Unblock
<1>2. /\ blocked' \subseteq clients \ {c} /\ bpop' \in [Clients -> Waits] /\ ListsInOrder'
      /\ blocking_keys' \in [Keys -> Seq(clients \ {c})] /\ arrivals' \in Seq(clients \ {c})
      /\ \A k \in Keys : blocking_keys'[k] # <<>> => blocking_keys[k] # <<>>
  BY <1>1, ShorterLists
<1>3. /\ unblocked' \subseteq clients /\ unblocked_clients' \in Seq(Clients)
      /\ UnblockedFound'
      /\ ~Pipelining => UnblockedOnce' /\ OneState'
  BY <1>1, UnblockListed
<1>4. \A s \in Seq(clients \ {c}) : s \in Seq(clients)
  BY SeqMonotonic
<1>5. /\ clients' \subseteq Clients /\ clients' = clients /\ blocked' \subseteq clients
      /\ blocking_keys' \in [Keys -> Seq(clients)] /\ arrivals' \in Seq(clients)
  BY <1>1, <1>2, <1>4 DEF IndInv, TypeOK
<1> QED BY <1>1, <1>2, <1>3, <1>5, ClientsChange

LEMMA ConnectKeeps ==
  ASSUME IndInv, NEW c \in Clients, Connect(c)
  PROVE  IndInv'
<1>1. /\ Quiet /\ clients' = clients \cup {c}
      /\ UNCHANGED <<tableVars, queueVars, readyVars, dataVars, exec, serving>>
  BY DEF Connect
<1>2. \A s \in Seq(clients) : s \in Seq(clients')
  BY <1>1, SeqMonotonic
<1>3. /\ clients' \subseteq Clients /\ blocked' \subseteq clients' /\ unblocked' \subseteq clients'
      /\ bpop' \in [Clients -> Waits] /\ blocking_keys' \in [Keys -> Seq(clients')]
      /\ arrivals' \in Seq(clients') /\ unblocked_clients' \in Seq(Clients)
  BY <1>1, <1>2 DEF IndInv, TypeOK, tableVars, queueVars
<1>4. ListsInOrder' /\ UnblockedFound' /\ (~Pipelining => UnblockedOnce' /\ OneState')
  <2>1. ListsInOrder'
    BY <1>1 DEF IndInv, ListsInOrder, tableVars
  <2>2. UnblockedFound' /\ (~Pipelining => UnblockedOnce' /\ OneState')
    BY <1>1 DEF IndInv, UnblockedFound, UnblockedOnce, OneState, tableVars, queueVars
  <2> QED BY <2>1, <2>2
<1>5. \A k \in Keys : blocking_keys'[k] # <<>> => blocking_keys[k] # <<>>
  BY <1>1 DEF tableVars
<1> QED BY <1>1, <1>3, <1>4, <1>5, ClientsChange

\* listDelNode: one entry goes, the others stay.
LEMMA RemovedOne ==
  ASSUME NEW S, NEW s \in Seq(S), NEW x \in Rng(s)
  PROVE  LET r == RemoveFirst(s, x) IN
         /\ r \in Seq(S) /\ Rng(s) \ {x} \subseteq Rng(r)
         /\ Distinct(s) => Distinct(r) /\ Rng(r) = Rng(s) \ {x}
<1> DEFINE r == RemoveFirst(s, x)
<1>1. PICK i \in 1 .. Len(s) :
        /\ s[i] = x /\ r \in Seq(S) /\ Len(r) = Len(s) - 1
        /\ \A j \in 1 .. Len(r) : r[j] = IF j < i THEN s[j] ELSE s[j + 1]
  BY RemovedFirst
<1>2. Distinct(s) => Distinct(r) /\ Rng(r) = Rng(s) \ {x}
  BY RemovedDistinct
<1> HIDE DEF r
<1>3. DOMAIN s = 1 .. Len(s) /\ DOMAIN r = 1 .. Len(s) - 1 /\ Len(s) \in Nat
  BY <1>1
<1>4. ASSUME NEW j \in DOMAIN s, s[j] # x PROVE s[j] \in Rng(r)
  <2>1. CASE j < i
    <3>1. j \in DOMAIN r /\ r[j] = s[j]
      BY <1>1, <1>3, <2>1
    <3> QED BY <3>1 DEF Rng
  <2>2. CASE j > i
    <3>1. j - 1 \in DOMAIN r /\ (j - 1) + 1 = j /\ ~(j - 1 < i)
      BY <1>1, <1>3, <2>2
    <3>2. r[j - 1] = s[j]
      BY <1>1, <1>3, <3>1
    <3> QED BY <3>1, <3>2 DEF Rng
  <2> QED BY <1>1, <1>3, <1>4, <2>1, <2>2
<1>5. Rng(s) \ {x} \subseteq Rng(r)
  BY <1>4 DEF Rng
<1> QED BY <1>1, <1>2, <1>5 DEF r

LEMMA FreeClientKeeps ==
  ASSUME IndInv, NEW c \in Clients, FreeClient(c)
  PROVE  IndInv'
<1> DEFINE q == IF c \in blocked THEN Append(unblocked_clients, c) ELSE unblocked_clients
<1>1. /\ Quiet /\ c \in clients /\ clients' = clients \ {c}
      /\ IF c \in blocked THEN Unblocked(c) ELSE UNCHANGED tableVars
      /\ unblocked_clients' = IF c \in blocked \cup unblocked THEN RemoveFirst(q, c) ELSE q
      /\ unblocked' = unblocked \ {c}
      /\ UNCHANGED <<readyVars, dataVars, exec, serving>>
  BY DEF FreeClient
<1>2. /\ clients \subseteq Clients /\ blocked \subseteq clients /\ unblocked \subseteq clients
      /\ bpop \in [Clients -> Waits]
      /\ blocking_keys \in [Keys -> Seq(clients)] /\ arrivals \in Seq(clients)
      /\ unblocked_clients \in Seq(Clients) /\ unblocked \subseteq Rng(unblocked_clients)
      /\ ListsInOrder
  BY DEF IndInv, TypeOK, UnblockedFound
<1>3. /\ blocked' \subseteq clients' /\ blocked' = blocked \ {c}
      /\ bpop' \in [Clients -> Waits] /\ ListsInOrder'
      /\ blocking_keys' \in [Keys -> Seq(clients')] /\ arrivals' \in Seq(clients')
      /\ \A k \in Keys : blocking_keys'[k] # <<>> => blocking_keys[k] # <<>>
  <2>1. CASE c \in blocked
    <3>1. blocked' = blocked \ {c}
      BY <1>1, <2>1 DEF Unblocked
    <3> QED BY <1>1, <2>1, <3>1, ShorterLists
  <2>2. CASE c \notin blocked
    <3>1. UNCHANGED tableVars
      BY <1>1, <2>2
    <3>2. blocked \subseteq clients' /\ blocked' = blocked \ {c} /\ blocked' = blocked
      BY <1>1, <1>2, <2>2, <3>1 DEF tableVars
    <3>3. ListsInOrder'
      BY <1>2, <3>1 DEF ListsInOrder, tableVars
    <3>4. Rng(arrivals) \subseteq clients' /\ \A k \in Keys : Rng(blocking_keys[k]) \subseteq clients'
      <4>1. Rng(arrivals) = blocked /\ \A k \in Keys : Rng(blocking_keys[k]) \subseteq blocked
        BY <1>2 DEF ListsInOrder
      <4> QED BY <3>2, <4>1
    <3>5. arrivals \in Seq(clients') /\ \A k \in Keys : blocking_keys[k] \in Seq(clients')
      BY <1>2, <3>4, SeqOfSubset
    <3> QED BY <1>2, <3>1, <3>2, <3>3, <3>5 DEF tableVars
  <2> QED BY <2>1, <2>2
<1>4. /\ q \in Seq(Clients) /\ Rng(q) = IF c \in blocked THEN Rng(unblocked_clients) \cup {c}
                                                         ELSE Rng(unblocked_clients)
      /\ Distinct(unblocked_clients) /\ (c \in blocked => c \notin Rng(unblocked_clients))
         => Distinct(q)
  <2>1. CASE c \in blocked
    <3>1. q = Append(unblocked_clients, c)
      BY <2>1
    <3> HIDE DEF q
    <3> QED BY <1>2, <2>1, <3>1, Appended
  <2>2. CASE c \notin blocked
    BY <1>2, <2>2
  <2> QED BY <2>1, <2>2
<1> HIDE DEF q
<1>5. /\ unblocked_clients' \in Seq(Clients) /\ Rng(q) \ {c} \subseteq Rng(unblocked_clients')
      /\ Distinct(q) => /\ Distinct(unblocked_clients')
                        /\ Rng(unblocked_clients') = IF c \in blocked \cup unblocked
                                                     THEN Rng(q) \ {c} ELSE Rng(q)
  <2>1. CASE c \in blocked \cup unblocked
    <3>1. c \in Rng(q)
      BY <1>2, <1>4, <2>1
    <3> QED BY <1>1, <1>4, <2>1, <3>1, RemovedOne
  <2>2. CASE c \notin blocked \cup unblocked
    BY <1>1, <1>4, <2>2
  <2> QED BY <2>1, <2>2
<1>6. UnblockedFound'
  BY <1>1, <1>2, <1>4, <1>5 DEF UnblockedFound
<1>7. ASSUME ~Pipelining PROVE UnblockedOnce' /\ OneState'
  <2>1. UnblockedOnce /\ OneState
    BY <1>7 DEF IndInv
  <2>2. Distinct(q) /\ Rng(q) \ {c} = unblocked \ {c} /\ (c \notin blocked => Rng(q) = unblocked)
    BY <1>4, <2>1 DEF UnblockedOnce, OneState
  <2>3. Rng(unblocked_clients') = unblocked'
    BY <1>1, <1>5, <2>2
  <2>4. OneState'
    BY <1>1, <1>3, <2>1 DEF OneState
  <2> QED BY <1>5, <2>2, <2>3, <2>4 DEF UnblockedOnce
<1>8. clients' \subseteq Clients /\ unblocked' \subseteq clients'
  BY <1>1, <1>2
<1> QED BY <1>1, <1>3, <1>5, <1>6, <1>7, <1>8, ClientsChange

LEMMA BeforeSleepKeeps ==
  ASSUME IndInv, BeforeSleep
  PROVE  IndInv'
<1> DEFINE c == Head(unblocked_clients)
           r == Tail(unblocked_clients)
<1>1. /\ Quiet /\ unblocked_clients # <<>> /\ unblocked_clients' = r /\ unblocked' = unblocked \ {c}
      /\ UNCHANGED <<clients, tableVars, readyVars, dataVars, exec, serving>>
  BY DEF BeforeSleep
<1>2. unblocked_clients \in Seq(Clients) /\ unblocked \subseteq Rng(unblocked_clients)
  BY DEF IndInv, TypeOK, UnblockedFound
<1>3. /\ r \in Seq(Clients) /\ Rng(unblocked_clients) = Rng(r) \cup {c}
      /\ Distinct(unblocked_clients) => Distinct(r) /\ c \notin Rng(r)
  <2>1. End(unblocked_clients, "head") = c
    BY DEF End
  <2> HIDE DEF c
  <2> QED BY <1>1, <1>2, <2>1, Popped
<1> HIDE DEF c, r
<1>4. UnblockedFound'
  BY <1>1, <1>2, <1>3 DEF UnblockedFound
<1>5. ASSUME ~Pipelining PROVE UnblockedOnce' /\ OneState'
  <2>1. UnblockedOnce /\ OneState
    BY <1>5 DEF IndInv
  <2>2. UnblockedOnce'
    BY <1>1, <1>3, <2>1 DEF UnblockedOnce
  <2>3. OneState'
    BY <1>1, <2>1 DEF OneState, tableVars
  <2> QED BY <2>2, <2>3
<1>6. ListsInOrder'
  BY <1>1 DEF IndInv, ListsInOrder, tableVars
<1>7. /\ clients' \subseteq Clients /\ blocked' \subseteq clients' /\ unblocked' \subseteq clients'
      /\ bpop' \in [Clients -> Waits] /\ blocking_keys' \in [Keys -> Seq(clients')]
      /\ arrivals' \in Seq(clients') /\ unblocked_clients' \in Seq(Clients)
      /\ \A k \in Keys : blocking_keys'[k] # <<>> => blocking_keys[k] # <<>>
  BY <1>1, <1>3 DEF IndInv, TypeOK, tableVars
<1> QED BY <1>1, <1>4, <1>5, <1>6, <1>7, ClientsChange

----------------------------------------------------------------------------
(* The theorems.                                                           *)

LEMMA InitInv == Init => IndInv
<1> SUFFICES ASSUME Init PROVE IndInv
  OBVIOUS
<1>1. /\ \A S : <<>> \in Seq(S)
      /\ Rng(<<>>) = {} /\ Distinct(<<>>) /\ <<>> \o <<>> = <<>>
  BY DEF Rng, Distinct
<1>2. Nothing \in Values /\ Nothing.type = "none" /\ Nothing.els = <<>>
  BY DEF Nothing, Values
<1>3. NotWaiting \in Waits /\ Idle.key = NoKey /\ Idle.left = 0 /\ Idle.keys = <<>>
  BY DEF NotWaiting, Waits, Idle
<1>4. MaxElems \in Nat /\ MaxQueue \in Nat
  BY ConstantsAssumption
<1>5. TypeOK
  BY <1>1, <1>2, <1>3, <1>4 DEF Init, TypeOK, NoExec, Idle
<1>6. ReadyOnce
  BY <1>1, <1>3 DEF Init, ReadyOnce
<1>7. ListsInOrder
  BY <1>1 DEF Init, ListsInOrder
<1>8. ReplicaFollows /\ ServesOneList /\ ExecAlone /\ ListsSignalled
  BY <1>2, <1>3 DEF Init, ReplicaFollows, Whole, ServesOneList, ExecAlone, ListsSignalled
<1>9. ElementsConserved
  <2>1. \A k \in Keys : Rng(dict[k].els) = {} /\ Distinct(dict[k].els)
    BY <1>1, <1>2 DEF Init
  <2>2. 1 .. nelems \ taken = {}
    BY DEF Init
  <2> QED BY <2>1, <2>2 DEF ElementsConserved
<1>10. UnblockedFound /\ UnblockedOnce /\ OneState
  BY <1>1 DEF Init, UnblockedFound, UnblockedOnce, OneState
<1> QED BY <1>5, <1>6, <1>7, <1>8, <1>9, <1>10 DEF IndInv

LEMMA StutterKeeps ==
  ASSUME IndInv, UNCHANGED vars
  PROVE  IndInv'
<1>1. /\ TypeOK' /\ ReadyOnce' /\ ReplicaFollows' /\ ServesOneList' /\ ExecAlone'
      /\ ElementsConserved'
  BY ZenonT(30) DEF IndInv, vars, tableVars, queueVars, readyVars, dataVars, TypeOK, ReadyOnce,
         ReplicaFollows, ServesOneList, ExecAlone, ElementsConserved
<1>2. ListsInOrder' /\ UnblockedFound'
  BY DEF IndInv, vars, tableVars, queueVars, ListsInOrder, UnblockedFound
<1>3. ASSUME Stored \subseteq {"string"} PROVE ListsSignalled'
  BY <1>3 DEF IndInv, vars, tableVars, readyVars, dataVars, ListsSignalled
<1>4. ASSUME ~Pipelining PROVE UnblockedOnce' /\ OneState'
  BY <1>4 DEF IndInv, vars, tableVars, queueVars, UnblockedOnce, OneState
<1> QED BY <1>1, <1>2, <1>3, <1>4 DEF IndInv

LEMMA NextInv == IndInv /\ [Next]_vars => IndInv'
<1> SUFFICES ASSUME IndInv, [Next]_vars PROVE IndInv'
  OBVIOUS
<1>1. ASSUME NEW c \in Clients, CommandOf(c) PROVE IndInv'
  BY <1>1, CommandKeeps
<1>2. ASSUME NEW c \in Clients, ExecCommand(c) \/ ExecNothing \/ ExecEnd PROVE IndInv'
  BY <1>2, ExecKeeps
<1>3. ASSUME NEW c \in Clients, Timeout(c) PROVE IndInv'
  BY <1>3, TimeoutKeeps
<1>4. ASSUME NEW c \in Clients, Connect(c) PROVE IndInv'
  BY <1>4, ConnectKeeps
<1>5. ASSUME NEW c \in Clients, FreeClient(c) PROVE IndInv'
  BY <1>5, FreeClientKeeps
<1>6. ASSUME NEW k \in Keys, Expire(k) PROVE IndInv'
  BY <1>6, ExpireKeeps
<1>7. CASE ExecNothing \/ ExecEnd
  BY <1>7, ExecKeeps
<1>8. CASE Handle
  BY <1>8, NextRoundKeeps, NextKeyKeeps, ServeClientKeeps, KeyServedKeeps DEF Handle
<1>9. CASE BeforeSleep
  BY <1>9, BeforeSleepKeeps
<1>10. CASE UNCHANGED vars
  BY <1>10, StutterKeeps
<1> QED BY <1>1, <1>2, <1>3, <1>4, <1>5, <1>6, <1>7, <1>8, <1>9, <1>10 DEF Next

LEMMA Inductive == Spec => []IndInv
BY InitInv, NextInv, PTL DEF Spec

\* Every variable has its type in every reachable state: a client freed in
\* freeClient is left in no list of db->blocking_keys and has no flag, whatever
\* clients send and whatever SET and SORT STORE leave.
THEOREM Typing == Spec => []TypeOK
<1>1. IndInv => TypeOK
  BY DEF IndInv
<1> QED BY <1>1, Inductive, PTL

\* handleClientsBlockedOnLists and unblockClientWaitingData, for clients that
\* wait for their reply: a key is ready once, a client is unblocked once, and
\* the clients of a key are in the order they blocked.
THEOREM ServedInOrder ==
  ASSUME ~Pipelining
  PROVE  Spec => []QueuesInOrder
<1>1. IndInv => QueuesInOrder
  BY DEF IndInv, QueuesInOrder
<1> QED BY <1>1, Inductive, PTL

\* dbAdd, RENAME and handleClientsBlockedOnLists: if SET and SORT STORE leave
\* no lists, a client is blocked for no key that holds a list when the server
\* turns to the next command.
THEOREM NobodyForgotten ==
  ASSUME Stored \subseteq {"string"}
  PROVE  Spec => []NobodyWaitsInVain
<1>1. IndInv => NobodyWaitsInVain
  <2> SUFFICES ASSUME IndInv, Quiet, NEW k \in Keys, dict[k].type = "list"
               PROVE  blocking_keys[k] = <<>>
    BY DEF NobodyWaitsInVain
  <2>1. serving = Idle /\ ready_keys = <<>> /\ Idle.key = NoKey /\ Idle.keys = <<>>
    BY DEF Quiet, NotServing, Idle
  <2>2. db_ready = {}
    BY <2>1 DEF IndInv, ReadyOnce, Rng
  <2>3. k # NoKey
    BY ConstantsAssumption
  <2> QED BY <2>1, <2>2, <2>3 DEF IndInv, ListsSignalled
<1> QED BY <1>1, Inductive, PTL

\* listTypePush, listTypePop and serveClientBlockedOnList: an element pushed is
\* in one place of one list or was taken, also when BRPOPLPUSH finds a
\* destination of the wrong type.
THEOREM NothingLost == Spec => []ElementsConserved
<1>1. IndInv => ElementsConserved
  BY DEF IndInv
<1> QED BY <1>1, Inductive, PTL

\* serveClientBlockedOnList propagates what it does: a reader of the commands
\* holds the same key space between them.
THEOREM ReplicaKept == Spec => []ReplicaInStep
<1>1. IndInv => ReplicaInStep
  BY DEF IndInv, ReplicaFollows, ReplicaInStep, Quiet, NotServing, Idle
<1> QED BY <1>1, Inductive, PTL
=============================================================================
