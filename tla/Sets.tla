-------------------------------- MODULE Sets --------------------------------
(***************************************************************************)
(* Sets (t_set.c): an intset or a hash table.  What is below them is in    *)
(* Intset and Dict; here an object is its encoding and its members.        *)
(* Several keys, as the commands read some and write others, possibly the  *)
(* same.  A key may hold a string instead.                                 *)
(***************************************************************************)
EXTENDS Integers, Sequences, FiniteSets, SequencesExt

CONSTANTS SetKeys, Elements,  \* numbers above 0
          IntElements,        \* those representable as a long long
          MaxIntset           \* set-max-intset-entries

VARIABLES sets,    \* key -> object
          svalue,  \* history: key -> members, by the commands' meaning
          sseen    \* key -> the value when it was last signalled and counted

setvars == <<sets, svalue, sseen>>

Object(enc, S) == [enc |-> enc, members |-> S]
NoSet  == Object("none", {})
String == Object("string", {0})
IsSet(k)   == sets[k].enc \in {"intset", "ht"}
MaySet(k)  == sets[k].enc # "string"

SetTypeCreate(e) == Object(IF e \in IntElements THEN "intset" ELSE "ht", {})

\* An intset becomes a hash table when a string or too many integers are added.
SetTypeAdd(o, e) ==
  LET S == o.members \cup {e}
  IN  IF o.enc = "intset" /\ e \in IntElements
      THEN IF e \in o.members THEN o ELSE Object(IF Cardinality(S) > MaxIntset THEN "ht" ELSE "intset", S)
      ELSE Object("ht", S)

\* An intset is not searched for what is no integer.
IsMember(o, e)      == (o.enc = "intset" => e \in IntElements) /\ e \in o.members
SetTypeRemove(o, e) == IF IsMember(o, e) THEN [o EXCEPT !.members = @ \ {e}] ELSE o
AddAll(o, q)        == FoldLeft(SetTypeAdd, o, q)
Size(o)             == Cardinality(o.members)
Kept(o)             == IF o.members = {} THEN NoSet ELSE o

\* signalModifiedKey of the keys K, if server.dirty was raised.
Notice(K, dirty) == sseen' = [k \in SetKeys |-> IF dirty /\ k \in K THEN svalue'[k] ELSE sseen[k]]

Sadd(k, q) ==
  LET o == AddAll(IF IsSet(k) THEN sets[k] ELSE SetTypeCreate(q[1]), q)
  IN  /\ MaySet(k)
      /\ sets' = [sets EXCEPT ![k] = o]
      /\ svalue' = [svalue EXCEPT ![k] = @ \cup Range(q)]
      /\ Notice({k}, Size(o) > Size(sets[k]))

\* The command stops at the element that leaves nothing.
Srem(k, e, f) ==
  LET o1 == Kept(SetTypeRemove(sets[k], e))
      o2 == IF o1 = NoSet THEN o1 ELSE Kept(SetTypeRemove(o1, f))
  IN  /\ IsSet(k)
      /\ sets' = [sets EXCEPT ![k] = o2]
      /\ svalue' = [svalue EXCEPT ![k] = @ \ {e, f}]
      /\ Notice({k}, Size(o2) < Size(sets[k]))

Smove(src, dst, e) ==
  LET to == IF IsSet(dst) THEN sets[dst] ELSE SetTypeCreate(e)
  IN  /\ IsSet(src) /\ MaySet(dst) /\ src # dst /\ IsMember(sets[src], e)
      /\ sets' = [sets EXCEPT ![src] = Kept(SetTypeRemove(@, e)), ![dst] = SetTypeAdd(to, e)]
      /\ svalue' = [svalue EXCEPT ![src] = @ \ {e}, ![dst] = @ \cup {e}]
      /\ Notice({src, dst}, TRUE)

Spop(k, e) ==
  /\ IsSet(k) /\ e \in sets[k].members
  /\ sets' = [sets EXCEPT ![k] = Kept(SetTypeRemove(@, e))]
  /\ svalue' = [svalue EXCEPT ![k] = @ \ {e}]
  /\ Notice({k}, TRUE)

----------------------------------------------------------------------------
(* Intersection, union and difference of the sets at the keys ks.          *)

Empty == Object("intset", {})
Elems(o) == SetToSeq(o.members)   \* the order of an iteration
AddedTo(o, P(_), q) == FoldLeft(LAMBDA d, e : IF P(e) THEN SetTypeAdd(d, e) ELSE d, o, q)

\* The set with the fewest elements comes first; a key may come twice.
Inter(ks) ==
  LET first == CHOOSE k \in Range(ks) : \A j \in Range(ks) : Size(sets[k]) <= Size(sets[j])
      In(e) == \A k \in Range(ks) \ {first} : IsMember(sets[k], e)
  IN  AddedTo(Empty, In, Elems(sets[first]))

Union(ks) == FoldLeft(LAMBDA d, k : AddAll(d, Elems(sets[k])), Empty, ks)

\* The first set's elements looked up in the others, or all elements added and
\* removed, whichever is less work.
RECURSIVE SizeSum(_)
SizeSum(ks) == IF ks = <<>> THEN 0 ELSE Size(sets[Head(ks)]) + SizeSum(Tail(ks))
DiffAlgo(ks) ==
  LET there == SelectSeq(ks, LAMBDA k : sets[k] # NoSet)
  IN  IF (Size(sets[ks[1]]) * Len(there)) \div 2 <= SizeSum(there) THEN 1 ELSE 2

\* The second way stops when nothing is left.
RECURSIVE Subtract(_, _)
Subtract(d, ks) ==
  IF ks = <<>> \/ d.members = {} THEN d
  ELSE Subtract(FoldLeft(SetTypeRemove, d, Elems(sets[Head(ks)])), Tail(ks))

Diff(ks) ==
  LET others == Tail(ks)
      NotIn(e) == \A i \in DOMAIN others : others[i] # ks[1] /\ ~IsMember(sets[others[i]], e)
  IN  CASE sets[ks[1]] = NoSet -> Empty
        [] sets[ks[1]] # NoSet /\ DiffAlgo(ks) = 1 -> AddedTo(Empty, NotIn, Elems(sets[ks[1]]))
        [] OTHER -> Subtract(AddAll(Empty, Elems(sets[ks[1]])), others)

Meaning(op, ks) ==
  LET V(i) == svalue[ks[i]]
  IN  CASE op = "inter" -> {e \in V(1) : \A i \in DOMAIN ks : e \in V(i)}
        [] op = "union" -> UNION {V(i) : i \in DOMAIN ks}
        [] op = "diff"  -> {e \in V(1) : \A i \in 2 .. Len(ks) : e \notin V(i)}

Result(op, ks) == CASE op = "inter" -> Inter(ks) [] op = "union" -> Union(ks) [] op = "diff" -> Diff(ks)

\* Into any key, one of the sources included, whatever it holds.  SINTERSTORE
\* returns at the first key that is missing, before the types of the later ones
\* are looked at, and then notices the destination only if it was there.
Store(op, dst, ks) ==
  LET missing == {i \in DOMAIN ks : sets[ks[i]] = NoSet}
      early   == op = "inter" /\ \E i \in missing : \A j \in 1 .. i : MaySet(ks[j])
  IN  /\ early \/ \A i \in DOMAIN ks : MaySet(ks[i])
      /\ sets' = [sets EXCEPT ![dst] = IF early THEN NoSet ELSE Kept(Result(op, ks))]
      /\ svalue' = [svalue EXCEPT ![dst] = IF early THEN {} ELSE Meaning(op, ks)]
      /\ Notice({dst}, ~early \/ sets[dst] # NoSet)

\* SET, which replaces whatever the key holds.
SetString(k) ==
  /\ sets' = [sets EXCEPT ![k] = String]
  /\ svalue' = [svalue EXCEPT ![k] = {0}]
  /\ Notice({k}, TRUE)

\* SRANDMEMBER with a positive count, by the sets it may reply: the whole set; a
\* copy from which elements are removed; or elements drawn until there are enough.
RECURSIVE Pruned(_, _)
Pruned(S, n) == IF Cardinality(S) = n THEN {S} ELSE UNION {Pruned(S \ {e}, n) : e \in S}
RECURSIVE Drawn(_, _, _)
Drawn(S, d, n) == IF Cardinality(d) = n THEN {d} ELSE UNION {Drawn(S, d \cup {e}, n) : e \in S \ d}

Srandmember(o, count) ==
  CASE count >= Size(o) -> {o.members}
    [] count < Size(o) /\ count * 3 > Size(o) -> Pruned(o.members, count)
    [] OTHER -> Drawn(o.members, {}, count)

----------------------------------------------------------------------------
Sources == {<<k>> : k \in SetKeys} \cup SetKeys \X SetKeys \cup SetKeys \X SetKeys \X SetKeys

SetsInit == /\ sets = [k \in SetKeys |-> NoSet]
            /\ svalue = [k \in SetKeys |-> {}] /\ sseen = svalue

SetsNext ==
  \/ \E k \in SetKeys, e, f \in Elements : Sadd(k, <<e, f>>) \/ Srem(k, e, f)
  \/ \E k, j \in SetKeys, e \in Elements : Smove(k, j, e)
  \/ \E k \in SetKeys, e \in Elements : Spop(k, e)
  \/ \E op \in {"inter", "union", "diff"}, k \in SetKeys, ks \in Sources : Store(op, k, ks)
  \/ \E k \in SetKeys : SetString(k)

SetsSpec == SetsInit /\ [][SetsNext]_setvars

\* Whatever encodings the sets have gone through, every key holds the members
\* that the commands mean, no empty set is left, an intset has integers only and
\* not too many, and every change was signalled and counted.
SetsRepresent ==
  \A k \in SetKeys :
    /\ sets[k].members = svalue[k] /\ (sets[k] = NoSet <=> svalue[k] = {})
    /\ sets[k].enc = "intset" => svalue[k] \subseteq IntElements /\ Size(sets[k]) <= MaxIntset
    /\ sseen[k] = svalue[k]
    /\ \A e \in Elements : IsSet(k) => (IsMember(sets[k], e) <=> e \in svalue[k])

\* SINTER, SUNION and SDIFF of up to three keys, in any encodings and with
\* either way to subtract, are the operations on the values; SRANDMEMBER may reply
\* any set of the members of the size that was asked for, and no other.
SetsAnswer ==
  /\ \A k \in SetKeys, n \in 1 .. Cardinality(Elements) : IsSet(k) =>
       Srandmember(sets[k], n) = {S \in SUBSET svalue[k] :
         Cardinality(S) = IF n < Cardinality(svalue[k]) THEN n ELSE Cardinality(svalue[k])}
  /\ \A ks \in Sources : (\A i \in DOMAIN ks : MaySet(ks[i])) =>
       \A op \in {"inter", "union", "diff"} :
         (op = "inter" => \A i \in DOMAIN ks : IsSet(ks[i])) => Result(op, ks).members = Meaning(op, ks)
=============================================================================
