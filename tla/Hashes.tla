------------------------------- MODULE Hashes -------------------------------
(***************************************************************************)
(* Hashes (t_hash.c): a ziplist of fields and values in turn, or a hash    *)
(* table.  One key.  A field or a value is a number; some are longer than  *)
(* hash-max-ziplist-value, some values are integers.                       *)
(***************************************************************************)
EXTENDS Integers, Sequences, FiniteSets, SequencesExt

CONSTANTS HashFields, HashValues,
          LongStrings,   \* the longer ones
          IntValues,     \* the values that are integers, at face value
          MaxHash        \* hash-max-ziplist-entries

VARIABLES hash,    \* the object, or NoHash
          hvalue,  \* history: the fields' values, by the commands' meaning
          hseen    \* the value when the key was last signalled and counted

hashvars == <<hash, hvalue, hseen>>

NoHash == [enc |-> "none"]
Ziplist(q) == [enc |-> "ziplist", zl |-> q]
Table(d)   == [enc |-> "ht", d |-> d]

\* ziplistFind with one entry skipped: the index of the field's entry, or 0.
FindField(q, f) ==
  LET at == {i \in DOMAIN q : i % 2 = 1 /\ q[i] = f}
  IN  IF at = {} THEN 0 ELSE CHOOSE i \in at : \A j \in at : i <= j

\* hashTypeGetObject and hashTypeExists
Exists(o, f)    == IF o.enc = "ziplist" THEN FindField(o.zl, f) # 0 ELSE f \in DOMAIN o.d
GetObject(o, f) == IF o.enc = "ziplist" THEN o.zl[FindField(o.zl, f) + 1] ELSE o.d[f]
Length(o)       == IF o.enc = "ziplist" THEN Len(o.zl) \div 2 ELSE Cardinality(DOMAIN o.d)

\* The iterator: fields at the odd entries, each followed by its value.
Convert(o) ==
  LET n == Length(o)
  IN  Table([f \in {o.zl[2 * i - 1] : i \in 1 .. n} |->
               o.zl[2 * (CHOOSE i \in 1 .. n : o.zl[2 * i - 1] = f)]])
TryConversion(o, args) ==
  IF o.enc = "ziplist" /\ Range(args) \cap LongStrings # {} THEN Convert(o) ELSE o

Assign(d, f, v) == [x \in DOMAIN d \cup {f} |-> IF x = f THEN v ELSE d[x]]

\* hashTypeSet: the value is deleted and inserted where it was.
TypeSet(o, f, v) ==
  LET at == FindField(o.zl, f)
      q  == IF at # 0 THEN InsertAt(RemoveAt(o.zl, at + 1), at + 1, v) ELSE o.zl \o <<f, v>>
  IN  CASE o.enc = "ht" -> Table(Assign(o.d, f, v))
        [] o.enc = "ziplist" /\ Len(q) \div 2 > MaxHash -> Convert(Ziplist(q))
        [] OTHER -> Ziplist(q)

\* hashTypeDelete: the field's entry, then the one that takes its place.
TypeDelete(o, f) ==
  CASE ~Exists(o, f) -> o
    [] Exists(o, f) /\ o.enc = "ziplist" ->
         Ziplist(RemoveAt(RemoveAt(o.zl, FindField(o.zl, f)), FindField(o.zl, f)))
    [] OTHER -> Table([x \in DOMAIN o.d \ {f} |-> o.d[x]])

LookupWriteOrCreate == IF hash = NoHash THEN Ziplist(<<>>) ELSE hash
Notice(dirty) == hseen' = IF dirty THEN hvalue' ELSE hseen

\* HSET, with one pair, and HMSET.
Hmset(q) ==
  LET o == TryConversion(LookupWriteOrCreate, q)
      n == Len(q) \div 2
  IN  /\ hash' = FoldLeft(LAMBDA h, i : TypeSet(h, q[2 * i - 1], q[2 * i]), o, [i \in 1 .. n |-> i])
      /\ hvalue' = FoldLeft(LAMBDA d, i : Assign(d, q[2 * i - 1], q[2 * i]), hvalue, [i \in 1 .. n |-> i])
      /\ Notice(TRUE)

\* The object may change its encoding even if the field is there.
Hsetnx(f, v) ==
  LET o == TryConversion(LookupWriteOrCreate, <<f, v>>)
  IN  /\ hash' = IF Exists(o, f) THEN o ELSE TypeSet(o, f, v)
      /\ hvalue' = IF f \in DOMAIN hvalue THEN hvalue ELSE Assign(hvalue, f, v)
      /\ Notice(~Exists(o, f))

\* HINCRBY and HINCRBYFLOAT; an error if the value is no number.
Hincrby(f, n) ==
  LET o == LookupWriteOrCreate
      old == IF Exists(o, f) THEN GetObject(o, f) ELSE 0
  IN  /\ old \in IntValues \cup {0}
      /\ old + n \in IntValues
      /\ hash' = TypeSet(o, f, old + n)
      /\ hvalue' = Assign(hvalue, f, IF f \in DOMAIN hvalue THEN hvalue[f] + n ELSE n)
      /\ Notice(TRUE)

Kept(o) == IF Length(o) = 0 THEN NoHash ELSE o

\* The command stops at the field that leaves nothing.
Hdel(f, g) ==
  LET o1 == Kept(TypeDelete(hash, f))
      o2 == IF o1 = NoHash THEN o1 ELSE Kept(TypeDelete(o1, g))
  IN  /\ hash # NoHash
      /\ hash' = o2
      /\ hvalue' = [x \in DOMAIN hvalue \ {f, g} |-> hvalue[x]]
      /\ Notice(Exists(hash, f) \/ Exists(hash, g))

\* HGETALL, as a function.
Hgetall(o) == IF o.enc = "ht" THEN o.d ELSE Convert(o).d

HashInit == hash = NoHash /\ hvalue = <<>> /\ hseen = <<>>
HashNext ==
  \/ \E f, g \in HashFields, v, w \in HashValues : Hmset(<<f, v>>) \/ Hmset(<<f, v, g, w>>)
  \/ \E f \in HashFields, v \in HashValues : Hsetnx(f, v) \/ Hincrby(f, v)
  \/ \E f, g \in HashFields : Hdel(f, g)
HashSpec == HashInit /\ [][HashNext]_hashvars

\* In either encoding the hash gives every field the value the commands mean,
\* also one equal to a value; no empty hash is left; every change was signalled
\* and counted; and a ziplist is within its limits, except for a field that
\* HINCRBY adds without looking at its length.
HashRepresents ==
  /\ hash = NoHash <=> hvalue = <<>>
  /\ hseen = hvalue
  /\ hash # NoHash => /\ Hgetall(hash) = hvalue /\ Length(hash) = Cardinality(DOMAIN hvalue)
                      /\ \A f \in HashFields : Exists(hash, f) <=> f \in DOMAIN hvalue
                      /\ \A f \in DOMAIN hvalue : GetObject(hash, f) = hvalue[f]
                      /\ hash.enc = "ziplist" =>
                           /\ Length(hash) <= MaxHash
                           /\ \A f \in DOMAIN hvalue : hvalue[f] \notin LongStrings
=============================================================================
