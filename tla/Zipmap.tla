------------------------------- MODULE Zipmap --------------------------------
(***************************************************************************)
(* zipmap.c: the strings of a small hash one after the other, the form of  *)
(* hashes in files of older versions.  Bytes that an update leaves free    *)
(* stay with the value until there are four.  A string is its length and,  *)
(* for a value, which of the strings of that length it is.                 *)
(***************************************************************************)
EXTENDS Integers, Sequences, FiniteSets, SequencesExt

CONSTANTS Fields,     \* the lengths of the keys, all different
          Contents,   \* the values, [len, id]
          CountLimit  \* ZIPMAP_BIGLEN as the limit of the counter

VARIABLES zipmap,  \* [count, blob, e]: first byte, bytes, entries [key, val, free]
          fields   \* history: the mapping, by the calls' meaning

zipmapvars == <<zipmap, fields>>

LenBytes(n) == IF n < 254 THEN 1 ELSE 5
Required(k, v) == LenBytes(k) + k + LenBytes(v.len) + 1 + v.len
RawEntry(e) == Required(e.key, e.val) + e.free

\* zipmapLookupRaw: the entry of the key, 0 if it has none; and the total length.
Lookup(zm, k) ==
  LET at == {i \in DOMAIN zm.e : zm.e[i].key = k}
  IN  IF at = {} THEN 0 ELSE CHOOSE i \in at : \A j \in at : i <= j
TotLen(zm) == FoldLeft(LAMBDA n, e : n + RawEntry(e), 2, zm.e)

\* The new value takes the place of the old one if it fits; three bytes at most stay free.
Set(zm, k, v) ==
  LET i     == Lookup(zm, k)
      have  == IF i = 0 THEN Required(k, v) ELSE RawEntry(zm.e[i])
      grown == IF have < Required(k, v) THEN Required(k, v) ELSE have
      empty == grown - Required(k, v)
      new   == [key |-> k, val |-> v, free |-> IF empty >= 4 THEN 0 ELSE empty]
  IN  IF i = 0 THEN [count |-> IF zm.count < CountLimit THEN zm.count + 1 ELSE zm.count,
                     blob |-> TotLen(zm) + RawEntry(new), e |-> Append(zm.e, new)]
      ELSE [zm EXCEPT !.e[i] = new, !.blob = TotLen(zm) - have + RawEntry(new)]

Del(zm, k) ==
  LET i == Lookup(zm, k)
  IN  IF i = 0 THEN zm
      ELSE [count |-> IF zm.count < CountLimit THEN zm.count - 1 ELSE zm.count,
            blob |-> TotLen(zm) - RawEntry(zm.e[i]), e |-> RemoveAt(zm.e, i)]

\* zipmapLen stores the number of entries when it had to count them.
LenOf(zm)   == IF zm.count < CountLimit THEN zm.count ELSE Len(zm.e)
Counted(zm) == IF LenOf(zm) < CountLimit THEN [zm EXCEPT !.count = LenOf(zm)] ELSE zm

ZipmapInit == zipmap = [count |-> 0, blob |-> 2, e |-> <<>>] /\ fields = <<>>
ZipmapSet(k, v) == /\ zipmap' = Set(zipmap, k, v)
                   /\ fields' = [x \in DOMAIN fields \cup {k} |-> IF x = k THEN v ELSE fields[x]]
ZipmapDel(k)    == /\ zipmap' = Del(zipmap, k)
                   /\ fields' = [x \in DOMAIN fields \ {k} |-> fields[x]]
ZipmapLen       == zipmap' = Counted(zipmap) /\ UNCHANGED fields
ZipmapNext == (\E k \in Fields : ZipmapDel(k) \/ \E v \in Contents : ZipmapSet(k, v)) \/ ZipmapLen
ZipmapSpec == ZipmapInit /\ [][ZipmapNext]_zipmapvars

\* The entries hold the mapping that the calls mean, the memory has the size of
\* its entries, and the counter that stops at its limit never gives a wrong length.
ZipmapHolds ==
  LET zm == zipmap
  IN  /\ Len(zm.e) = Cardinality(DOMAIN fields) /\ LenOf(zm) = Len(zm.e)
      /\ \A k \in Fields : IF k \in DOMAIN fields
                           THEN Lookup(zm, k) # 0 /\ zm.e[Lookup(zm, k)].val = fields[k]
                           ELSE Lookup(zm, k) = 0
      /\ zm.blob = TotLen(zm) /\ \A i \in DOMAIN zm.e : zm.e[i].free \in 0 .. 3
=============================================================================
