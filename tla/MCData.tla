------------------------------- MODULE MCData -------------------------------
(***************************************************************************)
(* The representations of the data types, each checked by itself: part     *)
(* says which one a behaviour is about.                                    *)
(***************************************************************************)
EXTENDS Integers, Sequences

VARIABLES part,
          zset, zvalue, zseen, ziplist, items, clipped, intset, ints, zipmap, fields,
          sets, svalue, sseen, hash, hvalue, hseen, lst, lvalue, lseen,
          srv, kvalue, owed, logged, dict, can_resize, iter, scan,
          hll, hregs, hreply, hsent

P(e, s) == [ele |-> e, score |-> s]
Pairs   == {<<P(e, s)>> : e \in 1 .. 4, s \in {0, 50}} \cup {<<P(1, 0), P(2, 0), P(3, 50)>>}
Sources == {[type |-> "set", members |-> {1, 2}, weight |-> -50],
            [type |-> "set", members |-> {2, 3, 4}, weight |-> 0]}
Zs == INSTANCE Zset WITH Members <- 1 .. 4, Long <- {4}, MaxEntries <- 2, MaxLevel <- 3,
                         Scores <- {0, 50}, Adds <- Pairs, Incrs <- {50, -50}, Inf <- 50,
                         Others <- Sources, MinString <- -7, MaxString <- -8,
                         Heights <- {<<1, 2, 1, 3>>, <<2, 1, 3, 1>>}, Weights <- {0, 1},
                         LexBounds <- {0, 2, 3, 99}, Ranks <- {-9, -2, -1, 0, 1, 4}

Entry(i, l) == [int |-> i, len |-> l]
Zl == INSTANCE Ziplist WITH Payloads <- {Entry(TRUE, 0), Entry(FALSE, 247), Entry(FALSE, 260), Entry(TRUE, 8)},
                            CountMax <- 3, MaxItems <- 4
Is == INSTANCE Intset WITH Ints <- {-9, -3, -1, 0, 1, 3, 9}, Narrow <- {-1, 0, 1}, Middle <- {-3, 3}
Zm == INSTANCE Zipmap WITH Fields <- {1, 2, 254}, CountLimit <- 2,
                           Contents <- {[len |-> l, id |-> i] : l \in {2, 5, 6}, i \in {1, 2}}
St == INSTANCE Sets WITH SetKeys <- 1 .. 3, Elements <- 1 .. 3, IntElements <- {1, 2}, MaxIntset <- 1
Hs == INSTANCE Hashes WITH HashFields <- {1, 2, 9}, HashValues <- {1, 2, 8, 9}, LongStrings <- {8, 9},
                           IntValues <- {1, 2}, MaxHash <- 2
Ls == INSTANCE Lists WITH ListElements <- {1, 2, 8}, LongElements <- {8}, MaxZip <- 3, MaxList <- 4,
                          Indices <- {-5, -2, -1, 0, 1, 3, 7}

Sr == INSTANCE Strings WITH Keys <- {1}, Values <- {<<1>>, <<10>>}, SharedIntegers <- 2, MaxInt <- 2,
                            MaxText <- 2, SlowText <- 1, BufBytes <- 1, Chunk <- 2,
                            MaxOwed <- 4, MaxObjects <- 3
Dt == INSTANCE Dict WITH Keys <- 1 .. 3, Vals <- {1, 2}, Missing <- 0, InitialSize <- 1, ForceRatio <- 1,
                         MinFill <- 40, Bits <- 3, Replaced <- {1}

\* Hashes of registers 1, 2, 3 and 6 with runs of zeros of different lengths.
Hashes3 == {r + 8 * i : r \in {1, 2, 3}, i \in 0 .. 2}
Hl == INSTANCE Hll WITH Registers <- 8, HashBits <- 6, ZeroMaxLen <- 2, XZeroMaxLen <- 5, ValMaxLen <- 2,
                        ValMaxValue <- 2, SparseMaxBytes <- 6, OtherHashes <- <<9, 18, 12>>,
                        Batches <- {<<>>, <<14>>, <<9, 10>>, <<27, 11, 3>>} \cup {<<h>> : h \in Hashes3}

zvars == <<zset, zvalue, zseen>>
lvars == <<ziplist, items, clipped>>
ivars == <<intset, ints>>
mvars == <<zipmap, fields>>
svars == <<sets, svalue, sseen>>
hvars == <<hash, hvalue, hseen>>
qvars == <<lst, lvalue, lseen>>
tvars == <<srv, kvalue, owed, logged>>
dvars == <<dict, can_resize, iter, scan>>
yvars == <<hll, hregs, hreply, hsent>>
vars  == <<part, zvars, lvars, ivars, mvars, svars, hvars, qvars, tvars, dvars, yvars>>

Init == /\ part \in {"zset", "ziplist", "intset", "zipmap", "set", "hash", "list", "string", "dict", "hll"}
        /\ Zs!ZInit /\ Zl!ZiplistInit /\ Is!IntsetInit /\ Zm!ZipmapInit
        /\ St!SetsInit /\ Hs!HashInit /\ Ls!ListInit
        /\ Sr!StringsInit /\ Dt!DictInit /\ Hl!HllInit

Next ==
  /\ UNCHANGED part
  /\ \/ part = "zset"    /\ Zs!ZNext        /\ UNCHANGED <<lvars, ivars, mvars, svars, hvars, qvars, tvars, dvars, yvars>>
     \/ part = "ziplist" /\ Zl!ZiplistNext  /\ UNCHANGED <<zvars, ivars, mvars, svars, hvars, qvars, tvars, dvars, yvars>>
     \/ part = "intset"  /\ Is!IntsetNext   /\ UNCHANGED <<zvars, lvars, mvars, svars, hvars, qvars, tvars, dvars, yvars>>
     \/ part = "zipmap"  /\ Zm!ZipmapNext   /\ UNCHANGED <<zvars, lvars, ivars, svars, hvars, qvars, tvars, dvars, yvars>>
     \/ part = "set"     /\ St!SetsNext     /\ UNCHANGED <<zvars, lvars, ivars, mvars, hvars, qvars, tvars, dvars, yvars>>
     \/ part = "hash"    /\ Hs!HashNext     /\ UNCHANGED <<zvars, lvars, ivars, mvars, svars, qvars, tvars, dvars, yvars>>
     \/ part = "list"    /\ Ls!ListNext     /\ UNCHANGED <<zvars, lvars, ivars, mvars, svars, hvars, tvars, dvars, yvars>>
     \/ part = "string"  /\ Sr!StringsNext  /\ UNCHANGED <<zvars, lvars, ivars, mvars, svars, hvars, qvars, dvars, yvars>>
     \/ part = "dict"    /\ Dt!DictNextStep /\ UNCHANGED <<zvars, lvars, ivars, mvars, svars, hvars, qvars, tvars, yvars>>
     \/ part = "hll"     /\ Hl!HllNext      /\ UNCHANGED <<zvars, lvars, ivars, mvars, svars, hvars, qvars, tvars, dvars>>

Spec == Init /\ [][Next]_vars

\* Through every conversion of encoding, and in each of them, an object holds the
\* value its commands mean, with its links, spans, lengths and counters in order,
\* and every change was signalled to WATCH and counted for the save points.
Represents == /\ Zs!ZsetRepresents /\ Zs!ZsetSeen /\ Zl!ZiplistHolds /\ Is!IntsetHolds
              /\ Zm!ZipmapHolds /\ St!SetsRepresent /\ Hs!HashRepresents /\ Ls!ListRepresents
              /\ Sr!StringsRepresent /\ Dt!DictSound /\ Dt!ScanCompleteUnskewed /\ Hl!HllRepresents

\* Ranges by score, by rank and by name in both directions, ranks, counts, unions,
\* intersections and differences, random members: each command answers what its
\* definition over the plain value says, whatever algorithm the encodings choose.
Answers == Zs!ZsetAnswers /\ St!SetsAnswer

\* A table that is being rehashed, iterated or scanned is the same map throughout:
\* every call has the effect it has on a plain map, and no other step has any.
DictIsMap == Dt!Map!Spec

\* "The function guarantees that all the elements that are present in the
\* dictionary from the start to the end of the iteration are returned" (dictScan).
ScanComplete == Dt!ScanComplete
=============================================================================
