------------------------------ MODULE DictSpec ------------------------------
(***************************************************************************)
(* What a hash table promises (dict.h): a map.  Each call changes at most   *)
(* the entry of its key; resizing, rehashing, iterating and scanning       *)
(* change nothing.                                                         *)
(***************************************************************************)
CONSTANTS Keys, Vals, Missing

VARIABLE map   \* the value of each key, or Missing

Init == map = [k \in Keys |-> Missing]

\* dictAdd does nothing for a key that is there; dictReplace sets it.
Add(k, v)     == map[k] = Missing /\ map' = [map EXCEPT ![k] = v]
Replace(k, v) == map' = [map EXCEPT ![k] = v]
Delete(k)     == map' = [map EXCEPT ![k] = Missing]
Empty         == map' = [k \in Keys |-> Missing]

\* dictFind, dictGetRandomKey, iterators, scans, resizing.
Look          == UNCHANGED map

Next == \/ Look
        \/ \E k \in Keys : Delete(k) \/ \E v \in Vals : Add(k, v) \/ Replace(k, v)
        \/ Empty

Spec == Init /\ [][Next]_map
=============================================================================
