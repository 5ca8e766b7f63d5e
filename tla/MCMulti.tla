------------------------------ MODULE MCMulti ------------------------------
(* Instances of Multi for TLC.                                             *)
EXTENDS Multi, TLC

\* Connection slots are interchangeable.
ClientSymmetry == Permutations(Clients)
=============================================================================
