----------------------------- MODULE MCBlocking -----------------------------
(* Instances of module Blocking for TLC.                                   *)
EXTENDS Blocking, TLC

ClientSymmetry == Permutations(Clients)
=============================================================================
