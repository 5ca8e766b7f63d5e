----------------------------- MODULE MCSentinel -----------------------------
(* Scenarios of module Sentinel for TLC.                                   *)
EXTENDS Sentinel, TLC

CONSTANTS s1, s2, s3, r1, r2, r3

Ranks == [r \in Redis |-> CASE r = r1 -> 1 [] r = r2 -> 2 [] OTHER -> 3]

\* Two sentinels that know each other and a master that is dead.
Base == [sentinels |-> {s1, s2}, slaves |-> {}, known |-> TRUE, quorum |-> 2,
         parallelSyncs |-> 1, maxEpoch |-> 1, faults |-> {}, maxFaults |-> 1]

\* Three sentinels vote; two of them vote in two epochs, with one fault.
Election3 == [Base EXCEPT !.sentinels = {s1, s2, s3}]
Election2 == [Base EXCEPT !.maxEpoch = 2,
                !.faults = {"restart", "late", "loss", "silence", "reset", "tilt"}]

\* The master dies and two slaves are reconfigured.
Failover == [Base EXCEPT !.slaves = {r2, r3}, !.faults = {"die", "revive", "restart"}]

\* The sentinels find the slave, each other, and the living instances slow;
\* none dies (a slow one may be seen as a dead one is).
Discovery == [Base EXCEPT !.slaves = {r2}, !.known = FALSE, !.maxFaults = 0,
                !.faults = {"die", "slow"}]

\* A sentinel alone, with the commands of its operator.
Commands == [Base EXCEPT !.sentinels = {s1}, !.quorum = 1, !.slaves = {r2, r3},
               !.parallelSyncs = 2,
               !.maxEpoch = 2, !.maxFaults = 2,
               !.faults = {"die", "revive", "failover", "monitor", "reset",
                           "restart", "tilt"}]

AllScenarios == {Election3, Election2, Failover, Discovery, Commands}

\* Three sentinels and failovers at two epochs, without faults.
Epochs == {[Base EXCEPT !.sentinels = {s1, s2, s3}, !.quorum = 1, !.maxEpoch = 2]}

Alone == {Commands}
=============================================================================
