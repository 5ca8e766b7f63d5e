--------------------------- MODULE MCReplication ---------------------------
(* Topologies and bounds of module Replication for TLC.                    *)
EXTENDS Replication, TLC

CONSTANTS s1, s2, s3

\* s2 is a slave of s1: links, saves, forks and processes fail, the backlog
\* is freed and overflows.
Pair == [initialMaster |-> s1 :> None @@ s2 :> s1, backlogSize |-> 2, maxWrites |-> 3,
         maxOffset |-> 3, faults |-> {"link", "save", "fork", "restart"}, maxFaults |-> 3,
         slaveofCommands |-> {}, overlapBgsave |-> FALSE]

\* s2 and s3 are slaves of s1 and ask for a full resynchronization while a
\* child is saving; no link is lost, so that no PSYNC resumes.
Overlap == [Pair EXCEPT !.initialMaster = s1 :> None @@ s2 :> s1 @@ s3 :> s1,
              !.backlogSize = 1, !.maxWrites = 1, !.maxOffset = 0,
              !.faults = {"save", "timeout"}, !.maxFaults = 1,
              !.overlapBgsave = TRUE]

\* s3 is a slave of s2 and s2 of s1: one link is lost, the middle server is
\* promoted, the last one moved.
Chain == [Pair EXCEPT !.initialMaster = s1 :> None @@ s2 :> s1 @@ s3 :> s2,
            !.backlogSize = 3, !.maxWrites = 3, !.maxOffset = 0,
            !.faults = {"link"}, !.maxFaults = 1,
            !.slaveofCommands = {<<s2, None>>, <<s3, s1>>}]

AllSetups == {Pair, Overlap, Chain}

\* The chain loses two links and the middle server's backlog overflows.
LongChain == {[Chain EXCEPT !.backlogSize = 1, !.maxFaults = 2, !.slaveofCommands = {}]}
=============================================================================
