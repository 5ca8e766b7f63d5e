------------------------------- MODULE MCAof -------------------------------
(* Instances of module Aof for TLC.                                        *)
EXTENDS Aof, TLC

With(events, writesMax, faultsMax) ==
  [may |-> events, writes |-> writesMax, faults |-> faultsMax]

\* Rewrites, and the AOF switched off and on; writes that fail; a rewrite
\* child stopped while a BGSAVE runs; rewrites beside BGSAVE, transactions and
\* clean exits; more writes, so that two databases are saved and written to.
SafetyScenarios ==
  { With({"bgrewrite", "config", "resync", "fork", "rename", "child", "kill", "power"}, 2, 2),
    With({"bgrewrite", "write", "ftruncate", "kill", "power"}, 2, 2),
    With({"bgrewrite", "bgsave", "config"}, 2, 0),
    With({"bgrewrite", "bgsave", "multi", "fork", "child", "kill", "shutdown"}, 2, 2),
    With({"bgrewrite", "kill"}, 3, 1) }

LiveScenarios ==
  { With({"bgrewrite", "config", "fork", "child", "rename"}, 1, 2),
    With({"bgrewrite", "resync", "fork", "child"}, 1, 1),
    With({"bgrewrite", "bgsave", "child"}, 1, 1) }

FailingWrite == { With({"bgrewrite", "write"}, 2, 1) }
=============================================================================
