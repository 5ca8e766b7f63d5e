------------------------------ MODULE MCServer ------------------------------
(***************************************************************************)
(* Parts of the server that keep something in step with something else,    *)
(* each checked by itself: the backlog with the slaves' links, and those   *)
(* that are instantiated here. part says which one a behaviour is about.   *)
(***************************************************************************)
EXTENDS Backlog

VARIABLES part,
          master, slave, now, cycle, strayed,
          lua_scripts, repl_scriptcache, script_slaves, aof_scripts, rdb_child, unknown,
          script, sclients, sdeeds,
          pubsub_channels, pubsub_patterns, subs, notify, published, heard,
          source, target, conns, doing, outcome, clock,
          ts, second, spikes,
          el, kernel, open, fired, frames, torn, misled,
          timers, wall, loop, round,
          requests, parser, ran,
          client, writable, deferred, closing, unix, sofar

\* Two databases of two names; X and Y share one.
C(op, x, y, a) == [op |-> op, x |-> x, y |-> y, arg |-> a]
X == <<1, 1>>
Y == <<1, 2>>
Z == <<2, 1>>
Sent == {C("set", X, X, 0), C("set", X, X, 1), C("set", Y, Y, 0), C("del", X, X, 0), C("read", X, X, 0),
         C("read", Y, Y, 0), C("rename", X, Y, 0), C("renamenx", Y, X, 0), C("move", X, Z, 0),
         C("move", Z, X, 0), C("expire", X, X, 1), C("expireat", Y, Y, 1), C("expire", X, X, -1),
         C("persist", X, X, 0), C("flushdb", Z, Z, 0), C("flushall", X, X, 0)}
Run  == {<<C("renamenx", Y, X, 0), C("set", X, X, 0)>>, <<C("set", X, X, 0), C("expire", X, X, -1)>>,
         <<C("set", X, X, 1), C("read", Y, Y, 0)>>}
Ks == INSTANCE Keyspace WITH Dbs <- {1, 2}, Names <- {1, 2}, Absent <- 0, NoTime <- -1, MaxNow <- 2, Lag <- 1,
                             MaxMemory <- 2, Policies <- {"allkeys-lru", "volatile-ttl", "noeviction"},
                             Lookups <- 1, PerCall <- 1, Commands <- Sent, Scripts <- Run

Sc == INSTANCE Scripts WITH Bodies <- {1, 2}, ScriptSlaves <- {1, 2}, CacheSize <- 1
Sr == INSTANCE ScriptRun WITH ScriptClients <- {1, 2}, Nobody <- 0

Literal(c) == [k |-> "c", c |-> c]
AnyText    == [k |-> "*"]
Ps == INSTANCE Pubsub WITH Subscribers <- {1, 2}, Channels <- {<<1>>, <<1, 2>>},
                           Patterns <- {<<Literal(1), AnyText>>,
                                        <<AnyText, [k |-> "[", not |-> TRUE, from |-> 3, to |-> 2]>>},
                           EventKeys <- {<<1>>}, EventNames <- {[name |-> <<2>>, class |-> "x"]},
                           Settings <- {{"K", "E"}, {"A", "K"}, {"x", "E", "K"}},
                           ChannelOf <- LAMBDA kind, n : IF kind = "K" THEN n ELSE <<1>> \o n

Mi == INSTANCE Migrate WITH MigrateValues <- {1, 2}, RdbVersion <- 6, Ttls <- {0, 1}, MaxTries <- 2, MaxClock <- 2
La == INSTANCE Latency WITH TsLen <- 2, Latencies <- {1, 2, 4}, MaxSeconds <- 4, MaxSpikes <- 4
Ev == INSTANCE EventLoop WITH MaxFd <- 2, SetSizes <- {2, 3}, MaxBatch <- 2
Ti == INSTANCE TimeEvents WITH PerSec <- 2, MaxTimers <- 3, Periods <- {1, 2}, MaxTime <- 3, MaxRan <- 1

\* Requests with arguments that are empty, short, and long enough to be read apart;
\* lines; a client that blocks with more to come; each kind of junk.
B(n) == [i \in 1 .. n |-> "x"]
CRLF == <<"CR", "LF">>
Array(args)      == [k |-> "array", args |-> args]
Line(words, end) == [k |-> "line", args |-> words, end |-> end]
Junk(bytes)      == [k |-> "junk", bytes |-> bytes]
Talks == {<<Array(<<B(1), B(7)>>), Array(<<>>), Array(<<B(0), B(8), B(2)>>)>>,
          <<Array(<<B(9)>>), Line(<<B(2), B(1)>>, CRLF), Line(<<>>, CRLF), Array(<<B(1), B(9), B(3)>>)>>,
          <<Array(<<<<"b">>>>), Array(<<B(1)>>), Array(<<B(1)>>), Line(<<B(2)>>, <<"LF">>)>>,
          <<Line(<<B(2)>>, CRLF), Junk(<<"*", "0", "1">> \o CRLF)>>,
          <<Array(<<B(1)>>), Junk(<<"*", "1">> \o CRLF \o <<"-", "1">> \o CRLF)>>,
          <<Array(<<B(2)>>), Junk(<<"*", "1">> \o CRLF \o <<"$", "-", "1">> \o CRLF)>>,
          <<Junk(B(17))>>, <<Array(<<B(2)>>), Junk(<<"*">> \o B(16))>>,
          <<Junk(<<"*", "2">> \o CRLF \o <<"$">> \o B(17))>>}
Qu == INSTANCE Query WITH BigArg <- 8, IoBuf <- 4, InlineMax <- 16, QueryMax <- 24, MaxCount <- 1000,
                          Conversations <- Talks
Re == INSTANCE Replies WITH BufSize <- 2, Overhead <- 1, ItemSize <- 1, ReplySizes <- {1, 2, 3},
                            Limits <- [hard |-> 12, soft |-> 8, seconds |-> 1], MaxBytes <- 8, MaxSeconds <- 4

kvars == <<master, slave, now, cycle, strayed>>
cvars == <<lua_scripts, repl_scriptcache, script_slaves, aof_scripts, rdb_child, unknown>>
rvars == <<script, sclients, sdeeds>>
pvars == <<pubsub_channels, pubsub_patterns, subs, notify, published, heard>>
gvars == <<source, target, conns, doing, outcome, clock>>
lvars == <<ts, second, spikes>>
evars == <<el, kernel, open, fired, frames, torn, misled>>
tvars == <<timers, wall, loop, round>>
qvars == <<requests, parser, ran>>
ovars == <<client, writable, deferred, closing, unix, sofar>>
svars == <<part, vars, kvars, cvars, rvars, pvars, gvars, lvars, evars, tvars, qvars, ovars>>

ServerInit ==
  /\ part \in {"backlog", "keyspace", "scripts", "run", "pubsub", "migrate", "latency", "files", "timers",
            "query", "replies"}
  /\ Init /\ Ks!KeyspaceInit /\ Sc!ScriptsInit /\ Sr!RunInit
  /\ Ps!PubsubInit /\ Mi!MigrateInit /\ La!LatencyInit
  /\ Ev!EventInit /\ Ti!TimeInit /\ Qu!QueryInit /\ Re!RepliesInit
  \* One initial state is enough of the parts that do not run.
  /\ part # "backlog" => size = MinSize
  /\ part # "query"   => requests.of = <<Junk(B(17))>>
  /\ part # "migrate" => source = Mi!Key(1, -1)

Only(p) ==
  /\ part = p /\ UNCHANGED part
  /\ p # "backlog"  => UNCHANGED vars
  /\ p # "keyspace" => UNCHANGED kvars
  /\ p # "scripts"  => UNCHANGED cvars
  /\ p # "run"      => UNCHANGED rvars
  /\ p # "pubsub"   => UNCHANGED pvars
  /\ p # "migrate"  => UNCHANGED gvars
  /\ p # "latency"  => UNCHANGED lvars
  /\ p # "files"    => UNCHANGED evars
  /\ p # "timers"   => UNCHANGED tvars
  /\ p # "query"    => UNCHANGED qvars
  /\ p # "replies"  => UNCHANGED ovars

ServerNext ==
  \/ Only("backlog")  /\ Next
  \/ Only("keyspace") /\ Ks!KeyspaceNext
  \/ Only("scripts")  /\ Sc!ScriptsNext
  \/ Only("run")      /\ Sr!RunNext
  \/ Only("pubsub")   /\ Ps!PubsubNext
  \/ Only("migrate")  /\ Mi!MigrateNext
  \/ Only("latency")  /\ La!LatencyNext
  \/ Only("files")    /\ Ev!EventNext
  \/ Only("timers")   /\ Ti!TimeNext
  \/ Only("query")    /\ Qu!QueryNext
  \/ Only("replies")  /\ Re!RepliesNext

ServerSpec == ServerInit /\ [][ServerNext]_svars

\* The slave's data set follows the master's through expiry, eviction and commands
\* that depend on the clock.
KeyspaceInStep == Ks!KeyspaceInStep

\* Nobody is sent the digest of a script it does not know; a script is stopped only
\* before it has written, and its caller outlives it; the two sides of the publish and
\* subscribe tables agree and messages go to whom they say; a key that migrates is on
\* one of the servers; the latency monitor forgets only the oldest seconds; no handler
\* is called for a socket that is closed; a round misses no time event that is due and
\* calls none twice in less than its period, and the sleep before it ends when the
\* nearest is due, or less than a second later; a client's commands are those it sent, however they were cut, and it receives
\* every byte of its replies once.
ServerSound ==
  /\ Sc!DigestsKnown
  /\ part = "run" => Sr!ScriptRuns
  /\ Ps!PubsubSound /\ Mi!MigrateSound /\ La!LatencySound
  /\ Ev!LoopSound /\ Ti!TimersSound /\ Qu!QuerySound /\ Re!RepliesSound
=============================================================================
