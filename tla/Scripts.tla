------------------------------ MODULE Scripts ------------------------------
(***************************************************************************)
(* Scripts known by their digest (scripting.c, replication.c, aof.c): a    *)
(* master runs EVALSHA for its clients and may propagate it as such only   *)
(* to those who have the script, all its slaves and the append only file;  *)
(* its script cache says of which scripts it may assume that.              *)
(*                                                                         *)
(* What a reader of the stream knows is kept beside it as if it had read   *)
(* all of it; a slave that is given a snapshot may have just been started, *)
(* and then knows no script.                                               *)
(***************************************************************************)
EXTENDS Integers, Sequences, FiniteSets, SequencesExt, TLC

CONSTANTS Bodies,        \* the scripts, each its own digest
          ScriptSlaves,
          CacheSize      \* repl_scriptcache_size

VARIABLES lua_scripts,        \* the scripts the master has
          repl_scriptcache,   \* the cache, newest first
          script_slaves,      \* slave -> [state, known]
          aof_scripts,        \* [state, known, child, diff]: the file; the rewrite child's
          rdb_child,
          unknown             \* history: a reader was sent a digest it does not know

scriptvars == <<lua_scripts, repl_scriptcache, script_slaves, aof_scripts, rdb_child, unknown>>

Unit(op, b) == [op |-> op, body |-> b]

\* What a reader knows after a unit.
Learn(known, u) == CASE u.op \in {"eval", "load"} -> known \cup {u.body}
                     [] u.op = "flush" -> {}
                     [] OTHER -> known

\* A slave that waits for its snapshot is fed from the fork on; one that is away can
\* come back and read on as long as the backlog goes.
IsFed(s) == script_slaves[s].state \in {"end", "online", "away"}

RewriteFed == aof_scripts.child /\ aof_scripts.state # "off"

\* call with the propagation forced or for a change: feedAppendOnlyFile and
\* replicationFeedSlaves.
Propagate(u) ==
  /\ script_slaves' = [s \in ScriptSlaves |->
                         IF IsFed(s) THEN [script_slaves[s] EXCEPT !.known = Learn(@, u)] ELSE script_slaves[s]]
  /\ aof_scripts' = [aof_scripts EXCEPT !.known = IF aof_scripts.state = "on" THEN Learn(@, u) ELSE @,
                                        !.diff  = IF RewriteFed THEN Learn(@, u) ELSE @]
  /\ unknown' = \/ unknown
                \/ /\ u.op = "evalsha"
                   /\ \/ \E s \in ScriptSlaves : IsFed(s) /\ u.body \notin script_slaves[s].known
                      \/ aof_scripts.state = "on" /\ u.body \notin aof_scripts.known
                      \/ RewriteFed /\ u.body \notin aof_scripts.diff

\* replicationScriptCacheAdd: the oldest makes room.
CacheAdd(cache, b) == <<b>> \o (IF Len(cache) = CacheSize THEN Front(cache) ELSE cache)
CacheFlush == repl_scriptcache' = <<>>

----------------------------------------------------------------------------
(* Commands of clients; a change is what the script may have made.         *)

EVAL(b, changes) ==
  /\ lua_scripts' = lua_scripts \cup {b}
  /\ IF changes THEN Propagate(Unit("eval", b)) ELSE UNCHANGED <<script_slaves, aof_scripts, unknown>>
  /\ UNCHANGED <<repl_scriptcache, rdb_child>>

\* The first EVALSHA since the cache was flushed is propagated as EVAL, even if it
\* changed nothing.
EVALSHA(b, changes) ==
  /\ b \in lua_scripts
  /\ IF b \notin Range(repl_scriptcache)
       THEN repl_scriptcache' = CacheAdd(repl_scriptcache, b) /\ Propagate(Unit("eval", b))
       ELSE /\ UNCHANGED repl_scriptcache
            /\ IF changes THEN Propagate(Unit("evalsha", b)) ELSE UNCHANGED <<script_slaves, aof_scripts, unknown>>
  /\ UNCHANGED <<lua_scripts, rdb_child>>

SCRIPT_LOAD(b) == /\ lua_scripts' = lua_scripts \cup {b} /\ Propagate(Unit("load", b))
                  /\ UNCHANGED <<repl_scriptcache, rdb_child>>

\* SCRIPT FLUSH: scriptingReset.
SCRIPT_FLUSH == /\ lua_scripts' = {} /\ CacheFlush /\ Propagate(Unit("flush", CHOOSE b \in Bodies : TRUE))
                /\ UNCHANGED rdb_child

----------------------------------------------------------------------------
(* Slaves and the append only file.                                        *)

Slave(state) == [state |-> state, known |-> {}]
Connected == {s \in ScriptSlaves : script_slaves[s].state \in {"start", "end", "online"}}

\* Mutant: a new dump for slaves does not empty the cache.
SyncKeepingCache(s) ==
  /\ script_slaves[s].state = "off" /\ ~rdb_child
  /\ rdb_child' = TRUE /\ script_slaves' = [script_slaves EXCEPT ![s] = Slave("end")]
  /\ UNCHANGED <<lua_scripts, repl_scriptcache, aof_scripts, unknown>>

\* syncCommand: a slave shares the dump another one waits for, with what was fed
\* since; waits for the next; or starts one.
Sync(s) ==
  LET same == {r \in ScriptSlaves : script_slaves[r].state = "end"}
  IN  /\ script_slaves[s].state = "off"
      /\ script_slaves' = [script_slaves EXCEPT ![s] =
           IF rdb_child /\ same # {} THEN script_slaves[CHOOSE r \in same : TRUE]
           ELSE Slave(IF rdb_child THEN "start" ELSE "end")]
      /\ IF rdb_child THEN UNCHANGED <<rdb_child, repl_scriptcache>> ELSE rdb_child' = TRUE /\ CacheFlush
      /\ UNCHANGED <<lua_scripts, aof_scripts, unknown>>

\* BGSAVE for the user or a save point; updateSlavesWaitingBgsave when a dump ends,
\* with the one for those that wait, whose fork may fail.
Bgsave == ~rdb_child /\ rdb_child' = TRUE
          /\ UNCHANGED <<lua_scripts, repl_scriptcache, script_slaves, aof_scripts, unknown>>
BgsaveDone(ok, forks) ==
  LET waiting == {s \in ScriptSlaves : script_slaves[s].state = "start"}
  IN  /\ rdb_child /\ rdb_child' = (waiting # {} /\ forks)
      /\ script_slaves' = [s \in ScriptSlaves |->
           CASE script_slaves[s].state = "start" -> Slave("end")
             [] script_slaves[s].state = "end" -> IF ok THEN [script_slaves[s] EXCEPT !.state = "online"] ELSE Slave("off")
             [] OTHER -> script_slaves[s]]
      /\ IF waiting # {} THEN CacheFlush ELSE UNCHANGED repl_scriptcache
      /\ UNCHANGED <<lua_scripts, aof_scripts, unknown>>

\* A link is lost; an online slave may resume if the backlog still has its place.
Disconnect(s) == /\ script_slaves[s].state \in {"start", "end", "online"}
                 /\ script_slaves' = [script_slaves EXCEPT ![s] =
                      IF @.state = "online" THEN [@ EXCEPT !.state = "away"] ELSE Slave("off")]
                 /\ UNCHANGED <<lua_scripts, repl_scriptcache, aof_scripts, rdb_child, unknown>>
Return(s, resumes) == /\ script_slaves[s].state = "away"
                      /\ script_slaves' = [script_slaves EXCEPT ![s] =
                           IF resumes THEN [@ EXCEPT !.state = "online"] ELSE Slave("off")]
                      /\ UNCHANGED <<lua_scripts, repl_scriptcache, aof_scripts, rdb_child, unknown>>

\* replicationCron: nobody is left who could know a script.
CronFlush == /\ Connected = {} /\ aof_scripts.state = "off" /\ repl_scriptcache # <<>>
             /\ CacheFlush /\ UNCHANGED <<lua_scripts, script_slaves, aof_scripts, rdb_child, unknown>>

\* rewriteAppendOnlyFileBackground, for CONFIG SET appendonly yes (on) or BGREWRITEAOF,
\* with or without a file in use; backgroundRewriteDoneHandler. The new file has no script.
AofRewrite(on) == /\ ~aof_scripts.child /\ (on => aof_scripts.state = "off") /\ CacheFlush
                  /\ aof_scripts' = [aof_scripts EXCEPT !.state = IF on THEN "wait" ELSE @, !.child = TRUE]
                  /\ UNCHANGED <<lua_scripts, script_slaves, rdb_child, unknown>>
AofRewriteDone(ok) ==
  /\ aof_scripts.child
  /\ aof_scripts' = IF ok /\ aof_scripts.state # "off"
                       THEN [state |-> "on", known |-> aof_scripts.diff, child |-> FALSE, diff |-> {}]
                       ELSE [aof_scripts EXCEPT !.child = FALSE, !.diff = {}]
  /\ UNCHANGED <<lua_scripts, repl_scriptcache, script_slaves, rdb_child, unknown>>
StopAppendOnly == /\ aof_scripts.state # "off"
                  /\ aof_scripts' = [state |-> "off", known |-> {}, child |-> FALSE, diff |-> {}]
                  /\ UNCHANGED <<lua_scripts, repl_scriptcache, script_slaves, rdb_child, unknown>>

\* A restart: the file is executed, and each EVALSHA in it adds to the cache.
RestartWithAof ==
  /\ aof_scripts.state = "on"
  /\ lua_scripts' = aof_scripts.known
  /\ \E q \in SeqOf(aof_scripts.known, CacheSize) : IsInjective(q) /\ repl_scriptcache' = q
  /\ script_slaves' = [s \in ScriptSlaves |-> Slave("off")] /\ rdb_child' = FALSE
  /\ aof_scripts' = [aof_scripts EXCEPT !.child = FALSE, !.diff = {}]
  /\ UNCHANGED unknown

ScriptsInit == /\ lua_scripts = {} /\ repl_scriptcache = <<>> /\ rdb_child = FALSE /\ unknown = FALSE
               /\ script_slaves = [s \in ScriptSlaves |-> Slave("off")]
               /\ aof_scripts = [state |-> "off", known |-> {}, child |-> FALSE, diff |-> {}]

ScriptsNext ==
  \/ \E b \in Bodies : SCRIPT_LOAD(b) \/ \E changes \in BOOLEAN : EVAL(b, changes) \/ EVALSHA(b, changes)
  \/ SCRIPT_FLUSH \/ Bgsave \/ CronFlush \/ StopAppendOnly \/ RestartWithAof
  \/ \E s \in ScriptSlaves : Sync(s) \/ Disconnect(s) \/ \E resumes \in BOOLEAN : Return(s, resumes)
  \/ \E ok \in BOOLEAN : AofRewrite(ok) \/ AofRewriteDone(ok) \/ \E forks \in BOOLEAN : BgsaveDone(ok, forks)

----------------------------------------------------------------------------
\* No slave and no append only file is ever given the digest of a script it was not
\* given before; the cache holds no script twice and none the master has not.
DigestsKnown == /\ ~unknown /\ IsInjective(repl_scriptcache)
                /\ Range(repl_scriptcache) \subseteq lua_scripts
=============================================================================
