# A TLA+ model of the Redis server

The repository holds the source of a Redis 2.8 server with pluggable memory
allocators. These modules model its own logic, the way several clients,
several servers and a few child processes and threads interact; TLC checks
them on small instances and TLAPS proves what can be proved for every
instance. Paths are relative to `src/`.

## 1. The system

The server is one process with one main thread that runs an event loop
(`ae.c`): between two calls of `aeProcessEvents` nothing else changes the data
set. What makes it hard is not data races but *sequences*: a command reads
state that another command, a cron, a child process or a peer changes before
the next step of the same operation.

| Component | State | Operations | Interacts with | What is hard |
|---|---|---|---|---|
| Transactions (`multi.c`; `processCommand`, `call` in `redis.c`) | `c->flags`, `c->mstate`, `c->watched_keys`, `db->watched_keys`, `server.dirty` | MULTI, EXEC, DISCARD, WATCH, UNWATCH, queueing, the hooks on modified keys | db (hooks), propagation | two-sided watch tables, refused commands, what is propagated |
| Replication (`replication.c`) | on a master: slaves and their `replstate`; on a slave: `repl_state`, `master`, `cached_master`, `repl_master_runid`; both: `runid`, `master_repl_offset`, backlog | SYNC, PSYNC, feeding, handshake, transfer, SLAVEOF, `replicationCron` | RDB child, client I/O, AOF restart | lost links, shared BGSAVEs, chains, restarts, offsets |
| Backlog (`replication.c:46-308`) | ring, index, history length, first offset | create, feed, resize, free, reply | replication | wrap-around, the window of valid offsets |
| Append only file (`aof.c`) | `aof_state`, `aof_buf`, rewrite buffer, the file, child | write, fsync, rewrite, stop, start, load | bio threads, children, cron | three copies that must add up, crashes, postponed writes |
| Background I/O (`bio.c`) | job lists, pending counters, mutexes | create a job, run it, count | AOF, `rdb.c` | the only real threads |
| RDB and children (`rdb.c`, `serverCron`) | `rdb_child_pid`, save points, `dirty`, `dirty_before_bgsave`, `lastbgsave_status` | SAVE, BGSAVE, reaping, SHUTDOWN | AOF, replication | two kinds of child share `wait3`; a child works on an old data set |
| Key space and expiry (`db.c`, `activeExpireCycle`, `freeMemoryIfNeeded`) | dictionaries, expires | lookup, expire, rename, evict | replication (DEL), watch | a slave must not expire by itself |
| Blocking lists (`t_list.c`) | `db->blocking_keys`, `db->ready_keys`, `server.ready_keys`, `c->bpop` | BLPOP, BRPOPLPUSH, serving, timeout | transactions, propagation | order of service, clients blocked on several keys |
| Dictionaries (`dict.c`) | two tables, `rehashidx`, iterators | add, delete, rehash step, SCAN | everything | iteration and scan during a rehash |
| Client I/O (`networking.c`) | query buffer, parse state, reply buffers, flags | read, parse, write, free, asynchronous close | all commands | limits, freeing inside a handler |
| Event loop (`ae.c`) | file and time events | create, delete, process | all | events deleted by the handler of another one |
| Pub/Sub (`pubsub.c`, `notify.c`) | channels and patterns, on both sides | subscribe, publish | client free | two-sided tables |
| Scripting (`scripting.c`, script cache in `replication.c`) | Lua state, `lua_caller`, script cache | EVAL, EVALSHA, SCRIPT KILL, time limit | propagation | EVALSHA to a slave that lacks the script |
| Sentinel (`sentinel.c`) | instances, epochs, failover state | PING, INFO, votes, failover | other sentinels | elections, conflicting configurations |
| Compact encodings (`intset.c`, `ziplist.c`, `zipmap.c`) | bytes | insert, delete, search | data types | upgrade, cascading updates |
| Data types (`t_*.c`, `sort.c`, `bitops.c`, `hyperloglog.c`, `object.c`) | objects | the commands | key space | encoding conversions, skip list |
| MIGRATE (`migrate.c`) | socket cache | DUMP, RESTORE, MIGRATE | another server | a lost reply |
| Slow log, latency (`slowlog.c`, `latency.c`) | bounded lists | push, reset | cron | limits changed at run time |
| Configuration (`config.c`) | text | CONFIG GET/SET/REWRITE | all | effects are modelled with the component they change |
| Support (`sds.c`, `adlist.c`, `util.c`, `zmalloc.c`, `anet.c`, `rio.c`, ...) and tools (`redis-cli.c`, ...) | - | - | - | not modelled: helpers, system calls, other programs |

### What makes each component correct

* **Transactions**: an EXEC runs only if nothing it watched changed and nothing
  it queued was refused; both sides of WATCH agree; a reader of the stream sees
  whole transactions, in the right database.
* **Replication**: a slave that is attached ends with the master's data set,
  with nothing lost or repeated; its offset names the unit it has; after faults
  stop every slave is in sync.
* **Backlog**: the ring holds the end of the stream; an accepted PSYNC
  continues it byte by byte.
* **Append only file**: with `always`, what a client was told is durable;
  file, buffer and rewrite buffer add up to the data set; postponed writes are
  done.
* **Blocking lists**: an element goes to the client that waited longest, never
  to two, and nobody stays blocked in front of a list with elements.
* **Dictionaries**: a SCAN from start to end returns every element present all
  the time; a lookup finds an element in either table.
* **Sentinel**: one leader per epoch; the configuration with the greatest epoch
  prevails.
* **Pub/Sub, client I/O, event loop**: no table refers to a freed client; no
  handler is called after it was deleted.
* **Key space**: a slave holds what its master holds although only the master
  expires and evicts.
* **Scripting**: nobody is sent the digest of a script it does not have; a
  script that wrote is never stopped half way.
* **Data types, encodings**: whatever the representation, it is the value that
  the commands mean, and each command answers from it what it says.
* **Background threads, children**: no job is lost or done twice;
  `server.dirty` never claims that the dump holds what it does not.

PROJECT.json lists every hazard at its line, with the properties that cover it.

## 2. Plan

Order: what loses or diverges data first. Written so far, in that order:

1. `Multi`: transactions, watch tables, propagation.
2. `Replication`, the protocol between servers, and `Backlog` below it.
3. `Aof` with its rewrite child, and `Bio` for the threads behind its fsyncs.
4. `Blocking`: clients blocked on lists.
5. `Children`: save points and the two kinds of child.
6. `Sentinel`: votes and failover.
7. `Keyspace`: expiry and eviction, on a master and on a slave.
8. `Scripts` and `ScriptRun`: the script cache; a script while it runs.
9. `Dict`, which implements `DictSpec`; the data types `Zset`, `Sets`,
   `Hashes`, `Lists`, `Strings`, `Hll`; the encodings `Ziplist`, `Intset`,
   `Zipmap`.
10. `Query`, `Replies`, `EventLoop`, `TimeEvents`, `Pubsub`, `Migrate`,
    `Latency`.

Left, in the order of worth:

* Theorems. `Multi`, `Backlog`, `Blocking`, `Aof`, `Sentinel`, `Bio`,
  `Children` and `Replication` are proved (section 5), the last with `Converges`
  for slaves without slaves. Next the chains that keep their shape; the cache of
  `Scripts`; with `StringMatch` in a module apart, the two-sided tables of
  `Pubsub`.
* Models. `SORT`; the databases of both servers in MIGRATE; several masters in
  Sentinel; REPLCONF ACK and `min-slaves-to-write`; an abstract log that
  `Aof` implements, of which a crash keeps a prefix.

A run is spent on a question. Components that do not interact share one, each
by itself: a constant variable `part` says which of them a behaviour is about
(`MCServer`, `MCData`, `MCBackground`). This loses nothing, since the
components of one run share no variable.

## 3. Modules

### Multi, MCMulti, MultiProofs

One action is one command of a client, because the server is single threaded;
EXEC alone is split, into `ExecBegin`, `ExecPropagateMulti` before the first
queued command that is not READONLY, one `ExecStep` for each queued command and
`ExecEnd`. Nothing happens between them but what the call of a queued command
does before its proc changes anything: a key it looks up may be found expired
(`MayDrop`), and its DEL is propagated after the MULTI.

| Code | Model |
|---|---|
| `server.clients`, `c->db`, `c->flags`, `c->mstate` | `clients`, `db`, `flags`, `mstate` |
| `c->watched_keys`, `db->watched_keys` | `watched`, `watched_keys` |
| the key spaces, `server.dirty` | `dict`, `dirty` |
| the early returns of `processCommand` | `Refusals`, `Refuse`, `BadCommand`, over `cond`: the refusing conditions that hold |
| `execCommand` | `ExecAbort`, `ExecBegin`, `ExecPropagateMulti`, `ExecStep`, `ExecEnd`, with its local variables in `exec` |
| `call`, `propagate`, `server.slaveseldb` | `Call`, `Propagated`, `Selected` |
| AOF and replication link | `replica`: the reader that executes what is written |
| `signalModifiedKey`, `touchWatchedKey`, `touchWatchedKeysOnFlush` | `Signalled`, `Flushed`, `TouchedClients` |
| `expireIfNeeded`, `freeMemoryIfNeeded` | `DropKey`, of the keys that a proc looks up (`LookedUp`: MOVE looks in both databases) |
| `rdbSave`, `backgroundSaveDoneHandler` | `"save"` in `DirtyAfter`, `BgsaveDone` |

Abstractions: the data commands are the ways in which a key can change (SET,
DEL, the two flushes, MOVE, expiry); a value is a model value. A data
command's arguments are right, except in `BadCommand`. A key drops (expires or
is evicted) between commands or at a lookup when `Drops` is TRUE. Password checking
is a condition of the server, not of the client.

`touched` and `refused` are history variables: which watched keys changed and
whether a command was refused. The code has no such variables; properties
compare its flags with them.

### Replication, MCReplication, ReplicationProofs, ReplicationConverges

Every server may be a master, a slave or both. A write is a number, a data set
is the sequence of writes that made it, and one write is one unit of the
offsets.

| Code | Model |
|---|---|
| `server.runid`, `master_repl_offset`, `repl_backlog` | `runid`, `mro`, `backlog` (its last units; the ring is in `Backlog`) |
| `server.masterhost`, `repl_state` | `masterhost`, `repl_state` (`"PSYNC"` while blocked in `sendSynchronousCommand`) |
| `server.master`, `server.cached_master` | `master`: one or the other exists, according to `repl_state` |
| `repl_master_runid`, `repl_master_initial_offset` | `full` |
| the socket, and the master's client structure | `conn[slave]`: commands and replies in flight, `replstate`, output buffer, snapshot |
| the RDB child, the RDB file | `child`, `rdbfile` |
| `replicationFeedSlaves` | `Write`, `FedConns`, `FeedBacklog` |
| `syncCommand`, `masterTryPartialResynchronization` | `SyncIgnored`, `SyncRefused`, `SyncPartial`, `SyncDuringBgsave`, `SyncStartsBgsave`, `SyncForkFails` |
| `updateSlavesWaitingBgsave`, `sendBulkToSlave` | `BgsaveDone`, `AfterBgsave`, `Startbgsave`, `SendBulk` |
| `syncWithMaster`, `slaveTryPartialResynchronization` | `ConnectWithMaster`, `SendPing`, `SendPsync`, `ReplyFull`, `ReplyContinue`, `FallBackToSync`, `PsyncTimeout` |
| `readSyncBulkPayload` | `ReadBulk`, `AbortTransfer` |
| `replicationSetMaster`, `replicationUnsetMaster` | the same names |
| `replicationCron` | `ConnectWithMaster`, `LoseMaster`, `DropSlave`, `FreeBacklog` |
| a crash and a start from the RDB file | `Restart` |

Abstractions: the RDB travels in one step; the master notices a closed
connection at once, the slave when it reads; a PING is a write that changes
nothing, so it needs no action of its own; the PONG and the REPLCONF before
PSYNC carry no state. A slave blocked on the reply to PSYNC takes no other
step, as in the code.

### Backlog, BacklogProofs

The ring byte by byte: a byte is its number in the stream, so that a reply
from the ring can be compared with what the slave lacks.
`feedReplicationBacklog` is three actions, `Write`, one `FeedChunk` for each
iteration of its loop and `FeedEnd`, so that its loop invariant is an
invariant of the specification; nothing else happens in between. Bytes written
without a backlog and slaves are numbered but not counted in
`master_repl_offset`, as in the code, which is what the increment in
`createReplicationBacklog` is about. `MCServer` checks it.

### Aof, AofProofs, MCAof

A data set is the sequence of the writes that made it, and a file the commands
that a reader would execute; a command is two units, so that a short write or a
power loss may leave half of one.

| Code | Model |
|---|---|
| the event loop, and where `serverCron` stands | `loop` |
| `server.aof_state`, `aof_fd`, `aof_selected_db` | `aof_state`, `aof_fd` (with `"stale"` for a closed descriptor whose number was kept), `selected_db` |
| the file, what of it is on the disk, `aof_current_size` | `file`, `synced`, `current_size` |
| `aof_buf`, `aof_last_write_status`, `aof_flush_postponed_start`, `aof_last_fsync` | `aof_buf`, `write_ok`, `postponed` (in seconds), `fsync_due` |
| the queue of `REDIS_BIO_AOF_FSYNC` and the fsync in progress | `jobs`, `fsyncing` |
| `aof_child_pid`, `rdb_child_pid`, and the processes | the same names, and `aof_proc`, `rdb_proc`, `orphan` |
| `aof_rewrite_buf_blocks`, what the child saves, `aof_rewrite_scheduled` | `rewrite_buf`, `base`, `rewrite_scheduled` |
| `feedAppendOnlyFile` | `Feed`, in `WriteCommand` and `Transaction` |
| `flushAppendOnlyFile` | `FlushResults`: `Postponed`, `Written`, `Failed`; called by `BeforeSleep`, `CronPostponed`, `CronError`, `Stop` |
| `rewriteAppendOnlyFileBackground`, `backgroundRewriteDoneHandler` | `Fork`, `ForkFails`; `RewriteDone`, `NewFile`, `Cleanup` |
| `serverCron` | `CronRewrite`, `CronChildren` (`Reap` or `CronSaves`), `CronPostponed`, `CronError`, in that order |
| `stopAppendOnly`, `startAppendOnly` | `Stop`, `KillRewriteChild`; `Start`, `StartFails`; called by `ConfigNo`, `ConfigYes`, `Resync`, `RestartAof` |
| `prepareForShutdown`, `loadAppendOnlyFile` | `Shutdown`; `LoadDataFromDisk`, with the reader `Load` |
| `bio.c` | `FsyncStart`, `FsyncEnd`, `FsyncOld` |

Each function of the main thread is one step; children, the fsync thread, the
clock, a kill and a power loss come between any two steps. An fsync covers what was
written when it began. The rewrite child writes one command for the whole data
set, after which the reader is in the last non-empty database; it syncs what
it writes, the parent's differences are not synced unless the policy says so.
A power loss leaves any part of what was not synced. Left out: DEL commands of
expired keys (which are one more way to feed the buffer), the wait of 30 seconds
between log lines, `no-appendfsync-on-rewrite yes` (it gives up
`AckedIsDurable` by design), an fsync that fails. A restart has `appendonly yes`,
whatever CONFIG SET did, and the instances have `aof-load-truncated yes`.
`RestartAof` stands for the ten attempts: the last of them may be the one
that succeeds.

`acked` is a history variable: the writes whose replies the event loop may
have sent, which it does only after `beforeSleep`.

### Blocking, BlockingProofs, MCBlocking

Elements are numbered as they are pushed, so that one that is lost, or given
twice, can be told. One action is one command, one command of an EXEC, or one
step of `handleClientsBlockedOnLists`, during which nothing else happens.

| Code | Model |
|---|---|
| the key space, its lists | `dict` |
| `REDIS_BLOCKED`, `c->bpop`, `db->blocking_keys` | `blocked`, `bpop`, `blocking_keys` |
| `db->ready_keys`, `server.ready_keys` | `db_ready`, `ready_keys` |
| `REDIS_UNBLOCKED`, `server.unblocked_clients` | `unblocked`, `unblocked_clients` |
| `blockForKeys`, `unblockClientWaitingData` | `BlockForKeys`, `Unblocked`, `Unblock` |
| `listSearchKey` and `listDelNode` on a list of clients | `RemoveFirst`: one node, the first |
| `dbAdd`, `signalListAsReady` | `SignalIfAdded`, `Signal` |
| `handleClientsBlockedOnLists`, its local variables | `NextRound`, `NextKey`, `ServeClient`, `KeyServed`; `serving` |
| `serveClientBlockedOnList` | `ServePop`, `ServePush` |
| `execCommand` | `ExecCommand`, the commands, `ExecEnd`; keys are served after it |
| `clientsCronHandleTimeout`, `beforeSleep`, `freeClient` | `Timeout`, `BeforeSleep`, `FreeClient` |
| AOF and replication link | `replica`: the key space of the reader |

The commands are one for each way a list appears, changes or goes: LPUSH,
RPUSH, LPOP, RPOPLPUSH, SET and SORT STORE (`SetKey`), DEL, RENAME and expiry.
A blocking command with data is propagated as the plain one, as in the code. Keys
named twice in a command are named once (`dictAdd` in `blockForKeys`). `taken`
and `arrivals` are history variables: the elements that left the lists, and the
order in which clients blocked.

Handling ends because each client served leaves `blocked` and no client blocks
meanwhile, so that BRPOPLPUSH makes finitely many keys ready.

### Bio, Children, BackgroundProofs, MCBackground

`Bio` has one step for each access to what the two threads share: the main
thread locks, adds a job, signals and unlocks, or locks and reads the counter;
the thread locks, waits (and may wake for nothing), takes the first job without
removing it, executes it without the mutex, and removes it. `executed` and
`created` are history.

`Children` is about `dump.rdb` and `server.dirty`. A data set is the number of
changes that made it.

| Code | Model |
|---|---|
| the data set, `dump.rdb` | `disk` |
| `saveparams`, `dirty`, `dirty_before_bgsave`, `lastsave`, `lastbgsave_try`, `lastbgsave_status` | `save` |
| `rdb_child_pid`, the process, what it saves | `rdb` |
| `aof_child_pid`, `aof_state`, `aof_rewrite_scheduled` | `aof` |
| `updateDictResizePolicy` | `Policy`, `resizes` |
| `rdbSave`, `rdbSaveBackground`, `backgroundSaveDoneHandler` | `RdbSave`, `SaveBackground`, `SaveDone` |
| `rewriteAppendOnlyFileBackground`, `backgroundRewriteDoneHandler` | `Rewrite`, `RewriteDone` |
| `serverCron` | `Cron`; a child ends (`RdbEnds`, `AofEnds`) between any two steps |
| SAVE, BGSAVE, BGREWRITEAOF, CONFIG SET, FLUSHALL, SHUTDOWN | the actions of those names, `ConfigSave`, `StartAppendOnly`, `StopAppendOnly` |
| a slave's SYNC, and its reception of a dump | `SlaveBgsave`, `Resync` |
| a kill and a start | `Crash` |

`Overlaps` names three races whose outcome section 6 reports; they are off in
the run. The file of the AOF is in `Aof`.

### Sentinel, SentinelProofs, MCSentinel

A Redis instance is its address, and a sentinel is the record `st[s]` of what
it knows; `disk` in it is its configuration file, from which `Restart` starts.

| Code | Model |
|---|---|
| `sentinel.current_epoch`, `config_epoch`, `leader`, `leader_epoch`, `failover_epoch`, `failover_state` | fields of `st[s]` |
| `sentinelCheckSubjectivelyDown`, `...ObjectivelyDown` | `CheckSubjectivelyDown`, `CheckObjectivelyDown` |
| `sentinelStartFailoverIfNeeded`, `sentinelStartFailover` | `StartsFailover`, `StartFailover` |
| `sentinelVoteLeader`, `sentinelGetLeader` | `VoteLeader`, `IsLeader`, `OwnVotes` |
| the six states of the failover | `WaitStart`, `SelectSlave`, `SendSlaveOfNoOne`, `WaitPromotion`, `ReconfNextSlave`, `DetectEnd`, composed in `StateMachine` |
| `sentinelHandleRedisInstance` | `HandleMaster`, `HandleSlave`: every call in its order |
| SENTINEL is-master-down-by-addr and its reply | `AskMasterState`, `ReceiveReply`, `ReceiveLateReply` |
| `sentinelProcessHelloMessage` | `ProcessHello`, sent by `SendHello` |
| `sentinelRefreshInstanceInfo` | `InfoFromMaster`, `InfoFromMasterSlave`, `InfoFromSlave` |
| SENTINEL RESET, FAILOVER, REMOVE and MONITOR; `sentinelCheckTiltCondition` | `Reset`, `ForceFailover`, `Remonitor`; `Tilt` |
| `sentinelFlushConfig` | `FlushConfig` |

Wherever a time is compared with a period both outcomes are possible, except
that an instance is found down, disconnected or without a recent INFO only if it
is dead (or slow, where `"slow"` is a fault). A dead one need not be found so at
once: `Gone` are the sets of instances that a sentinel may have lost, and the
selection of a slave and the reconfiguration of the others see one of them, so a
dead slave may be promoted as long as nobody has noticed. A SLAVEOF arrives or
not, and only at a living instance. `votes` and `elected` are history.

### The data: Zset, Sets, Hashes, Lists, Strings, Hll, Ziplist, Intset, Zipmap, Dict and DictSpec, MCData

Each holds, beside the representation, a history variable with the plain value
that the commands mean; an invariant compares them after every command.

| Module | Code | Representation | History |
|---|---|---|---|
| `Zset` | `t_zset.c` | ziplist of pairs, or skip list (forward pointers, spans, backward pointers, tail, level, length) with its dictionary | scores by member |
| `Sets` | `t_set.c` | intset or table, several keys | sets |
| `Hashes` | `t_hash.c` | ziplist of fields and values, or table | mapping |
| `Lists` | `t_list.c`, `adlist.c` | ziplist, or linked nodes with both pointers | sequence |
| `Strings` | `t_string.c`, `object.c`, reply buffers of `networking.c`, `slowlog.c` | objects with reference counts, shared by a key, by pending replies and by the slow log | what each key and each holder should read |
| `Hll` | `hyperloglog.c` | run lengths, or registers; the cached estimate | registers |
| `Ziplist` | `ziplist.c` | block with total size, offset of the tail, count, widths of the length fields | sequence |
| `Intset` | `intset.c` | cells of the narrowest width | set |
| `Zipmap` | `zipmap.c` | block with free bytes | mapping |
| `Dict` | `dict.c`, SCAN of `db.c` | two tables of chains, `rehashidx`, iterators, cursor | `DictSpec` |

The random choices of the code (a level, a random member, a bucket) are
existential. Memory is bytes only where a width, a length or a cell can go
wrong (`Ziplist`, `Intset`, `Zipmap`). `Dict` implements `DictSpec`, a map on
which a rehash step, an iterator or a scan is a stutter: its refinement mapping
(`TheMap`) looks up each key in both tables.

### Keyspace

A master and a slave execute the same commands, the slave `Lag` later and with
its own clock; each server is a record with a value and a deadline for each
key of each database.

| Code | Model |
|---|---|
| `expireIfNeeded`, `propagateExpire`, lookups | `ExpireIfNeeded`, `DropAndTell`, `Lookup` |
| `call`: dirty, propagation, translation of relative times | `Call`, `Done`, `Tell` |
| SET, DEL, RENAME, MOVE, EXPIRE, PERSIST, FLUSHDB, FLUSHALL, reads | `SetCommand`, `DelCommand`, `RenameGeneric`, `MoveCommand`, `ExpireGeneric`, ... |
| scripts, which see one time | `ExecuteScript`, `Eval` |
| `freeMemoryIfNeeded` | `Evict`, `EvictRound`; `MadeRoom` before every command and script |
| the refusals for lack of room, by `processCommand` and inside a script | `ClientCommand`, `Eval`, `DenyOom` |
| `activeExpireCycle` | `ActiveExpireCycle`, with its statics in `cycle` |
| a full resynchronization and a reload, which skip expired keys | `FullResync`, `Reload` |

`strayed` is set by the two commands of section 6 after which the slave
differs; nothing is claimed afterwards.

### Scripts and ScriptRun

`Scripts` follows a digest from EVALSHA through `repl_scriptcache` to slaves
and to the append only file, with snapshots, rewrites, disconnections, partial
resynchronizations and SCRIPT FLUSH; `known` is what a reader of the stream has
learned. `ScriptRun` is one script: the commands that it may call and the
`lua_random_dirty` and `lua_write_dirty` flags, errors inside and outside of
`pcall`, the hook after `lua-time-limit` that lets other clients in, SCRIPT
KILL, and which clients may be freed while their script runs. The conversions
of replies are operators (`RedisToLua`, `LuaToRedis`), compared with a reference on small
nested replies.

### Query and Replies

`Query` reads a conversation in pieces of every size and parses it with the
state the client keeps: `querybuf`, `reqtype`, `multibulklen`, `bulklen`, the
big argument whose buffer becomes the argument. The commands processed must be
a prefix of those meant, whatever the pieces. `Replies` holds the buffer, the
list of chunks, the node whose length is set later (`AddDeferred`,
`SetDeferred`), partial writes (`SendReply`), output buffer limits, and the
three ways a client is closed.

### EventLoop and TimeEvents

`EventLoop` has `eventLoop->events`, epoll's own copy, the batch being
dispatched and a stack of `aeProcessEvents`, since a handler may run the loop
inside the loop. A handler's `Effects` are any creation, deletion, closing,
opening or resizing. A socket has an identity of its own, so that a reused
descriptor can be told from its former owner. `TimeEvents` is the list of
timers and the clock. The time to sleep is computed from the nearest timer in
seconds and parts of a second, as the code does (`Timeout`); the list is walked
one event at a time, the clock is read again at each (`TimeSkip`, `TimeCall`),
and after a call the walk starts at the head again. The clock goes on in the
sleep, in a round and in a call, and may be set back at any time.

### Pubsub, Migrate, Latency

`Pubsub` has the tables of the server and of each client, the commands of both
sides, delivery with glob patterns (`StringMatch`, function by function as
`stringmatchlen`), and keyspace notifications with their flags. `Migrate` has
both ends of a MIGRATE: the socket cache, each command written or not, executed
or not, each reply lost or late, the retry, and the payload of DUMP. `Latency`
is the ring of samples of one event.

## 4. Runs

| Run | Instance | Shows |
|---|---|---|
| `multi_watch` | 2 clients, 2 databases, 1 key, queue of 1 | the watch tables agree; a changed watched key or a refused command stops EXEC; no flag outlives its transaction |
| `multi_stream` | 1 client, 2 databases, queue of 2, expiry | the reader of the stream holds the data set, transaction by transaction |
| `multi_save` | SAVE inside MULTI | **violated**: MULTI propagated without EXEC |
| `replication` | three setups: a pair, two slaves, a chain | nothing lost or repeated; offsets agree; nobody waits for nothing; all in sync at the end |
| `repl_chain_resync` | chain of 3, two lost links | **violated**: partial resynchronization over another data set |
| `aof` | five scenarios of 2 or 3 writes and up to 2 faults, 2 databases | file and buffer, and the file a rewrite would leave, make the data set; acknowledged writes survive a power loss |
| `background` | AOF with failing children, forks and renames; a queue of `bio.c`; the children | what is buffered gets written, a waiting AOF is switched on; jobs are done once; `dirty` never claims too much, and save points save |
| `blocking` | 3 clients, 2 keys, 3 elements, transactions of 2 commands | clients are served in order, each element goes to one of them, nobody waits for a list that is there; the reader of the propagated commands holds the same lists |
| `sentinel` | five scenarios of 1 to 3 sentinels, 1 to 3 instances | no second vote and no second leader in an epoch; the promoted slave is there while it is needed; configurations of one epoch agree, the newest spreads |
| `server` | eleven components, each by itself | the ring of the backlog, the slave's key space, digests, scripts, subscriptions, MIGRATE, latency, file and time events, requests and replies |
| `data` | ten representations, each by itself | representation and answers are those of the plain value; `Dict` implements a map |
| `dict_scan` | a table that shrinks to a quarter during a SCAN | **violated**: elements present all the time are not returned |

Bounds, and why they are enough:

* *Multi.* Two clients are one that watches and one that changes; two
  databases are needed for MOVE, FLUSHDB and the SELECT in the stream. The
  hooks act on one key at a time, so one key in each database separates
  "watched" from "not watched". A queue of one or two commands has a command
  before, and one after, any other step of EXEC. `MaxDirty` stops writes at a
  value of `server.dirty`; only its growth during an EXEC matters.
* *Replication.* `Setups` says what occurs together. `Pair`: two servers, a
  ring of 2 against 3 writes, so that a slave is inside the window, at its edges
  and outside it; lost links, failed saves and forks and restarts, up to 3 of
  them. `Overlap`: two slaves of one master, the smallest shared BGSAVE, with
  BGSAVEs that overlap; no established link is lost, since the offset announced
  in that situation (section 6) would be asked for by a later PSYNC. `Chain`:
  the smallest chain, a promotion in its middle and a move of its end; one lost
  link, because a second one meets `repl_chain_resync`. `MaxFaults` bounds all
  disturbances together, `MaxOffset` how often a backlog is freed and created.
* *Aof.* Two writes are one that a rewrite saves and one fed during it; a third
  one tells apart the database the saved data ends in from the one last
  selected. Two faults let a failed write be followed by a crash, or a failed
  fork by a failed rename. `Scenarios` says which events and faults occur
  together in a behaviour, because all at once are too many states: rewrites
  with the AOF switched off and on; failing writes; a stop beside a BGSAVE;
  rewrites with transactions, BGSAVEs and clean exits. Two mixtures are left
  out because they meet a disagreement of section 6: failing writes with
  transactions, and failing writes with a stop. `MaxPending` bounds how many
  fsyncs may wait when a rewrite is asked for; it never holds up the cron. The
  liveness part of `background` has one database and one write.
* *Bio and Children.* Three jobs are one worked on, one waiting and one being
  added. Two changes are the least save point that one change does not reach.
  Two lives are one crash.
* *Blocking.* Two clients wait, in either order, on one or both keys, while the
  third pushes; two keys are a source and a destination, and a cycle of
  two. Three elements are enough to serve two clients at once and to have
  one left. `MaxUnblocked` bounds the clients unblocked in one iteration of the
  event loop. `Stored` and `Pipelining` keep out two disagreements of section 6.
* *Sentinel.* Two sentinels are the smallest disagreement, three the smallest
  majority that need not be all. Two epochs are an election and one that
  follows a failed or a finished failover; no failover starts at `maxEpoch`.
  With two slaves there is one to promote and one to reconfigure. With
  `parallel-syncs` 2 (`Commands`) a slave that is late is sent SLAVEOF again, with 1
  it waits. `Failover` has one fault, `Commands` two; in `Discovery` nobody dies and
  all are slow, which looks the same to a sentinel until they answer. `Epochs`,
  three sentinels that run failovers at two epochs, is kept out: see section 6.
* *Server.* The backlog has rings of 2 and 3 bytes; writes are shorter than the
  ring, as long, and more than twice as long, and 6 bytes go round it three
  times. Two databases and two names have both ends of RENAME and MOVE; a clock of
  three instants has before, at and after a deadline. The script cache holds
  one of two scripts, so that it is always about to overflow. In `Query` the
  length from which an argument is read apart is 8 and a read is at most 4
  bytes, so that every request is cut at each of its bytes. In `Replies` the
  buffer is 2 bytes and a reply up to 3. In `TimeEvents` a second has two parts
  (`PerSec`), the least in which its seconds and its parts differ; periods are
  shorter than a second and as long, up to three events are created, and the clock
  goes on by at most `MaxRan` in one round, as long as the shortest period: the
  least for which an event falls due a second time.
* *Data.* The limits at which an encoding changes are 1 to 3, so that every
  value set crosses them in both directions that exist; one of the members is
  too long for the compact form. In `Ziplist` the lengths 247 and 260 make
  entries of just under and over 254 bytes, with four entries for a cascade.
  Skip list nodes have up to 3 levels; a table grows from 1 to 8 buckets.

Deadlock is checked in `Multi`, `Aof` (run `aof`) and `Blocking`. Elsewhere a
system comes to rest when its bounded writes, faults, epochs, jobs or
conversations are used up; that nothing is then left undone is what the
liveness properties say of `replication`, `background` and `sentinel`.

### Fairness

`EventuallyInSync` assumes weak fairness of each server's slave side
(`SlaveStep`), of the master's handling of SYNC and PSYNC, of sending the RDB
and of the end of a child. The event loop serves every readable or writable
descriptor, `replicationCron` runs each second and starts the next attempt, and
a child ends. Nothing is assumed of clients, of faults or of timeouts, which
are bounded in number.

`BufferWritten` and `SwitchedOn` assume that `BeforeSleep` is taken whenever it is
possible again and again (strong fairness: between two iterations the cron may
be in progress), that the cron, which runs `hz` times a second, goes on, that
time passes and that a child ends. An fsync need not end.

`BackgroundDone` assumes that the scheduler runs both threads of `bio.c` and
grants the mutex in the end, that the cron goes on, that children end, and that
a fork which is tried again and again succeeds in the end, as does a child.
Conditions of the three parts are merged into one where
they are of the same form: `part` never changes, so each condition is about one
part of a behaviour.

`ConfigSpreads` assumes that a sentinel goes on sending hellos
(`sentinelSendPeriodicCommands`, every two seconds) and nothing of failovers.

## 5. Proofs

`MultiProofs` proves, for any clients, databases, keys, values, commands and
refusing conditions:

* `TypeCorrect`: `TypeOK` is inductive.
* `WatchTablesCorrect`: `WatchInv`, the conjunction of `TypeOK`,
  `WatchTablesAgree` and two facts about slots: a free slot has no flag and no
  history (`FreeSlotsClean`), and an EXEC is run by a connected client
  (`ExecConnected`). Without them `Connect` could take over what a freed client
  left behind, and `ExecEnd` could act for nobody.
* `WatchSoundCorrect`: a watched key that changed has flagged its client, for
  every instance without MOVE and without expiry. The assumption is needed:
  MOVE is a counterexample (section 6), and expiry does not touch watchers by
  design (`touchWatchedKey` is not called by `expireIfNeeded`).
* `ReplicaCorrect`: the reader is in step, for every instance without SAVE
  inside MULTI, expiry included. `multi_save` shows why SAVE is excluded. The
  invariant adds `ExecDirty`: during an EXEC `server.dirty` is never below its
  value at the start, and outside one nothing says that MULTI was propagated.
* `DirtyHasCauseCorrect`: DIRTY_CAS never outlives its transaction, without any
  assumption.
* `ExecOnlyIfCleanCorrect`: EXEC runs only what was not refused and whose
  watched keys did not change, without MOVE and expiry, as above, and without
  READONLY and LOADING, which refuse a command and do not flag the transaction
  (section 6). Its invariant, `RefusedFlagged`, says that a refusal is still
  flagged when EXEC comes, which is true because nothing but DISCARD and EXEC
  clears the flag.

`BacklogProofs` proves `TypeCorrect`, `RingCorrect` and `PsyncCorrect` for any
number of slaves, sizes and lengths, from one inductive invariant,

    IndInv == TypeOK /\ RingHoldsHistory /\ StreamContiguous
              /\ OffsetsExact /\ PositionsExact /\ GivenOnlyCopied

`OffsetsExact` relates the counters of the ring to the stream, also in the
middle of a copy. `PositionsExact` says that a slave whose cached
position the window would accept misses exactly the bytes that the offsets
count; it is the fact behind the increment at creation, and without it an
accepted PSYNC proves nothing. `GivenOnlyCopied`
says that a slave is never given a byte not yet copied. The arithmetic of the
reply (`% size`, in two pieces) is in the lemmas `ModSmall` and `ReplyExact`.

`BlockingProofs` proves, for any clients, keys, values and number of elements,
from one inductive invariant `IndInv`,

* `Typing`: `TypeOK`, which says also that a freed client is in no list;
* `NothingLost` and `ReplicaKept`: `ElementsConserved` and `ReplicaInStep`,
  without any assumption;
* `ServedInOrder`: `QueuesInOrder`, for clients that wait for their replies
  (`~Pipelining`; section 6 has the counterexample with pipelining);
* `NobodyForgotten`: `NobodyWaitsInVain`, if SET and SORT STORE leave no lists
  (`Stored \subseteq {"string"}`; section 6 has the other case).

The parts of `IndInv` that no run states by themselves say what holds *between*
the steps of `handleClientsBlockedOnLists`. `ServesOneList`: the number of
clients the loop still serves is the length of the list of that key, which
nothing else changes meanwhile. `ReplicaFollows`: the list being served may be
empty and not yet deleted, the reader has deleted it. `ListsSignalled`: a list
with waiting clients is being served or its key is ready; from it
`NobodyWaitsInVain` follows when nothing is ready. `UnblockedFound` and
`OneState` are what `freeClient` needs to leave nobody behind.
`QueuesInOrder` is inductive only with the order in *every* key
(`ListsInOrder` compares each list with the order of arrival), since a client
that blocked for two keys leaves both when one serves it.

`AofProofs` proves, for any databases, policies, scenarios and bounds,

* `TypeCorrect`: `TypeOK`, if no write fails in a scenario that switches the AOF
  off (`NothingLeftOver`): the buffer that `stopAppendOnly` could not write is
  kept, and `aof_current_size` is then not the size of the file (section 6);
* `FileAddsUpCorrect` and `RewriteAddsUpCorrect`, if moreover a file is not cut
  in a scenario with transactions, or `aof-load-truncated` is off
  (`NeverCutInMulti`): else `loadAppendOnlyFile` keeps a MULTI without its EXEC
  (section 6);
* `AckedIsDurableCorrect`: `AckedIsDurable`, if moreover
  `no-appendfsync-on-rewrite` is off, as the option is there to give it up.

All the scenarios of run `aof` satisfy the three, and so does any mixture of
their events that avoids the two situations. The invariant is
`Types /\ Modes /\ FileSums /\ RewriteSums`, and `Durable` for the last theorem.
`Modes` says which values of `aof_state`, the descriptor, the buffer and the
child go together; in particular only an AOF that is on has a buffer, and
`aof_current_size` is then the length of the file, without which an `ftruncate`
would lose commands. `FileSums` and `RewriteSums` are stronger than the
properties in one respect: the reader ends outside MULTI *and* in the database
that `feedAppendOnlyFile` believes is selected (`Makes`), which is what lets the
next command go without SELECT, and why the selection is forgotten at each fork.
`Durable` asks, while the server is down, that whatever the power loss leaves
holds the acknowledged writes, not only the shortest such file.

`Load` is a recursive function over the file, so facts about it need induction.
No induction theorem of the library can be used; `Induction` is derived from the
well-ordering of the naturals for a *set* of numbers, and `SequenceInduction`
for a set of sequences. From it follow that `Load` reads one unit after another
(`LoadAppend`), that its fields keep their types and that what is valid is the
file without a half command (`ReadShape`), and that nothing a reader has is lost
by reading more (`Grows`). Two laws carry the steps: `Reads`, what a reader makes
of a file followed by a command, and `RewrittenMakes`, what it makes of a
rewritten file.

`SentinelProofs` proves, for any sentinels, instances and scenarios,

* `Typing` and `PromotedSlave`: `TypeOK` and `PromotedIsValid`;
* `OneVote`: `VoteOnce`, as long as `"monitor"` is not a fault of the scenario:
  REMOVE and MONITOR forget the epoch of the vote (section 6);
* `OneLeader`: `OneLeaderPerEpoch`, if moreover `Majorities` holds: the quorum is
  more than half of the sentinels, or all the sentinels know each other and are
  never reset. `sentinelGetLeader` asks for the majority of the sentinels that it
  *knows* (`sentinel.c:3243`) and for the quorum; with fewer known, and a smaller
  quorum, two leaders of one epoch need not have a voter in common.

`IndInv` has five parts. `Machines`: each sentinel by itself is sound, and in
particular its last vote is in its configuration file with an epoch as new
(`OnDisk`); without it `Restart` would be a way to vote twice. `Witnessed`: every
vote a sentinel has heard of, and every answer on its way, however late, was
cast. `Ballots`: the epoch of a vote is never above the voter's `leader_epoch`,
and `sentinelVoteLeader` only raises it. `Elections`: behind each election is a
majority that voted so. Two majorities meet in a voter, who voted
once (`FS_MajoritiesIntersect`). That a leader is counted in the current epoch and
not in the one it asked for (section 6) is why `Elections`, like
`OneLeaderPerEpoch`, is about those for which the two are the same.

`ReplicationProofs` proves, for any topology (chains and cycles of servers
included), any commands, faults and bounds,

* `TypeCorrect`: `TypeOK`;
* `SlavesServedCorrect`: `SlavesServed`, if no fork fails while slaves wait for the
  next BGSAVE (`~(overlapBgsave /\ "fork" \in faults)`; section 6 has what happens
  otherwise);
* `OffsetsAgreeCorrect`: `OffsetsAgree`, which is itself about instances where no
  full resynchronization is asked for during a BGSAVE.

The invariants are in layers. `Type` adds to the types that only writes travel as
units. `Connections` is, for each slave, `Control` (which states of the slave go
with which connections), `Ordered` (a bulk comes before every unit, and neither is
sent before the slave is ONLINE), `Served`, `Waits` and `Once`. `Offsets` follows
the position of a slave through a resynchronization: `Asked` while it is blocked
on the reply to PSYNC, `Transfer` while the bulk is on its way, `Connected` after.
Each says that the run id is the master's and that the offset, with the units
registered or in flight behind it, is the master's (`Counted`, `Reads`). A full
resynchronization counts the bulk line as none, and announces the offset the
master will have once the backlog is created (`FullOffset`), which is why `Served`
is needed: with slaves there is a backlog, so an offset that is fed always counts.
A SYNC after a failed PSYNC leaves the position unknown (`off = -1`).

`ReplicationConverges` proves `ConvergesCorrect`, on these layers: `Converges`, for
any number of servers, any faults and any bounds, in the setups of `OneHop`. These
are those where nobody's master is or becomes a slave, and where no slave asks for
a full resynchronization during a BGSAVE. Neither half can be dropped: a slave of
a slave, or a master that was one, may resume from an offset that has another
meaning by then (run `repl_chain_resync`, and `replicationSetMaster` in section 6),
and the offset announced during a BGSAVE may not be that of the snapshot
(`masterTryPartialResynchronization` in section 6): TLC finds `Converges` violated
in `Overlap` with two writes and one lost link. Within them slaves still
move from one master to another and back, become masters nobody follows, lose
their link in every state, and restart from an old RDB file.

`Top` is about the masters: the backlog is the end of the data set, whatever was
trimmed or freed. `At(d, r, o)` says what a position means: if the run `r` goes on
at its server, `d` is the beginning of the master's data set, and what it lacks
is what the backlog holds from `o` on, if it reaches that far. Every
step keeps every such statement (`Kept`): a write extends the data set and the
backlog together, a freed backlog promises nothing, a restart ends the run.
`Resumes` ties these positions to the program: a slave that is not connected
stands where its `cached_master` says, and one that will still read lines of a
lost connection will stand where its offset will be (`Reach`). `Pending` says that
a PSYNC under way asks for such a position, even if the slave has meanwhile given
up and sent SYNC; `Expected`, that what it reads first is the answer to it. So
what `addReplyReplicationBacklog` sends completes the data set, which makes
`Given`, the property itself, inductive.

`BackgroundProofs` proves the two parts of `MCBackground` that are about
threads and processes; its run checks them inside `BackgroundDone`.

* `JobsOnce`: `BioSound`, for any number of jobs. What it rests on: the list is
  the jobs created and not deleted, in their order (`Queued`, `Deleted`), the
  mutex is held by one of the two (`Exclusion`), and a job cannot be added and
  its signal missed, since the thread looks at the list with the mutex it waits
  with (`Awake`). A job is executed without the mutex while its node stays in the
  list: that is why `listDelNode` must find it wherever it is, and it is the first.
* `ChildrenKept`: `ChildrenSound`, for any save point, any number of changes,
  commands and starts. `Counted` says what `dirty` counts; the fact that makes it
  inductive is `ChildCounted`: while a child saves, what `dirty` has gained since
  the fork is at least what the child's data set lacks, so that subtracting
  `dirty_before_bgsave` when it ends never forgets a change. `Waited` ties each
  pid to its process. The hypothesis `Overlaps = {}` leaves out the three races of
  section 6, each of which breaks one of these.

Only model-checked: all liveness (the prover has neither fairness nor ENABLED),
the refinement `DictIsMap`, `Converges` of `Replication` where slaves have slaves,
`ConfigEpochsAgree` of `Sentinel`, which holds for the instances checked and not
for all (section 6). Of the components in `MCServer` and `MCData` only the
backlog is proved: most of them are built on recursive operators (walking a
chain, parsing bytes, cascading an update), which are out of the prover's reach.

## 6. Disagreements between code and comments

With a run: the three "violated" rows above; PROJECT.json quotes the comment that
each contradicts.

Met while modelling, without a run. Where a constant or a scenario is named, it is
what keeps the situation out of the runs, and with it TLC shows the violation.

Transactions, replication, append only file, blocking lists:

* `moveCommand` (`db.c:742`) changes a key in two databases and calls
  `signalModifiedKey` for neither, although `db.c:230-231` says that it is called
  every time a key is modified: with `"move"` in `Ops` of `multi_watch`,
  `WatchSound` is violated.
* `masterTryPartialResynchronization` announces the current offset with
  +FULLRESYNC (`replication.c:396`) also to a slave that will wait for the
  next BGSAVE or share one: writes in between are in the snapshot and not in
  the offset, and a later PSYNC asks for them again. With
  `OverlapBgsave = TRUE` and three servers `OffsetsAgree` is violated.
* `updateSlavesWaitingBgsave` moves the waiting slaves to WAIT_BGSAVE_END
  before it forks (`replication.c:643-645`) and, when the fork fails, frees those
  in WAIT_BGSAVE_START (`replication.c:684`): none. With fault `"fork"` and
  overlapping BGSAVEs `EventuallyInSync` is violated.
* `replicationSetMaster` resets `master_repl_offset` and keeps the run id
  (`replication.c:1250`): a server made a slave and a master again accepts a
  position of its former history. With SLAVEOF of the master to a slave of its
  and back, `Converges` is violated.
* `loadAppendOnlyFile` with `aof-load-truncated` accepts a file cut inside
  MULTI and keeps it up to its last whole command, although
  `aof.c:655` says "If the client is in the middle of a MULTI/EXEC, log error
  and quit": the MULTI stays in the file, the next load runs what was appended
  since inside the transaction. In the second scenario of `aof`, with
  `"multi"`, `FileAddsUp` is violated.
* `prepareForShutdown` syncs the file and exits without `flushAppendOnlyFile`:
  with everysec, a write postponed because an fsync is running is acknowledged
  and lost by a clean exit, although `redis.c:2169-2170` says that the file
  "contains the full dataset anyway".
* `stopAppendOnly` kills the rewrite child and calls `wait3`, which returns for
  any child (`aof.c:173-180`): if a BGSAVE has just ended its exit is taken
  there, `serverCron` never sees it, `rdb_child_pid` stays set and no BGSAVE can
  start again. Three events suffice: a BGSAVE, a rewrite, and CONFIG SET
  appendonly no.
* `setKey` over a key that exists calls `dbOverwrite`, which does not signal the
  key (`db.c:104-109`): SORT STORE replaces a string, set by another client after
  some client blocked for the key, by a list, and the blocked client is not
  served. With `Stored = {"string", "list"}`, `NobodyWaitsInVain` is violated.
* A client that sends a second BLPOP without waiting for the reply to the first
  may be unblocked, block and be unblocked again in one iteration of the event
  loop: it is twice in `server.unblocked_clients`, and `freeClient` removes one
  entry (`networking.c:708-714`). With `Pipelining = TRUE`, `UnblockedOnce` is
  violated (the other properties hold).
* The background rewrite empties a buffer whose last write failed: then
  `flushAppendOnlyFile` returns early on an empty buffer (`aof.c:237`) and
  `aof_last_write_status`, which only a successful write sets back, stays an
  error (`aof.c:1276`). Writes are refused, so nothing fills the buffer again.
  Scenario `FailingWrite` of `MCAof`.
* `stopAppendOnly` flushes once; if that write fails the buffer is kept, and
  what is left of it is appended to the next file. If BGREWRITEAOF replaces the
  file while the AOF is off, `aof_current_size` keeps the size of the old one
  (`aof.c:1271` sets it only with a descriptor): once the AOF is on again, a
  short write of the buffer makes `ftruncate` (`aof.c:313`) cut the new file to
  that size. With `"config"`, `"bgrewrite"`, `"write"` and two faults,
  `TypeOK` of `Aof` is violated.
* `processCommand` answers READONLY (`redis.c:2072-2078`) and LOADING
  (`redis.c:2104-2107`) without `flagTransaction`, so EXEC then runs the rest of
  a transaction one of whose commands was refused, although `multi.c:79-80` says
  it "should be called every time there is an error while queueing a command".
  `multi_watch` has the condition `oom`, which does flag; with `readonly` or
  `loading` in `Conditions`, `ExecOnlyIfClean` is violated.
* `execCommand` repeats none of the checks of `processCommand`: a write queued
  before SLAVEOF changes the data set of a read only slave.
* After a fallback to SYNC the master is cached with an initial offset of -1 on
  disconnection, under the run id of an earlier attempt
  (`replication.c:935-941`, `replicationCacheMaster`), and the next PSYNC asks
  from there.
* `readSyncBulkPayload` retries `startAppendOnly` with `while (retry--)` and
  takes the exit path when the last attempt succeeded (`replication.c:842-849`):
  `RestartAof`.

RDB and children (`Overlaps` of `Children`):

* `"stop"`: the wait of `stopAppendOnly` above leaves `rdb_child_pid` set.
* `"resync"`: a slave receives a full dump while a BGSAVE child of its own
  runs (`replication.c:803-854` does not kill it): the child then renames its
  older data over the dump received, and `dirty`, "Changes to DB from the last
  save" (`redis.h:695`), says that nothing is unsaved.
* `"orphan"`: the child of a server that crashed goes on and may replace a dump
  that the next life has saved.
* `stopAppendOnly` kills a child without `updateDictResizePolicy`: tables are
  not resized until the next child.
* A BGSAVE that failed when `dirty` is below every save point leaves writes
  refused (MISCONF) until somebody saves: no write can raise `dirty`.
* A rewrite that fails again and again while the AOF waits for it is restarted
  (`redis.c:1079`) before the save points are looked at (`redis.c:1107`).
* DEBUG RELOAD during a BGSAVE makes `dirty` negative when the child ends;
  FLUSHALL keeps it in an `int` (`db.c:267`); a SHUTDOWN that fails has already
  killed the children.

Key space (`strayed`):

* EXPIRE with a time in the past, inside a script: the master deletes the key,
  and of the DEL it makes of the command (`db.c:876-891`) nothing is
  propagated, since the script is. A slave that runs the script sets the
  deadline and waits for a DEL that never comes.
* PERSIST does not look whether the key has expired (`db.c:946-953`), and a
  full resynchronization skips an expired key (`rdb.c:617`): the slave has no
  key to persist, the master keeps its own.
* RANDOMKEY on a slave whose keys have all expired does not return
  (`db.c:139-155`): it deletes nothing and tries again.
* Eviction runs on a slave also, which then lacks what its master has.

Scripts:

* A script killed inside a `pcall` of its own goes on and may write, although
  the kill was granted because it had not (`scripting.c:523-527`).
* The caller of a script that timed out is not read any more, but its earlier
  replies are still written, and a failing write frees it while its script runs
  (`scripting.c:520`, `scripting.c:994`).

Sentinel:

* When the reconfiguration of the slaves times out, SLAVEOF is sent to all of
  them that are not done, the promoted one included: it is told to replicate
  from itself (`sentinel.c:3655`; `sentinel.c:3643-3645` speak of the slaves still
  not reconfigured to the new master).
* `sentinelGetLeader` counts the votes of `sentinel.current_epoch`
  (`sentinel.c:3249`), not those of the epoch it is given, although
  `sentinel.c:3226-3228` says "for the specified epoch".
* Three sentinels that run failovers at two epochs can hold different addresses
  under one configuration epoch: `Epochs` of `MCSentinel` violates
  `ConfigEpochsAgree`.
* A retried script job does not decrement `running_scripts`; the known-slave
  lines written during a failover name the promoted slave and omit the old master
  (`sentinel.c:1539-1548`); SENTINEL REMOVE followed by MONITOR forgets
  `leader_epoch` and with it the vote; a failover whose promoted slave is down
  waits for it.
* The timeout of RECONF_SENT does nothing while `parallel-syncs` slaves are in
  progress. When it does, "consider it reconfigured even if it is not"
  (`sentinel.c:3696-3697`), the handler goes on, sends SLAVEOF again and sets
  RECONF_SENT beside RECONF_DONE (`sentinel.c:3704-3723`): the slave still takes a
  place of `parallel-syncs`.

Data types and encodings:

* The test for an empty range by name compares the texts of its ends
  (`t_zset.c:568`, `t_zset.c:845`), and those of `-` and `+` are "minstring" and
  "maxstring": the range from `-` to below a member with that text is empty.
* An insertion before an entry whose length field shrinks by four bytes, of an
  entry shorter than that, resizes the block to less than it still holds
  before it moves the rest (`ziplist.c:616-620`). `clipped` marks the
  block; it takes a width that an earlier step left larger than needed
  (`ziplist.c:505`), and the stress test at `ziplist.c:1503-1518` can
  read what is lost.
* HINCRBY and HINCRBYFLOAT add a long field to a ziplist without
  `hashTypeTryConversion`.
* SINTER answers at the first missing key, before the types of those after it
  are checked.

Client I/O and event loop:

* A line ended by LF alone loses a byte of the next request in the same read
  (`networking.c:906`, against the comment at `networking.c:905`).
* A client that is blocked and has sent more than 64 KB is told "too big bulk
  count string" (`networking.c:990`).
* A protocol error on the link to the master leaves a client that is to be
  closed after a reply it never gets.
* The soft limit is not about continuous excess (`networking.c:1569-1570`):
  the time is reset only when something is added below the limit.
* A chunk that becomes empty is deleted without subtracting its memory
  (`networking.c:801-803`).
* `aeProcessEvents` keeps a pointer into the table (`ae.c:402`) and uses it
  after a handler (`ae.c:414`): CONFIG SET maxclients in a read handler may move
  the table. `torn` marks it.
* When the nearest time event is late, `aeProcessEvents` sets the seconds to 0 and
  keeps the part of a second (`ae.c:378-386`): the poller may sleep almost a second
  more, although `ae.c:359-362` says it is called "in order to sleep until the next
  time event is ready to fire". `TimersSound` states the bound that holds. A clock
  that is set back is noticed by its whole seconds only (`ae.c:285`).

MIGRATE and latency:

* An error of SELECT does not keep RESTORE from running, in database 0.
* A connect that times out does not close the socket (`migrate.c:161-163`).
* After a timeout the RESTORE may still arrive: the key is on both servers.
* The relative TTL of RESTORE is written to the AOF and to slaves as it is, so
  a later reader gives the key a longer life.
* The maximum of an event is not raised by a larger sample in the same second
  (`latency.c:89-93` before `latency.c:97`; `latency.h:55` calls it "Max latency
  observed").

## 7. Not modelled

* `Replication`: REPLCONF ACK and `min-slaves-to-write`, MONITOR, SELECT in the
  stream of a slave, the refusal of SYNC while replies are pending.
* `Aof`: the list of its section. `Children`, and all that saves: the format of
  the dump, which is an encoding of bytes.
* `Blocking`: several databases, scripts (served like EXEC), and clients that
  are blocked while the server becomes a slave or loads a data set.
* `Multi`: MONITOR, replies, keyspace notifications (in `Pubsub`).
* `Sentinel`: several masters, which share only the current epoch; the two links of
  an instance and their reconnection, of which `Gone` is what remains; periods as times; notification scripts.
* `Keyspace`: idle times and the choice of samples, the average TTL, OBJECT.
* `Query`, `Replies`: quoting in inline requests, the idle timeout, CLIENT LIST
  and KILL, the sending of the dump to slaves.
* `EventLoop`: the pollers other than epoll.
* `ScriptRun`: the Lua library, its sandbox, the cache of objects.
* `Strings`, `Hll`: fractions (INCRBYFLOAT), the estimate of PFCOUNT from its
  registers, the threshold and the length of the slow log.
* `Migrate`: the databases of the two servers but for the one used, the format
  of a value.
* Without a module: SORT, a sequential command over patterns of names; the text
  of the configuration; INFO, start-up and signals; support libraries and
  third-party code; the tools, which are other programs.
