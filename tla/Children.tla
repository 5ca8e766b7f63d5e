------------------------------ MODULE Children -----------------------------
(***************************************************************************)
(* Snapshots on disk and the two children that write files (rdb.c, aof.c,  *)
(* serverCron): when dump.rdb is written, by whom, and what server.dirty   *)
(* says of it. A child ends between any two steps of the main thread; who  *)
(* called wait3 learns of it.                                              *)
(*                                                                         *)
(* A data set is the number of changes that made it, counted from the last *)
(* start; what the append only file holds is in Aof.                       *)
(***************************************************************************)
EXTENDS Integers, FiniteSets

CONSTANTS MinChanges, Seconds,  \* "save <seconds> <changes>"
          RetryDelay,           \* REDIS_BGSAVE_RETRY_DELAY
          MaxChanges, MaxAsked, MaxLives,   \* bounds: changes, commands of the user, starts
          Overlaps              \* what may happen besides: "stop", "resync", "orphan" (README, section 6)

VARIABLES disk,    \* [data, dump, life]: the data set and dump.rdb, each [life, n]
          save,    \* [on, dirty, before, age, tried, ok]: saveparamslen > 0, server.dirty,
                   \* dirty_before_bgsave, seconds since lastsave and lastbgsave_try, lastbgsave_status
          rdb,     \* [pid, proc, what]: whether rdb_child_pid is set, the process, what it saves
          aof,     \* [pid, proc, state, scheduled]: aof_child_pid, aof_state, aof_rewrite_scheduled
          resizes, \* dict_can_resize
          asked    \* commands so far

childvars == <<disk, save, rdb, aof, resizes, asked>>

Older(age, limit) == IF age > limit THEN age ELSE age + 1
Zombie == {"ok", "err", "sig"}
NoRdb == [pid |-> FALSE, proc |-> "none", what |-> [life |-> 1, n |-> 0]]
NoAof == [pid |-> FALSE, proc |-> "none", state |-> "OFF", scheduled |-> FALSE]

\* What a function of the main thread works on.
Server == [disk |-> disk, save |-> save, rdb |-> rdb, aof |-> aof, resizes |-> resizes]
Becomes(w) == disk' = w.disk /\ save' = w.save /\ rdb' = w.rdb /\ aof' = w.aof /\ resizes' = w.resizes

Changed(w, counted) == [w EXCEPT !.disk.data.n = @ + 1, !.save.dirty = @ + counted]

\* updateDictResizePolicy.
Policy(w) == [w EXCEPT !.resizes = ~w.rdb.pid /\ ~w.aof.pid]

\* rdbSave in the main thread.
RdbSave(w, ok) ==
  IF ok THEN [w EXCEPT !.disk.dump = w.disk.data, !.save.dirty = 0, !.save.age = 0, !.save.ok = TRUE] ELSE w

\* rdbSaveBackground.
SaveBackground(w, forks) ==
  LET t == [w EXCEPT !.save.before = w.save.dirty, !.save.tried = 0]
  IN  IF forks THEN Policy([t EXCEPT !.rdb = [pid |-> TRUE, proc |-> "run", what |-> w.disk.data]])
      ELSE [t EXCEPT !.save.ok = FALSE]

\* rewriteAppendOnlyFileBackground.
Rewrite(w, forks) ==
  IF w.aof.pid \/ ~forks THEN w
  ELSE Policy([w EXCEPT !.aof.pid = TRUE, !.aof.proc = "run", !.aof.scheduled = FALSE])

\* kill with SIGUSR1: a process that has ended is not changed.
Killed(proc) == IF proc = "run" THEN "sig" ELSE proc

\* backgroundSaveDoneHandler; a SIGUSR1 is the server's own and is no error.
SaveDone(w) ==
  LET e == [w EXCEPT !.rdb = NoRdb]
  IN CASE w.rdb.proc = "ok"  -> [e EXCEPT !.save.dirty = @ - w.save.before, !.save.age = 0, !.save.ok = TRUE]
       [] w.rdb.proc = "err" -> [e EXCEPT !.save.ok = FALSE]
       [] OTHER -> e

\* backgroundRewriteDoneHandler.
RewriteDone(w) ==
  LET on == w.aof.proc = "ok" /\ w.aof.state = "WAIT"
  IN [w EXCEPT !.aof.pid = FALSE, !.aof.proc = "none", !.aof.state = IF on THEN "ON" ELSE @,
               !.aof.scheduled = @ \/ (w.aof.state = "WAIT" /\ ~on)]

----------------------------------------------------------------------------
(* Commands.                                                               *)

Ask == asked < MaxAsked /\ asked' = asked + 1

\* processCommand refuses writes after a save that failed.
Write == /\ disk.data.n < MaxChanges /\ (save.on => save.ok)
         /\ Becomes(Changed(Server, 1)) /\ UNCHANGED asked

SAVE(ok) == ~rdb.pid /\ Ask /\ Becomes(RdbSave(Server, ok))
BGSAVE(forks) == ~rdb.pid /\ ~aof.pid /\ Ask /\ Becomes(SaveBackground(Server, forks))
\* syncCommand, updateSlavesWaitingBgsave.
SlaveBgsave(forks) == ~rdb.pid /\ Ask /\ Becomes(SaveBackground(Server, forks))
BGREWRITEAOF(forks) ==
  /\ ~aof.pid /\ Ask
  /\ Becomes(IF rdb.pid THEN [Server EXCEPT !.aof.scheduled = TRUE] ELSE Rewrite(Server, forks))

\* CONFIG SET appendonly and save.
StartAppendOnly(forks) ==
  /\ aof.state = "OFF" /\ Ask
  /\ Becomes(IF aof.pid \/ ~forks THEN Server ELSE [Rewrite(Server, forks) EXCEPT !.aof.state = "WAIT"])

\* stopAppendOnly: wait3 takes the child it killed, or another that has ended.
StopAppendOnly ==
  /\ aof.state # "OFF" /\ Ask
  /\ LET s == [Server EXCEPT !.aof.state = "OFF", !.aof.pid = FALSE, !.aof.proc = "none"]
     IN \/ Becomes(s)
        \/ "stop" \in Overlaps /\ aof.pid /\ rdb.proc \in Zombie /\ Becomes([s EXCEPT !.rdb.proc = "none"])

ConfigSave == Ask /\ Becomes([Server EXCEPT !.save.on = ~@])

\* FLUSHALL of any number of keys; what it saves does not count as saved.
FLUSHALL(keys, ok) ==
  /\ disk.data.n < MaxChanges /\ (save.on => save.ok) /\ Ask
  /\ LET f == [Changed(Server, keys) EXCEPT !.rdb.proc = Killed(@)]
         s == IF save.on THEN [RdbSave(f, ok) EXCEPT !.save.dirty = f.save.dirty] ELSE f
     IN Becomes([s EXCEPT !.save.dirty = @ + 1])

\* A start loads the dump; a child of the last life may be gone.
Started(dump) ==
  /\ disk.life < MaxLives
  /\ LET new == [life |-> disk.life + 1, n |-> 0]
     IN disk' = [data |-> new, dump |-> new, life |-> disk.life + 1]
  /\ save' = [save EXCEPT !.dirty = 0, !.before = 0, !.age = 0, !.tried = RetryDelay + 1, !.ok = TRUE]
  /\ rdb' = IF "orphan" \in Overlaps /\ rdb.proc = "run" THEN [rdb EXCEPT !.pid = FALSE] ELSE NoRdb
  /\ aof' = NoAof /\ resizes' = TRUE

Crash == Started(disk.dump) /\ UNCHANGED asked

\* SHUTDOWN, SAVE, NOSAVE or neither. When it fails the children are killed all the same.
SHUTDOWN(saves, ok) ==
  /\ Ask
  /\ LET k == [Server EXCEPT !.rdb.proc = Killed(@)]
         stuck == aof.state = "WAIT" /\ aof.pid
         a == IF aof.state # "OFF" /\ ~stuck THEN [k EXCEPT !.aof.proc = Killed(@)] ELSE k
     IN CASE stuck           -> Becomes(k)
          [] saves /\ ~ok    -> Becomes(a)
          [] OTHER           -> Started(IF saves THEN disk.data ELSE disk.dump)

\* readSyncBulkPayload: the dump received replaces dump.rdb and is loaded.
Resync == /\ disk.data.n < MaxChanges /\ Ask
          /\ "resync" \in Overlaps \/ rdb.proc # "run"
          /\ LET new == [disk.data EXCEPT !.n = @ + 1]
             IN Becomes([Server EXCEPT !.disk.data = new, !.disk.dump = new])

----------------------------------------------------------------------------
(* The children and the cron.                                              *)

RdbEnds(ok) == /\ rdb.proc = "run"
               /\ rdb' = [rdb EXCEPT !.proc = IF ~rdb.pid THEN "none" ELSE IF ok THEN "ok" ELSE "err"]
               /\ disk' = IF ok THEN [disk EXCEPT !.dump = rdb.what] ELSE disk
               /\ UNCHANGED <<save, aof, resizes, asked>>
AofEnds(ok) == /\ aof.proc = "run" /\ aof' = [aof EXCEPT !.proc = IF ok THEN "ok" ELSE "err"]
               /\ UNCHANGED <<disk, save, rdb, resizes, asked>>

Second == /\ save' = [save EXCEPT !.age = Older(@, Seconds), !.tried = Older(@, RetryDelay)]
          /\ UNCHANGED <<disk, rdb, aof, resizes, asked>>

NoChild(w) == ~w.rdb.pid /\ ~w.aof.pid
SavePoint(s) == s.on /\ s.dirty >= MinChanges /\ s.age > Seconds /\ (s.tried > RetryDelay \/ s.ok)

\* The part of serverCron about children, in its order: the rewrite that was scheduled,
\* then one wait3, or the save points and the growth of the file.
Cron(forks) ==
  /\ LET w == IF NoChild(Server) /\ aof.scheduled THEN Rewrite(Server, forks) ELSE Server
         s == IF SavePoint(w.save) THEN SaveBackground(w, forks) ELSE w
     IN IF NoChild(w)
          THEN \/ Becomes(s)
               \/ NoChild(s) /\ aof.state # "OFF" /\ Becomes(Rewrite(s, forks))
          ELSE \/ w.rdb.pid /\ w.rdb.proc \in Zombie /\ Becomes(Policy(SaveDone(w)))
               \/ w.aof.pid /\ w.aof.proc \in Zombie /\ Becomes(Policy(RewriteDone(w)))
               \/ w.rdb.proc \notin Zombie /\ w.aof.proc \notin Zombie /\ Becomes(w)
  /\ UNCHANGED asked

ChildrenInit ==
  /\ disk = [data |-> NoRdb.what, dump |-> NoRdb.what, life |-> 1]
  /\ save = [on |-> TRUE, dirty |-> 0, before |-> 0, age |-> 0, tried |-> RetryDelay + 1, ok |-> TRUE]
  /\ rdb = NoRdb /\ aof = NoAof /\ resizes = TRUE /\ asked = 0

ChildrenNext ==
  \/ Write \/ ConfigSave \/ StopAppendOnly \/ Crash \/ Resync \/ Second
  \/ \E yes \in BOOLEAN :
       \/ SAVE(yes) \/ BGSAVE(yes) \/ SlaveBgsave(yes) \/ BGREWRITEAOF(yes) \/ StartAppendOnly(yes)
       \/ RdbEnds(yes) \/ AofEnds(yes) \/ Cron(yes)
       \/ \E saves \in BOOLEAN : SHUTDOWN(saves, yes)
       \/ \E keys \in {0, 2} : FLUSHALL(keys, yes)

ChildrenSpec == ChildrenInit /\ [][ChildrenNext]_childvars

----------------------------------------------------------------------------
\* server.dirty is never less than the changes dump.rdb lacks, whoever saved it last
\* and whatever was killed; every child that is there can be waited for; the tables do
\* not resize while a child shares their pages.
ChildrenSound ==
  /\ disk.dump.life = disk.life /\ 0 <= disk.data.n - disk.dump.n
  /\ disk.data.n - disk.dump.n <= save.dirty
  /\ (rdb.proc # "none") = rdb.pid /\ (aof.proc # "none") = aof.pid
  /\ resizes => NoChild(Server)

\* While there are save points and the children can succeed, changes do not stay
\* unsaved, and a server that waits for its first append only file gets it.
ChangesSaved == /\ []<>(save.on => save.dirty < MinChanges)
                /\ []<>(aof.state # "WAIT")
=============================================================================
