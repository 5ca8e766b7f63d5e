-------------------------------- MODULE Aof --------------------------------
(***************************************************************************)
(* The append only file (aof.c), with what drives it: beforeSleep,         *)
(* serverCron, prepareForShutdown and loadDataFromDisk (redis.c), CONFIG   *)
(* SET appendonly (config.c), the restart of the AOF on a slave after a    *)
(* synchronization (replication.c) and the fsync thread (bio.c).           *)
(*                                                                         *)
(* A data set is the sequence of the writes that made it.  A file is a     *)
(* sequence of units; a command takes two, so that it can be cut in two by *)
(* a short write or a power loss.  What a rewrite child writes for a whole *)
(* data set is one command, "base".                                        *)
(*                                                                         *)
(* The main thread is in its event loop or inside serverCron, "loop"; the  *)
(* fsync thread, the children, a crash or a power loss may come anywhere.  *)
(***************************************************************************)
EXTENDS Integers, Sequences, FiniteSets

CONSTANTS DBs,
          Policies,          \* the values appendfsync may have
          LoadTruncated,     \* aof-load-truncated
          NoFsyncOnRewrite,  \* no-appendfsync-on-rewrite
          Scenarios,         \* what clients, peers, the disk and the power may
                             \* do together in one behaviour; bounds: how many
                             \* writes and faults
          MaxPending         \* bound: fsync jobs queued when a rewrite is asked for

AllEvents == {"multi", "bgrewrite", "bgsave", "config", "resync", "shutdown"}
AllFaults == {"write", "ftruncate", "fork", "child", "rename", "kill", "power"}

ASSUME ConstantsAssumption ==
  /\ DBs \subseteq Nat /\ IsFiniteSet(DBs) /\ 0 \in DBs
  /\ Policies \subseteq {"always", "everysec", "no"} /\ Policies # {}
  /\ LoadTruncated \in BOOLEAN /\ NoFsyncOnRewrite \in BOOLEAN
  /\ Scenarios # {} /\ MaxPending \in Nat
  /\ \A s \in Scenarios :
       s \in [may : SUBSET (AllEvents \cup AllFaults), writes : Nat, faults : Nat]

VARIABLES
  scenario,      \* which of the Scenarios this behaviour belongs to
  loop,          \* "events"; a step of serverCron: "reap", "postponed",
                 \* "error"; "shutdown" after exit(0), "down" after a crash
  policy,        \* server.aof_fsync
  data,          \* the data set
  nwrites,       \* the writes so far
  acked,         \* history: the writes whose reply was sent
  faults,        \* the faults so far
  aof_state,     \* "ON", "OFF" or "WAIT_REWRITE"
  aof_fd,        \* "none" (-1), "open", or "stale": closed, but not set to -1
  file,          \* what the file named server.aof_filename contains
  synced,        \* the units of it that a power loss leaves
  current_size,  \* server.aof_current_size
  aof_buf,       \* server.aof_buf
  selected_db,   \* server.aof_selected_db
  write_ok,      \* server.aof_last_write_status = REDIS_OK
  postponed,     \* seconds since aof_flush_postponed_start, NotPostponed if 0
  fsync_due,     \* server.unixtime > server.aof_last_fsync
  jobs,          \* the fsync jobs in bio.c, the running one first: on the
                 \* current file or on an old one
  fsyncing,      \* the units an fsync running on the current file covers
  rewrite_scheduled,
  rewrite_buf,   \* server.aof_rewrite_buf_blocks
  base,          \* the data set the rewrite child saves
  aof_child_pid, \* whether it is not -1
  rdb_child_pid, \* whether it is not -1
  aof_proc,      \* the process itself: "none", "run", "ok" or "fail"
  rdb_proc,
  orphan         \* a rewrite child that ended and that nobody waits for

diskVars  == <<file, synced, current_size>>
bufVars   == <<aof_buf, write_ok, postponed, fsync_due, jobs>>
childVars == <<rewrite_scheduled, rewrite_buf, base, aof_child_pid, aof_proc>>
rdbVars   == <<rdb_child_pid, rdb_proc, orphan>>
settings == <<scenario, policy>>
dataVars  == <<data, nwrites>>
modeVars  == <<aof_state, aof_fd, selected_db>>
vars == <<loop, settings, dataVars, acked, faults, modeVars, diskVars, bufVars,
          fsyncing, childVars, rdbVars>>

NotPostponed == -1
NotSyncing == -1
Up == loop \notin {"down", "shutdown"}
InEvents == loop = "events"

----------------------------------------------------------------------------
(* Commands in a file.                                                     *)

Command(op, d, w, ds) == [op |-> op, db |-> d, write |-> w, data |-> ds, half |-> 1]
NoCommand == Command("none", 0, 0, <<>>)
Select(d) == Command("select", d, 0, <<>>)
WriteCmd(w) == Command("write", 0, w, <<>>)
Multi     == Command("multi", 0, 0, <<>>)
Exec      == Command("exec", 0, 0, <<>>)
Units(c)  == <<c, [c EXCEPT !.half = 2]>>

\* rewriteAppendOnlyFile: nothing for an empty data set.
Rewritten(ds) == IF ds = <<>> THEN <<>> ELSE Units(Command("base", 0, 0, ds))

\* The database selected after the databases of ds were written in order.
LastDb(ds) == CHOOSE d \in DBs : /\ \E i \in DOMAIN ds : ds[i][1] = d
                                 /\ \A i \in DOMAIN ds : ds[i][1] <= d

\* The reader of loadAppendOnlyFile: the data set, the one that EXEC would
\* make, the fake client's database and MULTI flag, a command half read, the
\* units read when the last command was complete, and a format error.
Reader == [data |-> <<>>, pdata |-> <<>>, db |-> 0, multi |-> FALSE,
           half |-> NoCommand, valid |-> 0, bad |-> FALSE]

Run(r, c) ==
  LET p == CASE c.op = "base"   -> c.data
             [] c.op = "write"  -> Append(r.pdata, <<r.db, c.write>>)
             [] OTHER -> r.pdata
      m == c.op = "multi" \/ (r.multi /\ c.op # "exec")
  IN  [r EXCEPT !.pdata = p,
                !.data  = IF m THEN @ ELSE p,
                !.multi = m,
                !.db    = CASE c.op = "select" -> c.db
                            [] c.op = "base"   -> LastDb(c.data)
                            [] OTHER -> @]

ReadUnit(r, u) ==
  IF r.bad THEN r ELSE
  CASE r.half = NoCommand /\ u.half = 1 -> [r EXCEPT !.half = u]
    [] r.half # NoCommand /\ u = [r.half EXCEPT !.half = 2]
         -> [Run(r, r.half) EXCEPT !.half = NoCommand, !.valid = @ + 2]
    [] OTHER -> [r EXCEPT !.bad = TRUE]

Load(f) ==
  LET read[n \in 0 .. Len(f)] == IF n = 0 THEN Reader ELSE ReadUnit(read[n - 1], f[n])
  IN  read[Len(f)]

AtEnd(r) == ~r.bad /\ r.half = NoCommand /\ ~r.multi

----------------------------------------------------------------------------
Init ==
  /\ scenario \in Scenarios
  /\ loop = "events" /\ policy \in Policies
  /\ data = <<>> /\ nwrites = 0 /\ acked = {} /\ faults = 0
  /\ aof_state = "ON" /\ aof_fd = "open" /\ selected_db = -1
  /\ file = <<>> /\ synced = 0 /\ current_size = 0
  /\ aof_buf = <<>> /\ write_ok = TRUE /\ postponed = NotPostponed
  /\ fsync_due = FALSE /\ jobs = <<>> /\ fsyncing = NotSyncing
  /\ rewrite_scheduled = FALSE /\ rewrite_buf = <<>> /\ base = <<>>
  /\ aof_child_pid = FALSE /\ aof_proc = "none"
  /\ rdb_child_pid = FALSE /\ rdb_proc = "none" /\ orphan = FALSE

Fault(kind) == kind \in scenario.may /\ faults < scenario.faults /\ faults' = faults + 1

\* The process ends; memory is gone, the files stay.
Exit(how) ==
  /\ loop' = how
  /\ data' = <<>>
  /\ acked' = IF aof_state = "ON" THEN acked ELSE {}
  /\ aof_state' = "OFF" /\ aof_fd' = "none" /\ selected_db' = -1
  /\ current_size' = 0
  /\ aof_buf' = <<>> /\ write_ok' = TRUE /\ postponed' = NotPostponed
  /\ fsync_due' = FALSE /\ jobs' = <<>> /\ fsyncing' = NotSyncing
  /\ rewrite_scheduled' = FALSE /\ rewrite_buf' = <<>> /\ base' = <<>>
  /\ aof_child_pid' = FALSE /\ aof_proc' = "none"
  /\ rdb_child_pid' = FALSE /\ rdb_proc' = "none" /\ orphan' = FALSE
  /\ UNCHANGED <<settings, nwrites>>

----------------------------------------------------------------------------
(* Commands.                                                               *)

\* feedAppendOnlyFile, for commands run in database d: a SELECT if the last
\* one fed ran in another.  Both buffers may take them.
Feed(d, cmds) ==
  IF aof_state = "OFF" THEN UNCHANGED <<aof_buf, rewrite_buf, selected_db>>
  ELSE LET u == (IF d = selected_db THEN <<>> ELSE Units(Select(d))) \o cmds
       IN  /\ aof_buf' = IF aof_state = "ON" THEN aof_buf \o u ELSE aof_buf
           /\ rewrite_buf' = IF aof_child_pid THEN rewrite_buf \o u ELSE rewrite_buf
           /\ selected_db' = d

NewWrites(n) == [i \in 1 .. n |-> nwrites + i]

Writes(d, n) ==
  /\ InEvents /\ nwrites + n <= scenario.writes
  /\ nwrites' = nwrites + n
  /\ data' = data \o [i \in 1 .. n |-> <<d, NewWrites(n)[i]>>]

otherThanFeed == <<loop, settings, acked, faults, aof_state, aof_fd, diskVars, write_ok,
                   postponed, fsync_due, jobs, fsyncing, rewrite_scheduled, base,
                   aof_child_pid, aof_proc, rdbVars>>

\* processCommand refuses a write while aof_last_write_status is an error.
WriteCommand(d) ==
  /\ write_ok
  /\ Writes(d, 1)
  /\ Feed(d, Units(WriteCmd(nwrites + 1)))
  /\ UNCHANGED otherThanFeed

\* An EXEC of two writes, which were queued before any error.
Transaction(d) ==
  /\ "multi" \in scenario.may
  /\ Writes(d, 2)
  /\ Feed(d, Units(Multi) \o Units(WriteCmd(nwrites + 1)) \o Units(WriteCmd(nwrites + 2))
             \o Units(Exec))
  /\ UNCHANGED otherThanFeed

----------------------------------------------------------------------------
(* flushAppendOnlyFile.                                                    *)

FsyncPending == policy = "everysec" /\ jobs # <<>>

\* The variables flushAppendOnlyFile changes.
Unflushed == [file |-> file, synced |-> synced, size |-> current_size, buf |-> aof_buf,
              ok |-> write_ok, postponed |-> postponed, due |-> fsync_due, jobs |-> jobs,
              exit |-> FALSE, faults |-> faults]

Postponed == [Unflushed EXCEPT !.postponed = IF @ = NotPostponed THEN 0 ELSE @]

\* Mutant: aof_current_size is left as it was.
WrittenUncounted ==
  [Unflushed EXCEPT
     !.file = file \o aof_buf, !.buf = <<>>, !.ok = TRUE, !.postponed = NotPostponed,
     !.synced = IF policy = "always" THEN Len(file \o aof_buf) ELSE @,
     !.jobs = IF fsync_due /\ jobs = <<>> THEN <<"current">> ELSE @]

\* Mutant: no fsync while a child saves, whatever no-appendfsync-on-rewrite is.
WrittenQuietly ==
  LET all == file \o aof_buf
      now == policy = "always" /\ ~aof_child_pid /\ ~rdb_child_pid
  IN  [Unflushed EXCEPT
         !.file = all, !.buf = <<>>, !.ok = TRUE, !.postponed = NotPostponed,
         !.size = @ + Len(aof_buf), !.synced = IF now THEN Len(all) ELSE @]

\* The write succeeds; then the fsync, if any.
Written ==
  LET all   == file \o aof_buf
      quiet == NoFsyncOnRewrite /\ (aof_child_pid \/ rdb_child_pid)
      now   == policy = "always" /\ ~quiet
      later == policy = "everysec" /\ fsync_due /\ ~quiet
  IN  [Unflushed EXCEPT
         !.file = all, !.buf = <<>>, !.ok = TRUE, !.postponed = NotPostponed,
         !.size = @ + Len(aof_buf),
         !.synced = IF now THEN Len(all) ELSE @,
         !.jobs = IF later /\ ~FsyncPending THEN Append(@, "current") ELSE @,
         !.due = IF now \/ later THEN FALSE ELSE @]

\* The write fails.  With "always" the process exits; else the k units that
\* ftruncate could not remove stay, and the buffer keeps the others.
Failed(k, n) ==
  [Unflushed EXCEPT
     !.file = CASE k > 0 -> @ \o SubSeq(aof_buf, 1, k)
                [] k = 0 /\ aof_fd = "open" -> SubSeq(@, 1, current_size)
                [] OTHER -> @,
     !.size = @ + k, !.buf = SubSeq(@, k + 1, Len(@)), !.ok = FALSE,
     !.postponed = NotPostponed, !.exit = policy = "always", !.faults = n]

CanFail(kind) == kind \in scenario.may /\ faults < scenario.faults

\* Mutant: a postponed write waits for the fsync as long as it takes.
FlushWaits(force) ==
  CASE aof_buf = <<>> -> {Unflushed}
    [] aof_buf # <<>> /\ FsyncPending /\ ~force -> {Postponed}
    [] OTHER -> {Written}

FlushResults(force) ==
  CASE aof_buf = <<>> -> {Unflushed}
    [] aof_buf # <<>> /\ FsyncPending /\ ~force /\ postponed < 2 -> {Postponed}
    [] OTHER ->
         IF aof_fd # "open" THEN {Failed(0, faults)}
         ELSE {Written} \cup (IF CanFail("write") THEN {Failed(0, faults + 1)} ELSE {})
              \cup {Failed(k, faults + 1) :
                      k \in IF CanFail("ftruncate") THEN 1 .. Len(aof_buf) - 1 ELSE {}}

FlushTo(r) ==
  /\ file' = r.file /\ synced' = r.synced /\ current_size' = r.size
  /\ aof_buf' = r.buf /\ write_ok' = r.ok /\ postponed' = r.postponed
  /\ fsync_due' = r.due /\ jobs' = r.jobs

Flush(next) ==
  \E r \in FlushResults(FALSE) :
    /\ faults' = r.faults
    /\ IF r.exit
       THEN Exit("down") /\ file' = r.file /\ UNCHANGED synced
       ELSE /\ FlushTo(r) /\ loop' = next
            /\ UNCHANGED <<settings, dataVars, modeVars, fsyncing, childVars, rdbVars>>

WritesOf(ds) == {ds[i][2] : i \in DOMAIN ds}

\* Before the event loop waits for, and serves, the sockets: the replies to
\* the commands executed are sent after this.
BeforeSleep ==
  /\ InEvents
  /\ Flush("events")
  /\ IF loop' = "down" THEN TRUE ELSE acked' = acked \cup WritesOf(data)

\* A second passes.
Tick ==
  /\ Up /\ (postponed \in 0 .. 1 \/ ~fsync_due)
  /\ postponed' = IF postponed \in 0 .. 1 THEN postponed + 1 ELSE postponed
  /\ fsync_due' = TRUE
  /\ UNCHANGED <<loop, settings, dataVars, acked, faults, modeVars, diskVars, aof_buf, write_ok,
                 jobs, fsyncing, childVars, rdbVars>>

----------------------------------------------------------------------------
(* The fsync thread.                                                       *)

OldJobs(q) == [i \in DOMAIN q |-> "old"]

notFsync == <<loop, settings, dataVars, acked, faults, modeVars, file, current_size, aof_buf,
              write_ok, postponed, fsync_due, childVars, rdbVars>>

FsyncStart ==
  /\ Up /\ jobs # <<>> /\ Head(jobs) = "current" /\ fsyncing = NotSyncing
  /\ fsyncing' = Len(file)
  /\ UNCHANGED <<notFsync, synced, jobs>>

\* The fsync covers what was written when it began.
FsyncEnd ==
  /\ fsyncing # NotSyncing
  /\ synced' = IF fsyncing > synced THEN fsyncing ELSE synced
  /\ fsyncing' = NotSyncing /\ jobs' = Tail(jobs)
  /\ UNCHANGED notFsync

\* The file was replaced or closed in the meantime.
FsyncOld ==
  /\ Up /\ jobs # <<>> /\ Head(jobs) = "old"
  /\ jobs' = Tail(jobs)
  /\ UNCHANGED <<notFsync, synced, fsyncing>>

----------------------------------------------------------------------------
(* Children.                                                               *)

Room == Len(jobs) < MaxPending

\* Mutant: the database last selected is not forgotten.
ForkSelected ==
  /\ ~aof_child_pid
  /\ aof_child_pid' = TRUE /\ aof_proc' = "run" /\ base' = data
  /\ rewrite_scheduled' = FALSE
  /\ UNCHANGED <<rewrite_buf, faults, selected_db>>

\* rewriteAppendOnlyFileBackground, when fork succeeds.
Fork ==
  /\ ~aof_child_pid
  /\ aof_child_pid' = TRUE /\ aof_proc' = "run" /\ base' = data
  /\ rewrite_scheduled' = FALSE /\ selected_db' = -1
  /\ UNCHANGED <<rewrite_buf, faults>>

ForkFails ==
  /\ ~aof_child_pid /\ Fault("fork")
  /\ UNCHANGED <<childVars, selected_db>>

bgrewriteaofCommand ==
  /\ "bgrewrite" \in scenario.may /\ InEvents /\ ~aof_child_pid /\ Room
  /\ IF rdb_child_pid
     THEN /\ rewrite_scheduled' = TRUE
          /\ UNCHANGED <<rewrite_buf, base, aof_child_pid, aof_proc, selected_db, faults>>
     ELSE Fork \/ ForkFails
  /\ UNCHANGED <<loop, settings, dataVars, acked, aof_state, aof_fd, diskVars, bufVars,
                 fsyncing, rdbVars>>

\* BGSAVE: a client's is refused while the AOF is rewritten, that of a slave
\* or of a save point is not.
Bgsave ==
  /\ "bgsave" \in scenario.may /\ InEvents /\ ~rdb_child_pid
  /\ rdb_child_pid' = TRUE /\ rdb_proc' = "run"
  /\ UNCHANGED <<loop, settings, dataVars, acked, faults, modeVars, diskVars, bufVars, fsyncing,
                 childVars, orphan>>

notProc == <<loop, settings, dataVars, acked, modeVars, diskVars, bufVars, fsyncing,
             rewrite_scheduled, rewrite_buf, base, aof_child_pid, rdb_child_pid, orphan>>

RewriteChildEnds ==
  /\ aof_proc = "run"
  /\ \/ aof_proc' = "ok" /\ UNCHANGED faults
     \/ aof_proc' = "fail" /\ Fault("child")
  /\ UNCHANGED <<notProc, rdb_proc>>

BgsaveChildEnds ==
  /\ rdb_proc = "run" /\ rdb_proc' = "ok"
  /\ UNCHANGED <<notProc, aof_proc, faults>>

----------------------------------------------------------------------------
(* backgroundRewriteDoneHandler.                                           *)

\* Mutant: a failed rewrite is not tried again.
CleanupOnly ==
  /\ rewrite_buf' = <<>> /\ base' = <<>> /\ aof_child_pid' = FALSE
  /\ UNCHANGED rewrite_scheduled

\* The end of it, in every case.
Cleanup ==
  /\ rewrite_buf' = <<>> /\ base' = <<>> /\ aof_child_pid' = FALSE
  /\ rewrite_scheduled' = (rewrite_scheduled \/ aof_state' = "WAIT_REWRITE")

\* Mutant: the buffer, already part of the new file, is kept.
NewFileKeepsBuffer ==
  LET new == Rewritten(base) \o rewrite_buf
  IN  /\ file' = new /\ synced' = Len(new) /\ current_size' = Len(new)
      /\ aof_fd' = "open" /\ selected_db' = -1 /\ jobs' = OldJobs(jobs)
      /\ fsyncing' = NotSyncing
      /\ aof_state' = IF aof_state = "WAIT_REWRITE" THEN "ON" ELSE aof_state
      /\ UNCHANGED aof_buf

\* The temporary file takes the place of the file.  The child has synced
\* what it wrote.  Without a descriptor the AOF is off.
NewFile ==
  LET new == Rewritten(base) \o rewrite_buf
  IN  /\ file' = new
      /\ IF aof_fd = "none"
         THEN /\ synced' = Len(Rewritten(base))
              /\ jobs' = OldJobs(jobs)
              /\ UNCHANGED <<aof_fd, selected_db, current_size, aof_buf>>
         ELSE /\ aof_fd' = "open" /\ selected_db' = -1
              /\ synced' = IF policy = "always" THEN Len(new) ELSE Len(Rewritten(base))
              /\ jobs' = IF policy = "everysec" THEN Append(OldJobs(jobs), "current")
                         ELSE OldJobs(jobs)
              /\ current_size' = Len(new)
              /\ aof_buf' = <<>>
      /\ fsyncing' = NotSyncing
      /\ aof_state' = IF aof_state = "WAIT_REWRITE" THEN "ON" ELSE aof_state

RewriteDone ==
  /\ \/ /\ aof_proc = "ok" /\ NewFile
        /\ UNCHANGED faults
     \/ \* opening, writing or renaming the temporary file fails
        /\ aof_proc = "ok" /\ Fault("rename")
        /\ UNCHANGED <<modeVars, diskVars, aof_buf, jobs, fsyncing>>
     \/ /\ aof_proc # "ok"
        /\ UNCHANGED <<modeVars, diskVars, aof_buf, jobs, fsyncing, faults>>
  /\ Cleanup
  /\ UNCHANGED <<write_ok, postponed, fsync_due>>

----------------------------------------------------------------------------
(* serverCron.                                                             *)

\* The scheduled rewrite.
CronRewrite ==
  /\ InEvents /\ loop' = "reap"
  /\ IF ~rdb_child_pid /\ ~aof_child_pid /\ rewrite_scheduled
     THEN Fork \/ ForkFails
     ELSE UNCHANGED <<childVars, selected_db, faults>>
  /\ UNCHANGED <<settings, dataVars, acked, aof_state, aof_fd, diskVars, bufVars, fsyncing,
                 rdbVars>>

handlerVars == <<modeVars, diskVars, bufVars, fsyncing, rewrite_scheduled, rewrite_buf, base,
                 aof_child_pid>>

\* wait3(WNOHANG): any child that has ended.  Without children it returns -1,
\* which compares equal to an aof_child_pid of -1.
Reap ==
  \/ /\ aof_proc \in {"ok", "fail"} /\ aof_proc' = "none"
     /\ RewriteDone
     /\ UNCHANGED rdbVars
  \/ /\ rdb_proc = "ok" /\ rdb_proc' = "none" /\ rdb_child_pid' = FALSE
     /\ UNCHANGED <<handlerVars, aof_proc, orphan, faults>>
  \/ /\ orphan /\ orphan' = FALSE
     /\ UNCHANGED <<handlerVars, aof_proc, rdb_child_pid, rdb_proc, faults>>
  \/ /\ aof_proc \in {"none", "run"} /\ rdb_proc \in {"none", "run"} /\ ~orphan
     /\ IF aof_proc = "none" /\ rdb_proc = "none"
        THEN RewriteDone
        ELSE UNCHANGED <<handlerVars, faults>>
     /\ UNCHANGED <<aof_proc, rdbVars>>

\* A save point is reached, the file has grown, or neither.
CronSaves ==
  \/ /\ "bgsave" \in scenario.may /\ rdb_child_pid' = TRUE /\ rdb_proc' = "run"
     /\ UNCHANGED <<handlerVars, aof_proc, orphan, faults>>
  \/ /\ "bgrewrite" \in scenario.may /\ current_size > 0 /\ Room
     /\ Fork \/ ForkFails
     /\ UNCHANGED <<aof_state, aof_fd, diskVars, bufVars, fsyncing, rdbVars>>
  \/ UNCHANGED <<handlerVars, aof_proc, rdbVars, faults>>

CronChildren ==
  /\ loop = "reap" /\ loop' = "postponed"
  /\ IF rdb_child_pid \/ aof_child_pid THEN Reap ELSE CronSaves
  /\ UNCHANGED <<settings, dataVars, acked>>

CronFlush(step, when, next) ==
  /\ loop = step
  /\ IF when
     THEN /\ Flush(next)
          /\ IF loop' = "down" THEN TRUE ELSE UNCHANGED acked
     ELSE /\ loop' = next
          /\ UNCHANGED <<settings, dataVars, acked, faults, modeVars, diskVars, bufVars, fsyncing,
                         childVars, rdbVars>>

CronPostponed == CronFlush("postponed", postponed # NotPostponed, "error")
CronError     == CronFlush("error", ~write_ok, "events")

----------------------------------------------------------------------------
(* Turning the AOF off and on.                                             *)

\* "kill it, wait child exit": wait3 returns for any child that has ended.
KillRewriteChild ==
  IF aof_child_pid
  THEN /\ \/ UNCHANGED <<rdb_proc, orphan>>
          \/ rdb_proc # "none" /\ rdb_proc' = "none" /\ orphan' = TRUE
          \/ orphan /\ UNCHANGED <<rdb_proc, orphan>>
       /\ aof_proc' = "none" /\ aof_child_pid' = FALSE
       /\ rewrite_buf' = <<>> /\ base' = <<>>
       /\ UNCHANGED <<rewrite_scheduled, rdb_child_pid>>
  ELSE UNCHANGED <<childVars, rdbVars>>

\* stopAppendOnly, going on to step next.
Stop(next) ==
  /\ aof_state # "OFF"
  /\ \E r \in FlushResults(TRUE) :
       /\ faults' = r.faults
       /\ IF r.exit
          THEN Exit("down") /\ file' = r.file /\ UNCHANGED synced
          ELSE /\ FlushTo([r EXCEPT !.synced = Len(r.file), !.jobs = OldJobs(@)])
               /\ fsyncing' = NotSyncing
               /\ aof_fd' = "none" /\ selected_db' = -1 /\ aof_state' = "OFF"
               /\ KillRewriteChild
               /\ loop' = next
               /\ UNCHANGED settings

ConfigNo ==
  /\ "config" \in scenario.may /\ InEvents
  /\ Stop("events")
  /\ IF loop' = "down" THEN TRUE ELSE UNCHANGED <<dataVars, acked>>

notStart == <<settings, dataVars, acked, diskVars, aof_buf, write_ok, postponed, jobs, fsyncing,
              rdbVars>>

\* startAppendOnly.  The file is created or opened, then rewritten; if no
\* child can be started the descriptor is closed and keeps its number.
Start ==
  /\ Fork
  /\ aof_fd' = "open" /\ aof_state' = "WAIT_REWRITE" /\ fsync_due' = FALSE
  /\ UNCHANGED notStart

StartFails ==
  /\ \/ ForkFails
     \/ aof_child_pid /\ UNCHANGED <<childVars, selected_db, faults>>
  /\ aof_fd' = "stale" /\ fsync_due' = FALSE
  /\ UNCHANGED <<notStart, aof_state>>

ConfigYes ==
  /\ "config" \in scenario.may /\ InEvents /\ aof_state = "OFF" /\ Room
  /\ Start \/ StartFails
  /\ UNCHANGED loop

\* readSyncBulkPayload: a slave has loaded its master's data set, here one
\* that a single write made, and restarts the AOF if it is on.
Resync ==
  /\ "resync" \in scenario.may /\ InEvents /\ aof_state # "OFF" /\ nwrites < scenario.writes /\ Room
  /\ Stop("restart")
  /\ nwrites' = nwrites + 1
  /\ IF loop' = "down" THEN TRUE
     ELSE data' = <<<<0, nwrites + 1>>>> /\ acked' = {}

\* "while (retry-- && startAppendOnly() == REDIS_ERR)": retry is 0 after the
\* loop when the last attempt succeeded, and -1 when it failed too.
RestartAof ==
  /\ loop = "restart"
  /\ \/ Start /\ loop' = "events"
     \/ StartFails /\ loop' = "events"
     \/ Fault("fork") /\ Exit("down") /\ UNCHANGED <<file, synced>>

----------------------------------------------------------------------------
(* The process ends and starts.                                            *)

\* prepareForShutdown, then exit(0).  The buffer is not written.
Shutdown ==
  /\ "shutdown" \in scenario.may /\ InEvents
  /\ ~(aof_state = "WAIT_REWRITE" /\ aof_child_pid)
  /\ Exit("shutdown")
  /\ synced' = IF aof_state # "OFF" THEN Len(file) ELSE synced
  /\ UNCHANGED <<file, faults>>

\* The process is killed, anywhere.
Crash ==
  /\ Up /\ Fault("kill") /\ Exit("down")
  /\ UNCHANGED <<file, synced>>

\* Of what was not synced, a power loss leaves some.
PowerLoss ==
  /\ Up /\ Fault("power") /\ Exit("down")
  /\ \E n \in synced .. Len(file) : file' = SubSeq(file, 1, n)
  /\ UNCHANGED synced

\* loadDataFromDisk, with "appendonly yes".  loadAppendOnlyFile exits on a
\* format error, and on an unexpected end unless aof-load-truncated is set.
LoadDataFromDisk ==
  LET r == Load(file)
  IN  /\ ~Up
      /\ ~r.bad /\ (AtEnd(r) \/ LoadTruncated)
      /\ loop' = "events" /\ aof_state' = "ON" /\ aof_fd' = "open"
      /\ data' = r.data
      /\ file' = SubSeq(file, 1, r.valid)
      /\ synced' = r.valid /\ current_size' = r.valid
      /\ UNCHANGED <<settings, nwrites, acked, faults, selected_db, bufVars, fsyncing, childVars,
                     rdbVars>>

Next ==
  \/ \E d \in DBs : WriteCommand(d) \/ Transaction(d)
  \/ BeforeSleep \/ Tick
  \/ FsyncStart \/ FsyncEnd \/ FsyncOld
  \/ bgrewriteaofCommand \/ Bgsave \/ RewriteChildEnds \/ BgsaveChildEnds
  \/ CronRewrite \/ CronChildren \/ CronPostponed \/ CronError
  \/ ConfigNo \/ ConfigYes \/ Resync \/ RestartAof
  \/ Shutdown \/ Crash \/ PowerLoss \/ LoadDataFromDisk

Spec == Init /\ [][Next]_vars

\* Every iteration of the event loop starts with beforeSleep, and its cron
\* runs; time passes and a child ends.  Nothing is assumed of clients, of
\* faults, of restarts, or of an fsync, which a busy disk may hold up.
Fairness ==
  /\ SF_vars(BeforeSleep)
  /\ WF_vars(CronRewrite \/ CronChildren \/ CronPostponed \/ CronError \/ RestartAof)
  /\ WF_vars(Tick)
  /\ WF_vars(RewriteChildEnds) /\ WF_vars(BgsaveChildEnds)

FairSpec == Spec /\ Fairness

----------------------------------------------------------------------------
(* Properties.                                                             *)

Cmds == [op : {"none", "select", "write", "multi", "exec", "base"}, db : DBs,
         write : 0 .. scenario.writes, data : Seq(DBs \X (1 .. scenario.writes)), half : {1, 2}]

\* Every variable has its type.
TypeOK ==
  /\ loop \in {"events", "reap", "postponed", "error", "restart", "shutdown", "down"}
  /\ policy \in Policies /\ scenario \in Scenarios
  /\ data \in Seq(DBs \X (1 .. scenario.writes)) /\ base \in Seq(DBs \X (1 .. scenario.writes))
  /\ nwrites \in 0 .. scenario.writes /\ faults \in 0 .. scenario.faults
  /\ acked \subseteq 1 .. nwrites
  /\ aof_state \in {"ON", "OFF", "WAIT_REWRITE"} /\ aof_fd \in {"none", "open", "stale"}
  /\ file \in Seq(Cmds) /\ aof_buf \in Seq(Cmds) /\ rewrite_buf \in Seq(Cmds)
  /\ synced \in 0 .. Len(file) /\ current_size \in Nat
  /\ selected_db \in DBs \cup {-1}
  /\ postponed \in NotPostponed .. 2
  /\ {write_ok, fsync_due, rewrite_scheduled, aof_child_pid, rdb_child_pid, orphan} \subseteq BOOLEAN
  /\ jobs \in Seq({"current", "old"}) /\ fsyncing \in NotSyncing .. Len(file)
  /\ aof_proc \in {"none", "run", "ok", "fail"} /\ rdb_proc \in {"none", "run", "ok"}

Replays(f, ds) == AtEnd(Load(f)) /\ Load(f).data = ds

\* While the AOF is on, what is in the file and what is still in the buffer
\* make the data set: through rewrites, failed and partial writes, and
\* reloads.
FileAddsUp == Up /\ aof_state = "ON" => Replays(file \o aof_buf, data)

\* While a rewrite child saves, what it was given and what was fed since make
\* the data set, so that the file can be replaced at any time.
RewriteAddsUp ==
  Up /\ aof_child_pid /\ aof_state # "OFF" => Replays(Rewritten(base) \o rewrite_buf, data)

\* "We have the contract with the user that on acknowledged write data is
\* synched on disk" (flushAppendOnlyFile, with "always"): what a power loss
\* leaves holds every acknowledged write.
AckedIsDurable ==
  policy = "always" /\ (aof_state = "ON" \/ ~Up)
    => acked \subseteq WritesOf(Load(SubSeq(file, 1, synced)).data)

\* "Otherwise fall trough, and go write since we can't wait over two seconds"
\* (flushAppendOnlyFile): while no write fails, what is buffered is written,
\* even if the fsync it was postponed for never ends.
BufferWritten == (aof_state = "ON" /\ aof_buf # <<>>) ~> (aof_buf = <<>> \/ aof_state # "ON")

\* "Schedule a new rewrite if we are waiting for it to switch the AOF ON"
\* (backgroundRewriteDoneHandler): the wait ends.
SwitchedOn == aof_state = "WAIT_REWRITE" ~> aof_state # "WAIT_REWRITE"
=============================================================================
