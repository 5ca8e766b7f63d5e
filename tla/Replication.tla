---------------------------- MODULE Replication ----------------------------
(***************************************************************************)
(* Master-slave replication (replication.c, with the parts of networking.c *)
(* and rdb.c it relies on).  Every server is at once a possible master and *)
(* a possible slave, so chains of servers are instances of the same        *)
(* module.                                                                 *)
(*                                                                         *)
(* A write is a number; a data set is the sequence of the writes that made *)
(* it; the replication stream is a sequence of writes, each one unit long  *)
(* in the replication offsets.  The ring buffer behind the backlog is the  *)
(* subject of module Backlog: here it is the last BacklogSize units.       *)
(* SELECT and MULTI in the stream are the subject of module Multi.         *)
(*                                                                         *)
(* A connection is indexed by its slave.  A server waiting for the reply   *)
(* to PSYNC is blocked: it reads the reply synchronously.                  *)
(***************************************************************************)
EXTENDS Integers, Sequences, FiniteSets

CONSTANTS None,
          Setups           \* the topologies and bounds that are looked at

AllFaults == {"link", "timeout", "fork", "save", "restart"}

ASSUME ConstantsAssumption == \A u \in Setups :
  LET nodes == DOMAIN u.initialMaster
  IN  /\ IsFiniteSet(nodes) /\ None \notin nodes
      /\ u.initialMaster \in [nodes -> nodes \cup {None}]
      /\ u.backlogSize \in Nat \ {0}
      /\ u.maxWrites \in Nat /\ u.maxOffset \in Nat /\ u.maxFaults \in Nat
      /\ u.faults \subseteq AllFaults
      /\ u.slaveofCommands \subseteq nodes \X (nodes \cup {None})
      /\ u.overlapBgsave \in BOOLEAN

VARIABLES
  setup,       \* one of Setups, for ever
  writes,      \* the writes issued so far, by any client
  faults,      \* the faults so far
  data,        \* the data set
  rdbfile,     \* the data set in server.rdb_filename
  child,       \* the data set the RDB child is saving, or NoChild
  runid,       \* server.runid: a number, new after a restart
  mro,         \* server.master_repl_offset
  backlog,     \* server.repl_backlog, oldest unit first, or NoBacklog
  masterhost,  \* server.masterhost
  repl_state,  \* server.repl_state; "PSYNC" while blocked on the reply
  master,      \* server.master, or server.cached_master while not CONNECTED:
               \* its replrunid, reploff and whether it is flagged PRE_PSYNC;
               \* NoMaster if there is neither
  full,        \* server.repl_master_runid and repl_master_initial_offset
  conn         \* the connection of a slave with its master

InitialMaster   == setup.initialMaster   \* the "slaveof" lines
Servers         == DOMAIN InitialMaster
BacklogSize     == setup.backlogSize     \* repl-backlog-size
MaxWrites       == setup.maxWrites       \* bound: writes issued by clients
MaxOffset       == setup.maxOffset       \* bound: no backlog is freed above it
Faults          == setup.faults          \* the disturbances that happen
MaxFaults       == setup.maxFaults       \* bound: disturbances, all together
SlaveofCommands == setup.slaveofCommands \* the SLAVEOF commands issued:
                     \* <<server, master>>, <<server, None>> for NO ONE
OverlapBgsave   == setup.overlapBgsave   \* whether a slave may ask for a full
                     \* resynchronization while a child is saving

vars == <<setup, writes, faults, data, rdbfile, child, runid, mro, backlog, masterhost,
          repl_state, master, full, conn>>

serverVars == <<data, rdbfile, child, runid, mro, backlog>>
slaveVars  == <<masterhost, repl_state, master, full>>

NoChild   == <<0>>             \* no data set: writes are positive
NoBacklog == <<0>>
NoRun     == <<None, 0>>
NoFull    == [run |-> NoRun, off |-> -2]
NoMaster  == [run |-> NoRun, off |-> -2, pre |-> FALSE]

\* to, up: the peer, and whether it still has the connection; cmds: what the
\* master can read; in: what the slave can read; replstate, obuf, snap: the
\* master's client structure for the slave.
NoConn == [to |-> None, up |-> FALSE, cmds |-> <<>>, in |-> <<>>,
           replstate |-> "NONE", obuf |-> <<>>, snap |-> <<>>]

Psync(p) == [name |-> "PSYNC", run |-> p.run, off |-> p.off + 1]
Sync     == [name |-> "SYNC", run |-> NoRun, off |-> 0]

Run(m) == <<m, runid[m]>>

Line(t)   == [t |-> t, run |-> NoRun, off |-> 0, data |-> <<>>]
FullLine(r, o) == [Line("FULLRESYNC") EXCEPT !.run = r, !.off = o]
Bulk(d)   == [Line("bulk") EXCEPT !.data = d]
Unit(w)   == [Line("unit") EXCEPT !.off = w]

----------------------------------------------------------------------------
Fault(kind) == kind \in Faults /\ faults < MaxFaults /\ faults' = faults + 1

Blocked(s)  == repl_state[s] = "PSYNC"
Slaves(m)   == {x \in Servers : conn[x].to = m /\ conn[x].replstate # "NONE"}
HasBacklog(m) == backlog[m] # NoBacklog
BacklogOff(m) == mro[m] - Len(backlog[m]) + 1

\* Mutant: one unit too many is kept.
LastUnitsAndOne(q) ==
  SubSeq(q, IF Len(q) > BacklogSize THEN Len(q) - BacklogSize ELSE 1, Len(q))

LastUnits(q)  == SubSeq(q, IF Len(q) > BacklogSize THEN Len(q) - BacklogSize + 1 ELSE 1, Len(q))

Init ==
  /\ setup \in Setups
  /\ writes = 0 /\ faults = 0
  /\ data = [s \in Servers |-> <<>>]
  /\ rdbfile = [s \in Servers |-> <<>>]
  /\ child = [s \in Servers |-> NoChild]
  /\ runid = [s \in Servers |-> 1]
  /\ mro = [s \in Servers |-> 0]
  /\ backlog = [s \in Servers |-> NoBacklog]
  /\ masterhost = InitialMaster
  /\ repl_state = [s \in Servers |-> IF InitialMaster[s] = None THEN "NONE" ELSE "CONNECT"]
  /\ master = [s \in Servers |-> NoMaster]
  /\ full = [s \in Servers |-> NoFull]
  /\ conn = [s \in Servers |-> NoConn]

----------------------------------------------------------------------------
(* The stream.                                                             *)

\* replicationFeedSlaves: the connections cn after m's slaves are fed with w.
\* A slave waiting for a BGSAVE to start is skipped.
FedConns(cn, m, w) ==
  [x \in Servers |->
     CASE cn[x].to = m /\ cn[x].replstate \in {"WAIT_BGSAVE_END", "SEND_BULK"}
            -> [cn[x] EXCEPT !.obuf = Append(@, w)]
       [] cn[x].to = m /\ cn[x].replstate = "ONLINE"
            -> [cn[x] EXCEPT !.in = Append(@, Unit(w))]
       [] OTHER -> cn[x]]

\* With no backlog (hence no slaves) the unit is not even counted.
FeedBacklog(m, w) ==
  IF HasBacklog(m)
  THEN /\ mro' = [mro EXCEPT ![m] = @ + 1]
       /\ backlog' = [backlog EXCEPT ![m] = LastUnits(Append(@, w))]
  ELSE UNCHANGED <<mro, backlog>>

\* A write of a client of a master.
Write(m) ==
  /\ writes < MaxWrites /\ masterhost[m] = None /\ ~Blocked(m)
  /\ writes' = writes + 1
  /\ data' = [data EXCEPT ![m] = Append(@, writes')]
  /\ FeedBacklog(m, writes')
  /\ conn' = FedConns(conn, m, writes')
  /\ UNCHANGED <<faults, rdbfile, child, runid, slaveVars>>

\* A slave reads one unit from its master, executes it and feeds its own
\* slaves (readQueryFromClient, processInputBuffer, call).
ReadUnit(s) ==
  /\ repl_state[s] = "CONNECTED" /\ conn[s].in # <<>>
  /\ Head(conn[s].in).t = "unit"
  /\ LET w == Head(conn[s].in).off
     IN  /\ data' = [data EXCEPT ![s] = Append(@, w)]
         /\ FeedBacklog(s, w)
         /\ conn' = FedConns([conn EXCEPT ![s].in = Tail(@)], s, w)
  /\ master' = [master EXCEPT ![s].off = @ + 1]
  /\ UNCHANGED <<writes, faults, rdbfile, child, runid, masterhost, repl_state, full>>

----------------------------------------------------------------------------
(* The master: SYNC and PSYNC, and the background save.                    *)

Cmd(s) == Head(conn[s].cmds)

\* masterTryPartialResynchronization accepts the request.
PsyncAccepted(m, s) ==
  /\ Cmd(s).name = "PSYNC"
  /\ Cmd(s).run = Run(m)
  /\ HasBacklog(m)
  /\ Cmd(s).off >= BacklogOff(m)
  /\ Cmd(s).off <= BacklogOff(m) + Len(backlog[m])

\* Mutant: the unit at the requested offset is skipped.
BacklogAfter(m, o) ==
  [i \in 1 .. mro[m] - o |-> Unit(backlog[m][o - BacklogOff(m) + i + 1])]

\* addReplyReplicationBacklog: the units from the requested offset on.
BacklogFrom(m, o) ==
  [i \in 1 .. mro[m] - o + 1 |-> Unit(backlog[m][o - BacklogOff(m) + i])]

\* Mutant: the unit that creating the backlog counts is forgotten.
FullOffsetNow(m) == mro[m]

\* The offset announced with +FULLRESYNC.
FullOffset(m) == IF HasBacklog(m) THEN mro[m] ELSE mro[m] + 1

\* syncCommand may run: a request is there and its sender is not a slave yet.
SyncRequest(m, s) ==
  /\ ~Blocked(m)
  /\ conn[s].to = m /\ conn[s].up /\ conn[s].cmds # <<>>

\* "ignore SYNC if already slave"
SyncIgnored(m, s) ==
  /\ SyncRequest(m, s) /\ conn[s].replstate # "NONE"
  /\ conn' = [conn EXCEPT ![s].cmds = Tail(@)]
  /\ UNCHANGED <<writes, faults, serverVars, slaveVars>>

\* A slave whose own link is down answers with an error.
SyncRefused(m, s) ==
  /\ SyncRequest(m, s) /\ conn[s].replstate = "NONE"
  /\ masterhost[m] # None /\ repl_state[m] # "CONNECTED"
  /\ conn' = [conn EXCEPT ![s].cmds = Tail(@), ![s].in = Append(@, Line("ERR"))]
  /\ UNCHANGED <<writes, faults, serverVars, slaveVars>>

SyncServed(m, s) ==
  /\ SyncRequest(m, s) /\ conn[s].replstate = "NONE"
  /\ masterhost[m] = None \/ repl_state[m] = "CONNECTED"

SyncPartial(m, s) ==
  /\ SyncServed(m, s) /\ PsyncAccepted(m, s)
  /\ conn' = [conn EXCEPT ![s].cmds = Tail(@), ![s].replstate = "ONLINE",
                ![s].in = @ \o <<Line("CONTINUE")>> \o BacklogFrom(m, Cmd(s).off)]
  /\ UNCHANGED <<writes, faults, serverVars, slaveVars>>

\* The first slave creates the backlog.
CreateBacklog(m) ==
  IF HasBacklog(m) \/ Slaves(m) # {} THEN UNCHANGED <<mro, backlog>>
  ELSE /\ mro' = [mro EXCEPT ![m] = @ + 1]
       /\ backlog' = [backlog EXCEPT ![m] = <<>>]

\* What PSYNC is answered before the full resynchronization starts.
FullReply(m, s) ==
  IF Cmd(s).name = "PSYNC" THEN <<FullLine(Run(m), FullOffset(m))>> ELSE <<>>

AttachSlave(m, s, st, ob) ==
  /\ conn' = [conn EXCEPT ![s].cmds = Tail(@), ![s].replstate = st, ![s].obuf = ob,
                          ![s].in = @ \o FullReply(m, s)]
  /\ CreateBacklog(m)

\* A child is saving: the slave shares its snapshot and the differences
\* registered for another slave, or waits for the next BGSAVE.
SyncDuringBgsave(m, s) ==
  /\ SyncServed(m, s) /\ ~PsyncAccepted(m, s)
  /\ child[m] # NoChild /\ OverlapBgsave
  /\ LET waiting == {x \in Slaves(m) : conn[x].replstate = "WAIT_BGSAVE_END"}
     IN  IF waiting # {}
         THEN \E x \in waiting : AttachSlave(m, s, "WAIT_BGSAVE_END", conn[x].obuf)
         ELSE AttachSlave(m, s, "WAIT_BGSAVE_START", <<>>)
  /\ UNCHANGED <<writes, faults, data, rdbfile, child, runid, slaveVars>>

SyncStartsBgsave(m, s) ==
  /\ SyncServed(m, s) /\ ~PsyncAccepted(m, s)
  /\ child[m] = NoChild
  /\ child' = [child EXCEPT ![m] = data[m]]
  /\ AttachSlave(m, s, "WAIT_BGSAVE_END", <<>>)
  /\ UNCHANGED <<writes, faults, data, rdbfile, runid, slaveVars>>

\* rdbSaveBackground fails: an error follows, and the client is no slave.
SyncForkFails(m, s) ==
  /\ SyncServed(m, s) /\ ~PsyncAccepted(m, s)
  /\ child[m] = NoChild
  /\ Fault("fork")
  /\ conn' = [conn EXCEPT ![s].cmds = Tail(@),
                          ![s].in = @ \o FullReply(m, s) \o <<Line("ERR")>>]
  /\ UNCHANGED <<writes, serverVars, slaveVars>>

\* BGSAVE, or a save point reached in serverCron.
Bgsave(m) ==
  /\ OverlapBgsave /\ ~Blocked(m) /\ child[m] = NoChild
  /\ child' = [child EXCEPT ![m] = data[m]]
  /\ UNCHANGED <<writes, faults, data, rdbfile, runid, mro, backlog, slaveVars, conn>>

\* updateSlavesWaitingBgsave, for one connection: ok is the child's status.
AfterBgsave(m, cx, ok, file) ==
  IF cx.to # m THEN cx
  ELSE CASE cx.replstate = "WAIT_BGSAVE_START" -> [cx EXCEPT !.replstate = "WAIT_BGSAVE_END"]
         [] cx.replstate = "WAIT_BGSAVE_END" /\ ok
              -> [cx EXCEPT !.replstate = "SEND_BULK", !.snap = file]
         [] cx.replstate = "WAIT_BGSAVE_END" /\ ~ok
              -> [cx EXCEPT !.replstate = "NONE", !.up = FALSE, !.obuf = <<>>]
         [] OTHER -> cx

\* Mutant: no BGSAVE is started for the slaves that wait for one.
NoStartbgsave(m) == FALSE

Startbgsave(m) == \E x \in Slaves(m) : conn[x].replstate = "WAIT_BGSAVE_START"

\* backgroundSaveDoneHandler.  A new child is forked for the slaves that
\* were waiting for it; when that fails they are left as they are.
BgsaveDone(m, ok) ==
  /\ ~Blocked(m) /\ child[m] # NoChild
  /\ rdbfile' = IF ok THEN [rdbfile EXCEPT ![m] = child[m]] ELSE rdbfile
  /\ conn' = [x \in Servers |-> AfterBgsave(m, conn[x], ok, child[m])]
  /\ \/ /\ Startbgsave(m)
        /\ child' = [child EXCEPT ![m] = data[m]]
        /\ IF ok THEN UNCHANGED faults ELSE Fault("save")
     \/ /\ ~Startbgsave(m)
        /\ child' = [child EXCEPT ![m] = NoChild]
        /\ IF ok THEN UNCHANGED faults ELSE Fault("save")
     \/ /\ Startbgsave(m) /\ ok
        /\ child' = [child EXCEPT ![m] = NoChild]
        /\ Fault("fork")
  /\ UNCHANGED <<writes, data, runid, mro, backlog, slaveVars>>

\* sendBulkToSlave, to its end: then the differences follow.
SendBulk(m, s) ==
  /\ ~Blocked(m) /\ conn[s].to = m /\ conn[s].replstate = "SEND_BULK"
  /\ conn' = [conn EXCEPT ![s].replstate = "ONLINE", ![s].obuf = <<>>, ![s].snap = <<>>,
                ![s].in = @ \o <<Bulk(conn[s].snap)>>
                            \o [i \in DOMAIN conn[s].obuf |-> Unit(conn[s].obuf[i])]]
  /\ UNCHANGED <<writes, faults, serverVars, slaveVars>>

\* freeReplicationBacklog, after a time without slaves.
FreeBacklog(m) ==
  /\ ~Blocked(m) /\ HasBacklog(m) /\ Slaves(m) = {} /\ mro[m] < MaxOffset
  /\ backlog' = [backlog EXCEPT ![m] = NoBacklog]
  /\ UNCHANGED <<writes, faults, data, rdbfile, child, runid, mro, slaveVars, conn>>

----------------------------------------------------------------------------
(* Closing connections.                                                    *)

\* The connections after the master's end of those in S is closed.  What
\* the slave could read already it still can; the output buffer is lost.
ClosedByMaster(cn, S) ==
  [x \in Servers |-> IF x \in S
                     THEN [cn[x] EXCEPT !.up = FALSE, !.cmds = <<>>, !.replstate = "NONE",
                                        !.obuf = <<>>, !.snap = <<>>]
                     ELSE cn[x]]

\* A master frees a slave: timeout, output buffer limit, I/O error.
DropSlave(m, s) ==
  /\ ~Blocked(m) /\ s \in Slaves(m)
  /\ Fault("link")
  /\ conn' = ClosedByMaster(conn, {s})
  /\ UNCHANGED <<writes, serverVars, slaveVars>>

\* Mutant: only the loss of an established link leads to a new attempt.
CloseLinkNoRetry(s) ==
  /\ repl_state' = [repl_state EXCEPT ![s] = IF @ = "CONNECTED" THEN "CONNECT" ELSE @]
  /\ master' = IF Blocked(s) THEN [master EXCEPT ![s] = NoMaster] ELSE master
  /\ conn' = [(IF repl_state[s] = "CONNECTED" THEN ClosedByMaster(conn, Slaves(s)) ELSE conn)
                EXCEPT ![s] = NoConn]
  /\ UNCHANGED <<writes, serverVars, masterhost, full>>

\* The slave's end is closed in state CONNECTED: the master client is
\* cached, and replicationHandleMasterDisconnection disconnects the slaves.
\* In the other states the attempt is over; while blocked on the reply to
\* PSYNC that also discards the cached master.
CloseLink(s) ==
  /\ repl_state' = [repl_state EXCEPT ![s] = "CONNECT"]
  /\ master' = IF Blocked(s) THEN [master EXCEPT ![s] = NoMaster] ELSE master
  /\ conn' = [(IF repl_state[s] = "CONNECTED" THEN ClosedByMaster(conn, Slaves(s)) ELSE conn)
                EXCEPT ![s] = NoConn]
  /\ UNCHANGED <<writes, serverVars, masterhost, full>>

\* The link breaks: a timeout of replicationCron, an I/O error.
LoseMaster(s) ==
  /\ conn[s].to # None /\ conn[s].up
  /\ Fault("link")
  /\ CloseLink(s)

\* The master has closed the connection and all it sent has been read.
SeeClosed(s) ==
  /\ conn[s].to # None /\ ~conn[s].up /\ conn[s].in = <<>>
  /\ CloseLink(s)
  /\ UNCHANGED faults

----------------------------------------------------------------------------
(* The slave: replicationCron, syncWithMaster, readSyncBulkPayload.        *)

ConnectWithMaster(s) ==
  /\ repl_state[s] = "CONNECT"
  /\ repl_state' = [repl_state EXCEPT ![s] = "CONNECTING"]
  /\ conn' = [conn EXCEPT ![s] = [NoConn EXCEPT !.to = masterhost[s], !.up = TRUE]]
  /\ UNCHANGED <<writes, faults, serverVars, masterhost, master, full>>

\* The connection is established, PING is sent.
SendPing(s) ==
  /\ repl_state[s] = "CONNECTING" /\ conn[s].up
  /\ repl_state' = [repl_state EXCEPT ![s] = "RECEIVE_PONG"]
  /\ UNCHANGED <<writes, faults, serverVars, masterhost, master, full, conn>>

\* The master answered; PSYNC is sent with the cached master's position, or
\* with "? -1".
SendPsync(s) ==
  /\ repl_state[s] = "RECEIVE_PONG" /\ conn[s].up
  /\ repl_state' = [repl_state EXCEPT ![s] = "PSYNC"]
  /\ full' = [full EXCEPT ![s].off = -1]
  /\ conn' = [conn EXCEPT ![s].cmds = Append(@, Psync(master[s]))]
  /\ UNCHANGED <<writes, faults, serverVars, masterhost, master>>

\* +FULLRESYNC
ReplyFull(s) ==
  /\ Blocked(s) /\ conn[s].in # <<>> /\ Head(conn[s].in).t = "FULLRESYNC"
  /\ full' = [full EXCEPT ![s] = [run |-> Head(conn[s].in).run, off |-> Head(conn[s].in).off]]
  /\ master' = [master EXCEPT ![s] = NoMaster]
  /\ repl_state' = [repl_state EXCEPT ![s] = "TRANSFER"]
  /\ conn' = [conn EXCEPT ![s].in = Tail(@)]
  /\ UNCHANGED <<writes, faults, serverVars, masterhost>>

\* +CONTINUE: the cached master is the master again.
ReplyContinue(s) ==
  /\ Blocked(s) /\ conn[s].in # <<>> /\ Head(conn[s].in).t = "CONTINUE"
  /\ repl_state' = [repl_state EXCEPT ![s] = "CONNECTED"]
  /\ conn' = [conn EXCEPT ![s].in = Tail(@)]
  /\ UNCHANGED <<writes, faults, serverVars, masterhost, master, full>>

\* An error: the cached master is discarded and SYNC is sent on the same
\* connection.
FallBackToSync(s) ==
  /\ Blocked(s) /\ conn[s].in # <<>> /\ Head(conn[s].in).t = "ERR"
  /\ master' = [master EXCEPT ![s] = NoMaster]
  /\ repl_state' = [repl_state EXCEPT ![s] = "TRANSFER"]
  /\ conn' = [conn EXCEPT ![s].in = Tail(@), ![s].cmds = Append(@, Sync)]
  /\ UNCHANGED <<writes, faults, serverVars, masterhost, full>>

\* No reply within repl_syncio_timeout: the same, but the reply will come,
\* in the place of the bulk (AbortTransfer).
PsyncTimeout(s) ==
  /\ Blocked(s) /\ conn[s].up /\ conn[s].in = <<>>
  /\ Fault("timeout")
  /\ master' = [master EXCEPT ![s] = NoMaster]
  /\ repl_state' = [repl_state EXCEPT ![s] = "TRANSFER"]
  /\ conn' = [conn EXCEPT ![s].cmds = Append(@, Sync)]
  /\ UNCHANGED <<writes, serverVars, masterhost, full>>

\* The whole bulk is read and loaded.
ReadBulk(s) ==
  /\ repl_state[s] = "TRANSFER" /\ conn[s].in # <<>> /\ Head(conn[s].in).t = "bulk"
  /\ data' = [data EXCEPT ![s] = Head(conn[s].in).data]
  /\ rdbfile' = [rdbfile EXCEPT ![s] = Head(conn[s].in).data]
  /\ master' = [master EXCEPT ![s] = [run |-> full[s].run, off |-> full[s].off,
                                       pre |-> full[s].off = -1]]
  /\ repl_state' = [repl_state EXCEPT ![s] = "CONNECTED"]
  /\ conn' = [conn EXCEPT ![s].in = Tail(@)]
  /\ UNCHANGED <<writes, faults, child, runid, mro, backlog, masterhost, full>>

\* Anything else than the bulk aborts the transfer.
AbortTransfer(s) ==
  /\ repl_state[s] = "TRANSFER" /\ conn[s].in # <<>> /\ Head(conn[s].in).t # "bulk"
  /\ CloseLink(s)
  /\ UNCHANGED faults

----------------------------------------------------------------------------
(* SLAVEOF and faults.                                                   *)

ReplicationSetMaster(s, m) ==
  /\ <<s, m>> \in SlaveofCommands
  /\ ~Blocked(s) /\ masterhost[s] # m
  /\ masterhost' = [masterhost EXCEPT ![s] = m]
  /\ repl_state' = [repl_state EXCEPT ![s] = "CONNECT"]
  /\ master' = [master EXCEPT ![s] = NoMaster]
  /\ conn' = [ClosedByMaster(conn, Slaves(s)) EXCEPT ![s] = NoConn]
  /\ backlog' = [backlog EXCEPT ![s] = NoBacklog]
  /\ mro' = [mro EXCEPT ![s] = 0]
  /\ UNCHANGED <<writes, faults, data, rdbfile, child, runid, full>>

\* The slaves stay; without slaves the offset of the master is inherited.
ReplicationUnsetMaster(s) ==
  /\ <<s, None>> \in SlaveofCommands
  /\ ~Blocked(s) /\ masterhost[s] # None
  /\ masterhost' = [masterhost EXCEPT ![s] = None]
  /\ repl_state' = [repl_state EXCEPT ![s] = "NONE"]
  /\ master' = [master EXCEPT ![s] = NoMaster]
  /\ conn' = [conn EXCEPT ![s] = NoConn]
  /\ IF repl_state[s] = "CONNECTED" /\ Slaves(s) = {}
     THEN /\ mro' = [mro EXCEPT ![s] = master[s].off]
          /\ backlog' = [backlog EXCEPT ![s] = NoBacklog]
     ELSE UNCHANGED <<mro, backlog>>
  /\ UNCHANGED <<writes, faults, data, rdbfile, child, runid, full>>

\* The process dies and is started again from its RDB file.
Restart(s) ==
  /\ Fault("restart")
  /\ data' = [data EXCEPT ![s] = rdbfile[s]]
  /\ child' = [child EXCEPT ![s] = NoChild]
  /\ runid' = [runid EXCEPT ![s] = @ + 1]
  /\ mro' = [mro EXCEPT ![s] = 0]
  /\ backlog' = [backlog EXCEPT ![s] = NoBacklog]
  /\ repl_state' = [repl_state EXCEPT ![s] = IF masterhost[s] = None THEN "NONE" ELSE "CONNECT"]
  /\ master' = [master EXCEPT ![s] = NoMaster]
  /\ full' = [full EXCEPT ![s] = NoFull]
  /\ conn' = [ClosedByMaster(conn, {x \in Servers : conn[x].to = s}) EXCEPT ![s] = NoConn]
  /\ UNCHANGED <<writes, rdbfile, masterhost>>

----------------------------------------------------------------------------
SyncCommand(m, s) ==
  \/ SyncIgnored(m, s) \/ SyncRefused(m, s) \/ SyncPartial(m, s)
  \/ SyncDuringBgsave(m, s) \/ SyncStartsBgsave(m, s) \/ SyncForkFails(m, s)

SlaveStep(s) ==
  \/ ReadUnit(s) \/ ConnectWithMaster(s) \/ SendPing(s) \/ SendPsync(s)
  \/ ReplyFull(s) \/ ReplyContinue(s) \/ FallBackToSync(s)
  \/ ReadBulk(s) \/ AbortTransfer(s) \/ SeeClosed(s)

Step ==
  \/ \E s \in Servers : Write(s) \/ SlaveStep(s) \/ LoseMaster(s) \/ PsyncTimeout(s)
  \/ \E m, s \in Servers : SyncCommand(m, s) \/ SendBulk(m, s) \/ DropSlave(m, s)
  \/ \E m \in Servers : Bgsave(m) \/ FreeBacklog(m) \/ (\E ok \in BOOLEAN : BgsaveDone(m, ok))
  \/ \E s, m \in Servers : ReplicationSetMaster(s, m)
  \/ \E s \in Servers : ReplicationUnsetMaster(s) \/ Restart(s)

Next == Step /\ UNCHANGED setup

Spec == Init /\ [][Next]_vars

\* The event loops run, the sockets deliver and a child ends: replicationCron
\* retries once a second and every other step answers a readable or writable
\* event.  Nothing is assumed of clients, faults or timeouts.
Nodes == UNION {DOMAIN u.initialMaster : u \in Setups}
SlaveSide(s)      == s \in Servers /\ SlaveStep(s) /\ UNCHANGED setup
AnswerSync(m, s)  == {m, s} \subseteq Servers /\ SyncCommand(m, s) /\ UNCHANGED setup
BulkWritable(m, s) == {m, s} \subseteq Servers /\ SendBulk(m, s) /\ UNCHANGED setup
ChildEnds(m)      == m \in Servers /\ BgsaveDone(m, TRUE) /\ UNCHANGED setup

Fairness ==
  /\ \A s \in Nodes : WF_vars(SlaveSide(s)) /\ WF_vars(ChildEnds(s))
  /\ \A m, s \in Nodes : WF_vars(AnswerSync(m, s)) /\ WF_vars(BulkWritable(m, s))

FairSpec == Spec /\ Fairness

----------------------------------------------------------------------------
(* Properties.                                                             *)

Writes   == 1 .. MaxWrites
Runs     == {NoRun} \cup (Servers \X Nat)
Lines    == [t : {"FULLRESYNC", "CONTINUE", "ERR", "bulk", "unit"},
             run : Runs, off : Int, data : Seq(Writes)]

\* Every variable has its type.
TypeOK ==
  /\ setup \in Setups
  /\ writes \in 0 .. MaxWrites /\ faults \in 0 .. MaxFaults
  /\ data \in [Servers -> Seq(Writes)]
  /\ rdbfile \in [Servers -> Seq(Writes)]
  /\ \A s \in Servers : child[s] = NoChild \/ child[s] \in Seq(Writes)
  /\ runid \in [Servers -> Nat]
  /\ mro \in [Servers -> Int]
  /\ \A s \in Servers : HasBacklog(s) => backlog[s] \in Seq(Writes) /\ Len(backlog[s]) <= BacklogSize
  /\ masterhost \in [Servers -> Servers \cup {None}]
  /\ repl_state \in [Servers -> {"NONE", "CONNECT", "CONNECTING", "RECEIVE_PONG", "PSYNC",
                                 "TRANSFER", "CONNECTED"}]
  /\ master \in [Servers -> [run : Runs, off : Int, pre : BOOLEAN]]
  /\ full \in [Servers -> [run : Runs, off : Int]]
  /\ conn \in [Servers -> [to : Servers \cup {None}, up : BOOLEAN,
                           cmds : Seq([name : {"SYNC", "PSYNC"}, run : Runs, off : Int]),
                           in : Seq(Lines),
                           replstate : {"NONE", "WAIT_BGSAVE_START", "WAIT_BGSAVE_END",
                                        "SEND_BULK", "ONLINE"},
                           obuf : Seq(Writes), snap : Seq(Writes)]]

\* What the slave's data set becomes once it has read all that is in flight:
\* the snapshot, or what it holds, followed by the units.
Leads(q)    == {k \in 0 .. Len(q) : /\ k > 0 => q[k].t # "unit"
                                    /\ \A i \in k + 1 .. Len(q) : q[i].t = "unit"}
InFlight(s) == SubSeq(conn[s].in, (CHOOSE k \in Leads(conn[s].in) : TRUE) + 1, Len(conn[s].in))
Units(s)    == [i \in DOMAIN InFlight(s) |-> InFlight(s)[i].off]
InBulk(s)   == {i \in DOMAIN conn[s].in : conn[s].in[i].t = "bulk"}
Base(s)     == IF InBulk(s) = {} THEN data[s]
               ELSE conn[s].in[CHOOSE i \in InBulk(s) : TRUE].data

\* No write is lost, repeated or reordered on the way to an attached slave:
\* the snapshot it was or will be given, and the units registered or in
\* flight behind it, make exactly the master's data set.  This holds from
\* the start of the BGSAVE to the ONLINE state, and when a partial
\* resynchronization took the place of the snapshot.
Converges ==
  \A s \in Servers :
    LET m == conn[s].to
        c == conn[s]
    IN  /\ c.replstate = "WAIT_BGSAVE_END" => child[m] \o c.obuf = data[m]
        /\ c.replstate = "SEND_BULK" => c.snap \o c.obuf = data[m]
        /\ c.replstate = "ONLINE" => Base(s) \o Units(s) = data[m]

\* The position of a slave connected by PSYNC, with the units in flight, is its
\* master's: the run id and offset a later PSYNC will ask for.  Not where a
\* slave asks for a full resynchronization during a BGSAVE.
OffsetsAgree ==
  OverlapBgsave \/ \A s \in Servers :
    conn[s].replstate = "ONLINE" /\ repl_state[s] = "CONNECTED" /\ ~master[s].pre
      => /\ master[s].run = Run(conn[s].to)
         /\ master[s].off + Len(InFlight(s)) = mro[conn[s].to]

\* A server whose own link with its master is down has no slaves (nobody is
\* fed a data set about to be replaced), a server with slaves has a backlog
\* (the assertion of replicationFeedSlaves), and a slave that waits for the
\* end of a BGSAVE waits for one that is running.
SlavesServed ==
  \A m \in Servers : Slaves(m) # {} =>
    /\ HasBacklog(m)
    /\ masterhost[m] # None => repl_state[m] = "CONNECTED"
    /\ (\E s \in Slaves(m) : conn[s].replstate \in {"WAIT_BGSAVE_START", "WAIT_BGSAVE_END"})
         => child[m] # NoChild

\* When faults have stopped, every slave ends connected, with its master's
\* data set.
InSync ==
  \A s \in Servers : masterhost[s] # None =>
    repl_state[s] = "CONNECTED" /\ data[s] = data[masterhost[s]]
EventuallyInSync == <>[]InSync
=============================================================================
