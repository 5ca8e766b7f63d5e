------------------------------- MODULE Multi -------------------------------
(***************************************************************************)
(* MULTI / EXEC / WATCH (multi.c), the refusals of processCommand and the  *)
(* propagation done by call (redis.c), and the hooks of db.c that dirty a  *)
(* watching client.                                                        *)
(*                                                                         *)
(* The server is single threaded: a command is one step, except EXEC,      *)
(* during which nothing else runs: the MULTI that its loop propagates, and *)
(* the call of each queued command, are steps of their own, since the      *)
(* lookup in a call may expire a key and propagate a DEL between the two.  *)
(*                                                                         *)
(* The propagated stream (AOF and replication link carry the same one) is  *)
(* not stored: "replica" is the state of a reader that executes it as it   *)
(* is written.  A reader inside MULTI queues what it reads; the queue is   *)
(* kept as its effect on a working copy of the data set, "pdict".          *)
(***************************************************************************)
EXTENDS Integers, Sequences, FiniteSets

CONSTANTS Clients,      \* connection slots
          DBs,          \* database indexes
          Keys, Values,
          Ops,          \* the data commands that clients issue
          Conditions,   \* the server conditions that may refuse a command
          Drops,        \* whether keys expire or are evicted
          MaxQueue,     \* bound: commands queued by one MULTI
          MaxDirty,     \* bound: no write is started above this server.dirty
          NoClient, NoVal

AllOps == {"set", "get", "del", "flushdb", "flushall", "move", "select",
           "unwatch", "save"}
AllConditions == {"noauth", "oom", "misconf", "noreplicas", "readonly",
                  "masterdown", "loading", "slowscript"}

ASSUME ConstantsAssumption ==
  /\ IsFiniteSet(DBs) /\ 0 \in DBs
  /\ IsFiniteSet(Keys) /\ Keys # {}
  /\ Values # {} /\ NoVal \notin Values
  /\ NoClient \notin Clients
  /\ Ops \subseteq AllOps
  /\ Conditions \subseteq AllConditions
  /\ Drops \in BOOLEAN
  /\ MaxQueue \in Nat /\ MaxDirty \in Nat

WKeys    == DBs \X Keys          \* a watchedKey: (db, key)
Datasets == [WKeys -> Values \cup {NoVal}]

VARIABLES
  clients,       \* server.clients
  db,            \* c->db
  flags,         \* c->flags
  mstate,        \* c->mstate
  watched,       \* c->watched_keys
  watched_keys,  \* db->watched_keys: key -> clients
  dict,          \* the key spaces, all databases
  dirty,         \* server.dirty
  cond,          \* the refusing conditions that hold now
  exec,          \* the running EXEC: client, next index, MULTI propagated,
                 \* server.dirty before it
  slaveseldb,    \* server.slaveseldb / aof_selected_db
  replica,       \* the reader of the propagated stream
  touched,       \* history: watched keys whose content changed since WATCH
  refused        \* history: a command was refused since MULTI

vars == <<clients, db, flags, mstate, watched, watched_keys, dict, dirty, cond,
          exec, slaveseldb, replica, touched, refused>>

clientVars == <<clients, db, mstate>>
watchVars  == <<watched, watched_keys>>
linkVars   == <<slaveseldb, replica>>

----------------------------------------------------------------------------
(* The command table: the flags that processCommand and execCommand test.  *)

WriteOps    == {"set", "del", "flushdb", "flushall", "move"}
DenyOomOps  == {"set"}
LoadingOps  == {"select"}
ControlOps  == {"multi", "exec", "discard", "watch"}
ReadOnlyOps == {"get", "select", "unwatch", "save"}
KeyedOps    == {"set", "get", "del", "move"}
DbOps       == {"select", "move"}

\* A command and its arguments; an argument it does not take is fixed.
Commands ==
  {m \in [op : Ops, key : Keys, val : Values, db : DBs] :
     /\ m.op \notin KeyedOps => m.key = CHOOSE k \in Keys : TRUE
     /\ m.op # "set" => m.val = CHOOSE v \in Values : TRUE
     /\ m.op \notin DbOps => m.db = 0}

Idle == exec.client = NoClient
Exists(ds, wk) == ds[wk] # NoVal
InDb(d) == {wk \in WKeys : wk[1] = d}
NumKeys(ds, S) == Cardinality({wk \in S : Exists(ds, wk)})

----------------------------------------------------------------------------
(* What a command's proc does, for a client whose database is d.           *)

\* moveCommand goes on past its early returns.
Moves(m, d, ds) ==
  /\ m.op = "move" /\ m.db # d
  /\ Exists(ds, <<d, m.key>>) /\ ~Exists(ds, <<m.db, m.key>>)

\* The data set after the command.
Effect(m, d, ds) ==
  CASE m.op = "set"      -> [ds EXCEPT ![<<d, m.key>>] = m.val]
    [] m.op = "del"      -> [ds EXCEPT ![<<d, m.key>>] = NoVal]
    [] m.op = "flushdb"  -> [wk \in WKeys |-> IF wk \in InDb(d) THEN NoVal ELSE ds[wk]]
    [] m.op = "flushall" -> [wk \in WKeys |-> NoVal]
    [] Moves(m, d, ds)   -> [ds EXCEPT ![<<m.db, m.key>>] = ds[<<d, m.key>>],
                                       ![<<d, m.key>>] = NoVal]
    [] OTHER             -> ds

\* Mutant: a key that did not exist is not signalled.
SignalledIfExists(m, d, ds) ==
  IF m.op \in {"set", "del"} /\ Exists(ds, <<d, m.key>>) THEN {<<d, m.key>>} ELSE {}

\* The keys passed to signalModifiedKey.  moveCommand calls it for none.
Signalled(m, d, ds) ==
  IF m.op = "set" \/ (m.op = "del" /\ Exists(ds, <<d, m.key>>))
  THEN {<<d, m.key>>} ELSE {}

\* The keys that touchWatchedKeysOnFlush looks for in every client's list:
\* those present before the flush.
Flushed(m, d, ds) ==
  {wk \in WKeys : /\ Exists(ds, wk)
                  /\ m.op = "flushall" \/ (m.op = "flushdb" /\ wk \in InDb(d))}

\* touchWatchedKey goes through the key's client list, the flush hook
\* through each client's own list.
TouchedClients(m, d, ds) ==
  {c \in clients : \/ \E wk \in Signalled(m, d, ds) : c \in watched_keys[wk]
                   \/ watched[c] \cap Flushed(m, d, ds) # {}}

\* server.dirty after the command.  rdbSave, under SAVE, resets it; under
\* FLUSHALL it is put back.
DirtyAfter(m, d, ds) ==
  CASE m.op = "set"      -> dirty + 1
    [] m.op = "del"      -> dirty + NumKeys(ds, {<<d, m.key>>})
    [] m.op = "flushdb"  -> dirty + NumKeys(ds, InDb(d))
    [] m.op = "flushall" -> dirty + NumKeys(ds, WKeys) + 1
    [] m.op = "save"     -> 0
    [] Moves(m, d, ds)   -> dirty + 1
    [] OTHER             -> dirty

----------------------------------------------------------------------------
(* Propagation.  The reader executes each command it receives in the       *)
(* database it has selected, or queues it after a MULTI.                   *)

ReplicaApply(r, m) ==
  LET queued == Effect(m, r.db, r.pdict)
  IN  [r EXCEPT !.pdict = queued, !.dict = IF r.multi THEN @ ELSE queued]

\* A SELECT goes first when the stream's database is not the command's.
Selected(r, d) == IF slaveseldb = d THEN r ELSE [r EXCEPT !.db = d]

ReplicaMulti(r) == [r EXCEPT !.multi = TRUE]

ReplicaExec(r) == [r EXCEPT !.multi = FALSE, !.dict = r.pdict]

----------------------------------------------------------------------------
(* History.                                                                *)

Changed(c, ds, new) == {wk \in watched[c] : new[wk] # ds[wk]}
NoteChanges == touched' = [c \in Clients |-> touched[c] \cup Changed(c, dict, dict')]

----------------------------------------------------------------------------
Init ==
  /\ clients = {}
  /\ db = [c \in Clients |-> 0]
  /\ flags = [c \in Clients |-> {}]
  /\ mstate = [c \in Clients |-> <<>>]
  /\ watched = [c \in Clients |-> {}]
  /\ watched_keys = [wk \in WKeys |-> {}]
  /\ dict = [wk \in WKeys |-> NoVal]
  /\ dirty = 0
  /\ cond = {}
  /\ exec = [client |-> NoClient, j |-> 1, must_propagate |-> FALSE, dirty |-> 0]
  /\ \E d \in DBs :
       /\ slaveseldb = d
       /\ replica = [multi |-> FALSE, db |-> d, dict |-> dict, pdict |-> dict]
  /\ touched = [c \in Clients |-> {}]
  /\ refused = [c \in Clients |-> FALSE]

----------------------------------------------------------------------------
(* Connections.                                                            *)

\* createClient
Connect(c) ==
  /\ Idle /\ c \notin clients
  /\ clients' = clients \cup {c}
  /\ db' = [db EXCEPT ![c] = 0]
  /\ UNCHANGED <<flags, mstate, watchVars, dict, dirty, cond, exec, linkVars,
                 touched, refused>>

\* Mutant: the client stays in the lists of the keys.
UnwatchOneSide(c) ==
  watched' = [watched EXCEPT ![c] = {}] /\ UNCHANGED watched_keys

\* unwatchAllKeys, both sides
Unwatch(c) ==
  /\ watched' = [watched EXCEPT ![c] = {}]
  /\ watched_keys' = [wk \in WKeys |-> IF wk \in watched[c]
                                        THEN watched_keys[wk] \ {c}
                                        ELSE watched_keys[wk]]

\* freeClient, of a client that is not a master: the slot is free again
FreeClient(c) ==
  /\ Idle /\ c \in clients
  /\ clients' = clients \ {c}
  /\ Unwatch(c)
  /\ flags' = [flags EXCEPT ![c] = {}]
  /\ mstate' = [mstate EXCEPT ![c] = <<>>]
  /\ touched' = [touched EXCEPT ![c] = {}]
  /\ refused' = [refused EXCEPT ![c] = FALSE]
  /\ UNCHANGED <<db, dict, dirty, cond, exec, linkVars>>

----------------------------------------------------------------------------
(* processCommand: refusals.                                               *)

\* Mutant: refusals do not flag the transaction.
FlagNothing(c) == UNCHANGED flags

FlagTransaction(c) ==
  flags' = [flags EXCEPT ![c] = IF "MULTI" \in @ THEN @ \cup {"DIRTY_EXEC"} ELSE @]

\* The checks of processCommand that the command fails now ...
Refusals(op) ==
  {r \in cond : \/ r \in {"noauth", "slowscript"}
                \/ (r = "oom" /\ op \in DenyOomOps)
                \/ (r \in {"misconf", "noreplicas", "readonly"} /\ op \in WriteOps)
                \/ r = "masterdown"
                \/ (r = "loading" /\ op \notin LoadingOps)}

\* ... of which the first in this order answers.
RefusalOrder == <<"noauth", "oom", "misconf", "noreplicas", "readonly",
                  "masterdown", "loading", "slowscript">>
Refusal(op) ==
  LET i == CHOOSE i \in 1 .. Len(RefusalOrder) :
             /\ RefusalOrder[i] \in Refusals(op)
             /\ \A j \in 1 .. i - 1 : RefusalOrder[j] \notin Refusals(op)
  IN  RefusalOrder[i]

\* The refusals that call flagTransaction.
FlaggingRefusals == {"noauth", "oom", "misconf", "noreplicas", "masterdown", "slowscript"}

NoteRefused(c, op) ==
  refused' = IF "MULTI" \in flags[c] /\ op \notin ControlOps
             THEN [refused EXCEPT ![c] = TRUE] ELSE refused

Refuse(c, op) ==
  /\ Idle /\ c \in clients
  /\ Refusals(op) # {}
  /\ IF Refusal(op) \in FlaggingRefusals THEN FlagTransaction(c) ELSE UNCHANGED flags
  /\ NoteRefused(c, op)
  /\ UNCHANGED <<clientVars, watchVars, dict, dirty, cond, exec, linkVars, touched>>

\* An unknown command, or a wrong number of arguments.
BadCommand(c) ==
  /\ Idle /\ c \in clients
  /\ FlagTransaction(c)
  /\ NoteRefused(c, "bad")
  /\ UNCHANGED <<clientVars, watchVars, dict, dirty, cond, exec, linkVars, touched>>

\* The command of a connected client passes every check.
Accepted(c, op) == Idle /\ c \in clients /\ Refusals(op) = {}

----------------------------------------------------------------------------
(* The commands of multi.c.  Those that only answer with an error (nested  *)
(* MULTI, EXEC or DISCARD without MULTI, WATCH inside MULTI) change        *)
(* nothing and are stuttering steps.                                       *)

MultiCommand(c) ==
  /\ Accepted(c, "multi") /\ "MULTI" \notin flags[c]
  /\ flags' = [flags EXCEPT ![c] = @ \cup {"MULTI"}]
  /\ refused' = [refused EXCEPT ![c] = FALSE]
  /\ UNCHANGED <<clientVars, watchVars, dict, dirty, cond, exec, linkVars, touched>>

\* Mutant: DIRTY_CAS survives the transaction.
DiscardKeepsCas(c) ==
  /\ mstate' = [mstate EXCEPT ![c] = <<>>]
  /\ flags' = [flags EXCEPT ![c] = @ \ {"MULTI", "DIRTY_EXEC"}]
  /\ Unwatch(c)
  /\ touched' = [touched EXCEPT ![c] = {}]
  /\ refused' = [refused EXCEPT ![c] = FALSE]

\* discardTransaction
DiscardTransaction(c) ==
  /\ mstate' = [mstate EXCEPT ![c] = <<>>]
  /\ flags' = [flags EXCEPT ![c] = @ \ {"MULTI", "DIRTY_CAS", "DIRTY_EXEC"}]
  /\ Unwatch(c)
  /\ touched' = [touched EXCEPT ![c] = {}]
  /\ refused' = [refused EXCEPT ![c] = FALSE]

DiscardCommand(c) ==
  /\ Accepted(c, "discard") /\ "MULTI" \in flags[c]
  /\ DiscardTransaction(c)
  /\ UNCHANGED <<clients, db, dict, dirty, cond, exec, linkVars>>

\* watchForKey, for each argument, in the client's database
WatchCommand(c, ks) ==
  /\ Accepted(c, "watch") /\ "MULTI" \notin flags[c]
  /\ LET new == {<<db[c], k>> : k \in ks} \ watched[c]
     IN  /\ watched' = [watched EXCEPT ![c] = @ \cup new]
         /\ watched_keys' = [wk \in WKeys |-> IF wk \in new
                                               THEN watched_keys[wk] \cup {c}
                                               ELSE watched_keys[wk]]
  /\ UNCHANGED <<clientVars, flags, dict, dirty, cond, exec, linkVars, touched, refused>>

----------------------------------------------------------------------------
(* call.                                                                   *)

\* The command's own changes and its propagation, when server.dirty grew.
Call(c, m) ==
  LET d     == db[c]
      after == DirtyAfter(m, d, dict)
  IN  /\ dict' = Effect(m, d, dict)
      /\ dirty' = after
      /\ db' = IF m.op = "select" THEN [db EXCEPT ![c] = m.db] ELSE db
      /\ flags' = [x \in Clients |->
            IF x = c /\ m.op = "unwatch" THEN flags[x] \ {"DIRTY_CAS"}
            ELSE IF x \in TouchedClients(m, d, dict) THEN flags[x] \cup {"DIRTY_CAS"}
            ELSE flags[x]]
      /\ IF m.op = "unwatch" THEN Unwatch(c) ELSE UNCHANGED watchVars
      /\ touched' = IF m.op = "unwatch" THEN [touched EXCEPT ![c] = {}]
                    ELSE [x \in Clients |-> touched[x] \cup Changed(x, dict, Effect(m, d, dict))]

\* Propagation to the reader r of a command run in database d.
Propagated(r, m, d) == ReplicaApply(Selected(r, d), m)

\* A command outside MULTI.
CallCommand(c, m) ==
  /\ Accepted(c, m.op) /\ "MULTI" \notin flags[c] /\ dirty <= MaxDirty
  /\ Call(c, m)
  /\ IF DirtyAfter(m, db[c], dict) > dirty
     THEN /\ replica' = Propagated(replica, m, db[c])
          /\ slaveseldb' = db[c]
     ELSE UNCHANGED linkVars
  /\ UNCHANGED <<clients, mstate, cond, exec, refused>>

\* queueMultiCommand
QueueMultiCommand(c, m) ==
  /\ Accepted(c, m.op) /\ "MULTI" \in flags[c]
  /\ Len(mstate[c]) < MaxQueue
  /\ mstate' = [mstate EXCEPT ![c] = Append(@, m)]
  /\ UNCHANGED <<clients, db, flags, watchVars, dict, dirty, cond, exec, linkVars,
                 touched, refused>>

----------------------------------------------------------------------------
(* execCommand.                                                            *)

\* Some watched key was touched, or a command was refused.
ExecAbort(c) ==
  /\ Accepted(c, "exec") /\ "MULTI" \in flags[c]
  /\ flags[c] \cap {"DIRTY_CAS", "DIRTY_EXEC"} # {}
  /\ DiscardTransaction(c)
  /\ UNCHANGED <<clients, db, dict, dirty, cond, exec, linkVars>>

ExecBegin(c) ==
  /\ Accepted(c, "exec") /\ "MULTI" \in flags[c] /\ dirty <= MaxDirty
  /\ flags[c] \cap {"DIRTY_CAS", "DIRTY_EXEC"} = {}
  /\ Unwatch(c)
  /\ touched' = [touched EXCEPT ![c] = {}]
  /\ exec' = [client |-> c, j |-> 1, must_propagate |-> FALSE, dirty |-> dirty]
  /\ UNCHANGED <<clientVars, flags, dict, dirty, cond, linkVars, refused>>

\* The queued command that the loop has reached.
Queued(c) == mstate[c][exec.j]

\* execCommandPropagateMulti, before the first command that is not READONLY
ExecPropagateMulti(c) ==
  /\ exec.client = c /\ exec.j <= Len(mstate[c])
  /\ ~exec.must_propagate /\ Queued(c).op \notin ReadOnlyOps
  /\ exec' = [client |-> c, j |-> exec.j, dirty |-> exec.dirty, must_propagate |-> TRUE]
  /\ replica' = ReplicaMulti(Selected(replica, db[c]))
  /\ slaveseldb' = db[c]
  /\ UNCHANGED <<clientVars, flags, watchVars, dict, dirty, cond, touched, refused>>

\* The next command is in its call.
InCall(c) == /\ exec.client = c /\ exec.j <= Len(mstate[c])
             /\ exec.must_propagate \/ Queued(c).op \in ReadOnlyOps

\* The call of one queued command.
ExecStep(c) ==
  /\ InCall(c)
  /\ Call(c, Queued(c))
  /\ exec' = [client |-> c, j |-> exec.j + 1, dirty |-> exec.dirty,
              must_propagate |-> exec.must_propagate]
  /\ IF DirtyAfter(Queued(c), db[c], dict) > dirty
     THEN /\ replica' = Propagated(replica, Queued(c), db[c])
          /\ slaveseldb' = db[c]
     ELSE UNCHANGED linkVars
  /\ UNCHANGED <<clients, mstate, cond, refused>>

\* Mutant: MULTI was propagated and nothing makes EXEC follow.
DirtyNotBumped == dirty

\* server.dirty++ after the loop, if MULTI was propagated
DirtyAfterExec == IF exec.must_propagate THEN dirty + 1 ELSE dirty

\* After the loop; the call that runs EXEC propagates it when server.dirty grew.
ExecEnd(c) ==
  /\ exec.client = c /\ exec.j > Len(mstate[c])
  /\ DiscardTransaction(c)
  /\ dirty' = DirtyAfterExec
  /\ IF dirty' > exec.dirty
     THEN /\ replica' = ReplicaExec(Selected(replica, db[c]))
          /\ slaveseldb' = db[c]
     ELSE UNCHANGED linkVars
  /\ exec' = [client |-> NoClient, j |-> 1, must_propagate |-> FALSE, dirty |-> 0]
  /\ UNCHANGED <<clients, db, dict, cond>>

----------------------------------------------------------------------------
(* The rest of the server.                                                 *)

\* The keys that a command's proc looks up: moveCommand looks for its key in
\* the target database too, if the source is there.
LookedUp(m, d) ==
  {wk \in {<<d, m.key>>} : m.op \in KeyedOps}
    \cup {wk \in {<<m.db, m.key>>} : /\ m.op = "move" /\ m.db # d
                                     /\ Exists(dict, <<d, m.key>>)}

\* The lookup that may expire a key happens between commands (the expire
\* cycle, eviction, a command's lookup) or, inside EXEC, in the call of a
\* queued command: after the MULTI that goes before it.
MayDrop(wk) ==
  \/ Idle
  \/ \E c \in Clients : InCall(c) /\ wk \in LookedUp(Queued(c), db[c])

\* expireIfNeeded, activeExpireCycle, freeMemoryIfNeeded: the key is deleted
\* and a DEL propagated; watching clients are not touched.
DropKey(wk) ==
  /\ Drops /\ MayDrop(wk) /\ Exists(dict, wk)
  /\ dict' = [dict EXCEPT ![wk] = NoVal]
  /\ replica' = ReplicaApply(Selected(replica, wk[1]),
                  [op |-> "del", key |-> wk[2], val |-> NoVal, db |-> wk[1]])
  /\ slaveseldb' = wk[1]
  /\ NoteChanges
  /\ UNCHANGED <<clientVars, flags, watchVars, dirty, cond, exec, refused>>

\* SLAVEOF, CONFIG SET, memory, the disk, the link with the master, a slow
\* script: the conditions that processCommand tests change.
MasterConditions == {"misconf", "noreplicas"}
SlaveConditions  == {"readonly", "masterdown"}
ChangeConditions(s) ==
  /\ Idle
  /\ MasterConditions \cap s = {} \/ SlaveConditions \cap s = {}
  /\ cond' = s
  /\ UNCHANGED <<clientVars, flags, watchVars, dict, dirty, exec, linkVars, touched,
                 refused>>

\* Mutant: changes counted before the fork are subtracted once too often.
BgsaveDoneTwice(n) ==
  /\ Idle
  /\ dirty' = dirty - 2 * n
  /\ UNCHANGED <<clientVars, flags, watchVars, dict, cond, exec, linkVars, touched,
                 refused>>

\* backgroundSaveDoneHandler: server.dirty -= server.dirty_before_bgsave
BgsaveDone(n) ==
  /\ Idle
  /\ dirty' = dirty - n
  /\ UNCHANGED <<clientVars, flags, watchVars, dict, cond, exec, linkVars, touched,
                 refused>>

Next ==
  \/ \E c \in Clients :
       \/ Connect(c) \/ FreeClient(c)
       \/ \E op \in Ops \cup ControlOps : Refuse(c, op)
       \/ BadCommand(c)
       \/ MultiCommand(c) \/ DiscardCommand(c)
       \/ \E ks \in SUBSET Keys : WatchCommand(c, ks)
       \/ \E m \in Commands : CallCommand(c, m) \/ QueueMultiCommand(c, m)
       \/ ExecAbort(c) \/ ExecBegin(c) \/ ExecPropagateMulti(c) \/ ExecStep(c) \/ ExecEnd(c)
  \/ \E wk \in WKeys : DropKey(wk)
  \/ \E s \in SUBSET Conditions : ChangeConditions(s)
  \/ \E n \in 1 .. dirty : BgsaveDone(n)

Spec == Init /\ [][Next]_vars

----------------------------------------------------------------------------
(* Properties.                                                             *)

\* Every variable has its type.
TypeOK ==
  /\ clients \subseteq Clients
  /\ db \in [Clients -> DBs]
  /\ flags \in [Clients -> SUBSET {"MULTI", "DIRTY_CAS", "DIRTY_EXEC"}]
  /\ mstate \in [Clients -> Seq(Commands)]
  /\ watched \in [Clients -> SUBSET WKeys]
  /\ watched_keys \in [WKeys -> SUBSET Clients]
  /\ dict \in Datasets
  /\ dirty \in Nat
  /\ cond \subseteq Conditions
  /\ exec \in [client : Clients \cup {NoClient}, j : Nat \ {0},
               must_propagate : BOOLEAN, dirty : Nat]
  /\ slaveseldb \in DBs
  /\ replica \in [multi : BOOLEAN, db : DBs, dict : Datasets, pdict : Datasets]
  /\ touched \in [Clients -> SUBSET WKeys]
  /\ refused \in [Clients -> BOOLEAN]

\* The two sides of WATCH agree after any sequence of WATCH, UNWATCH, EXEC,
\* DISCARD and disconnections: the assertion of unwatchAllKeys holds, and no
\* key keeps a pointer to a client that was freed.
WatchTablesAgree ==
  /\ \A c \in Clients, wk \in WKeys : wk \in watched[c] <=> c \in watched_keys[wk]
  /\ \A wk \in WKeys : watched_keys[wk] \subseteq clients

\* A client is DIRTY_CAS as soon as a key it watches has changed, whichever
\* client and command, and whichever selected database, changed it.
WatchSound ==
  \A c \in clients : touched[c] # {} => "DIRTY_CAS" \in flags[c]

\* A client that watches nothing is not DIRTY_CAS: an abort has a cause, and
\* a flag never survives into the next transaction.
DirtyHasCause ==
  \A c \in clients : "DIRTY_CAS" \in flags[c] => watched[c] # {}

ExecRuns(c) == Idle /\ exec'.client = c

\* EXEC runs the queued commands only if no watched key changed since WATCH
\* and no command sent after MULTI was refused.
ExecOnlyIfClean ==
  [][\A c \in Clients : ExecRuns(c) => touched[c] = {} /\ ~refused[c]]_vars

\* A reader of the AOF or of the replication link has the server's data set
\* whenever no EXEC is running, and is inside MULTI exactly while the server
\* runs a transaction that has propagated MULTI: it sees all of a transaction
\* or nothing, in the right database.
ReplicaInStep ==
  /\ replica.multi = exec.must_propagate
  /\ replica.pdict = dict /\ replica.db = slaveseldb
  /\ ~replica.multi => replica.dict = dict

\* "Make sure the EXEC command will be propagated as well if MULTI was
\* already propagated" (execCommand): between commands, no reader of the
\* stream is inside MULTI.
ExecFollowsMulti == Idle => ~replica.multi
=============================================================================
