------------------------------ MODULE Keyspace ------------------------------
(***************************************************************************)
(* Databases with expiry and eviction (db.c, redis.c) on a master, and the *)
(* copy a slave makes of them: a slave never drops a key by itself, it     *)
(* waits for the DEL of its master.  Both execute the same commands; the   *)
(* slave does so late, with deadlines of its own.                          *)
(*                                                                         *)
(* A slot is a database and a key.  WATCH is in Multi, the stream in       *)
(* Replication: here each command reaches the slave as it is propagated.   *)
(***************************************************************************)
EXTENDS Integers, Sequences, FiniteSets, SequencesExt, FiniteSetsExt, TLC

CONSTANTS Dbs, Names, Absent, NoTime,
          MaxNow,      \* bound: of the clock
          Lag,         \* how much later the slave executes a command
          MaxMemory,   \* maxmemory, in keys
          Policies,    \* the values of maxmemory-policy
          Lookups,     \* ACTIVE_EXPIRE_CYCLE_LOOKUPS_PER_LOOP
          PerCall,     \* REDIS_DBCRON_DBS_PER_CALL
          Commands, Scripts  \* what clients send; the commands of a script

VARIABLES master, slave, \* [val, exp]: slot -> key it was set as, or Absent; deadline or NoTime
          now,
          cycle,         \* the statics of activeExpireCycle: [current_db, timelimit_exit]
          strayed        \* history: a command was executed whose effect cannot be propagated

keyspacevars == <<master, slave, now, cycle, strayed>>

Slots == Dbs \X Names
InDb(db) == {x \in Slots : x[1] = db}
Cmd(op, x, y, arg) == [op |-> op, x |-> x, y |-> y, arg |-> arg]
DelOf(x) == Cmd("del", x, x, 0)

\* A server while it executes a command: as is what call will propagate, start the
\* time a script began.
Server(d, isslave) == [val |-> d.val, exp |-> d.exp, slave |-> isslave, out |-> <<>>, dirty |-> 0,
                       as |-> DelOf(CHOOSE x \in Slots : TRUE), start |-> NoTime, strayed |-> FALSE]
Data(s) == [val |-> s.val, exp |-> s.exp]
Present(s, x)    == s.val[x] # Absent
Expired(s, x, t) == s.exp[x] # NoTime /\ t > s.exp[x]
Volatile(s, db)  == {x \in InDb(db) : s.exp[x] # NoTime}

----------------------------------------------------------------------------
(* Helpers of the commands.                                                *)

DbDelete(s, x)        == [s EXCEPT !.val[x] = Absent, !.exp[x] = NoTime]
PropagateExpire(s, x) == [s EXCEPT !.out = Append(@, DelOf(x))]
DropAndTell(s, x)     == DbDelete(PropagateExpire(s, x), x)

\* Mutant: the time of expireIfNeeded goes on while a script runs.
ExpireIfNeededNow(s, x, t) == IF s.slave \/ ~Expired(s, x, t) THEN s ELSE DropAndTell(s, x)

\* expireIfNeeded: for a script, time stands still; a slave deletes nothing.
ExpireIfNeeded(s, x, t) ==
  IF s.slave \/ ~Expired(s, x, IF s.start # NoTime THEN s.start ELSE t) THEN s ELSE DropAndTell(s, x)

Lookup(s, x, t) == ExpireIfNeeded(s, x, t)
Dirty(s)        == [s EXCEPT !.dirty = @ + 1]
RemoveExpire(s, x)    == [s EXCEPT !.exp[x] = NoTime]
SetExpire(s, x, when) == [s EXCEPT !.exp[x] = when]
DbAdd(s, x, v)        == [s EXCEPT !.val[x] = v]
SetKey(s, x, v, t)    == RemoveExpire(DbAdd(Lookup(s, x, t), x, v), x)

----------------------------------------------------------------------------
(* The commands, for one key.                                              *)

\* SET, with an expiry when arg > 0.
SetCommand(s, c, t) ==
  LET n == Dirty(SetKey(s, c.x, c.x[2], t))
  IN  IF c.arg > 0 THEN SetExpire(n, c.x, t + c.arg) ELSE n

DelCommand(s, c, t) == LET n == ExpireIfNeeded(s, c.x, t)
                       IN  IF Present(n, c.x) THEN Dirty(DbDelete(n, c.x)) ELSE n

\* EXISTS, TTL, PTTL, GET.
ReadCommand(s, c, t) == Lookup(s, c.x, t)

\* RENAME and RENAMENX.
RenameGeneric(s, c, t, nx) ==
  LET a == Lookup(s, c.x, t)
      b == Lookup(a, c.y, t)
      n == DbAdd(DbDelete(b, c.y), c.y, a.val[c.x])
      e == IF a.exp[c.x] # NoTime THEN SetExpire(n, c.y, a.exp[c.x]) ELSE n
  IN  CASE c.x = c.y \/ ~Present(a, c.x) -> IF c.x = c.y THEN s ELSE a
        [] c.x # c.y /\ Present(a, c.x) /\ Present(b, c.y) /\ nx -> b
        [] OTHER -> Dirty(DbDelete(e, c.x))

\* MOVE: the deadline is not moved.
MoveCommand(s, c, t) ==
  LET a == Lookup(s, c.x, t)
      b == Lookup(a, c.y, t)
  IN  CASE c.x = c.y \/ ~Present(a, c.x) -> IF c.x = c.y THEN s ELSE a
        [] c.x # c.y /\ Present(a, c.x) /\ Present(b, c.y) -> b
        [] OTHER -> Dirty(DbDelete(DbAdd(b, c.y, a.val[c.x]), c.x))

\* EXPIRE and PEXPIRE (arg from now), EXPIREAT and PEXPIREAT (arg a time): on a
\* master a deadline in the past is a deletion, propagated as DEL.
ExpireGeneric(s, c, t) ==
  LET when == IF c.op = "expire" THEN t + c.arg ELSE c.arg
      a    == Lookup(s, c.x, t)
  IN  CASE ~Present(a, c.x) -> a
        [] Present(a, c.x) /\ when <= t /\ ~s.slave ->
             [Dirty(DbDelete(a, c.x)) EXCEPT !.as = DelOf(c.x), !.strayed = @ \/ s.start # NoTime]
        [] OTHER -> Dirty(SetExpire(a, c.x, when))

\* PERSIST does not look whether the deadline has passed.
PersistCommand(s, c, t) ==
  IF s.exp[c.x] = NoTime THEN s
  ELSE Dirty(RemoveExpire([s EXCEPT !.strayed = @ \/ (~s.slave /\ Expired(s, c.x, t))], c.x))

\* FLUSHDB and FLUSHALL, which count the keys they remove, FLUSHALL itself too: only
\* FLUSHDB of an empty database is not propagated.
FlushCommand(s, c) ==
  LET gone  == IF c.op = "flushall" THEN Slots ELSE InDb(c.x[1])
      count == Cardinality({x \in gone : Present(s, x)}) + (IF c.op = "flushall" THEN 1 ELSE 0)
  IN  [s EXCEPT !.val = [x \in Slots |-> IF x \in gone THEN Absent ELSE @[x]],
                !.exp = [x \in Slots |-> IF x \in gone THEN NoTime ELSE @[x]],
                !.dirty = @ + count]

Execute(s0, c, t) ==
  LET s == [s0 EXCEPT !.as = c]
  IN  CASE c.op = "set"      -> SetCommand(s, c, t)
        [] c.op = "del"      -> DelCommand(s, c, t)
        [] c.op = "read"     -> ReadCommand(s, c, t)
        [] c.op = "rename"   -> RenameGeneric(s, c, t, FALSE)
        [] c.op = "renamenx" -> RenameGeneric(s, c, t, TRUE)
        [] c.op = "move"     -> MoveCommand(s, c, t)
        [] c.op \in {"expire", "expireat"} -> ExpireGeneric(s, c, t)
        [] c.op = "persist"  -> PersistCommand(s, c, t)
        [] OTHER             -> FlushCommand(s, c)

\* EVAL: the commands of a script, the first at time start, the others at time t.
ExecuteScript(s, cs, start, t) ==
  [FoldLeftDomain(LAMBDA r, i : Execute(r, cs[i], IF i = 1 THEN start ELSE t), [s EXCEPT !.start = start], cs)
     EXCEPT !.start = NoTime]

----------------------------------------------------------------------------
(* The stream: what is propagated reaches the slave.                       *)

Apply(d, u, t) == Data(IF u.op = "eval" THEN ExecuteScript(Server(d, TRUE), u.commands, t, t)
                       ELSE Execute(Server(d, TRUE), u, t))
Tell(units) == slave' = FoldLeft(LAMBDA d, u : Apply(d, u, now' + Lag), slave, units)

Done(s, units) == /\ master' = Data(s) /\ Tell(s.out \o units)
                  /\ strayed' = (strayed \/ s.strayed)

\* call: a command that changed something is propagated, in the form it took.
Call(s) == Done(s, IF s.dirty > 0 THEN <<s.as>> ELSE <<>>)

----------------------------------------------------------------------------
(* Eviction and the active expire cycle.                                   *)

Used(s) == Cardinality({x \in Slots : Present(s, x)})
Candidates(s, db, policy) == IF policy \in {"allkeys-lru", "allkeys-random"} THEN {x \in InDb(db) : Present(s, x)}
                             ELSE Volatile(s, db)
DbSeq == SetToSortSeq(Dbs, <)

\* freeMemoryIfNeeded: rounds over the databases, one key of each, whichever the
\* samples gave, until enough is freed or none is left.
EvictRound(s, policy) ==
  FoldLeft(LAMBDA ss, db : UNION {LET xs == Candidates(r, db, policy)
                                  IN  IF xs = {} THEN {r} ELSE {DropAndTell(r, x) : x \in xs} : r \in ss},
           {s}, DbSeq)
RECURSIVE Evict(_, _)
Evict(s, policy) ==
  IF Used(s) <= MaxMemory THEN {[s |-> s, ok |-> TRUE]}
  ELSE IF policy = "noeviction" \/ \A db \in Dbs : Candidates(s, db, policy) = {} THEN {[s |-> s, ok |-> FALSE]}
  ELSE UNION {Evict(r, policy) : r \in EvictRound(s, policy)}

\* The do ... while of activeExpireCycle for one database: samples are taken while
\* more than a quarter of them had expired; after any round the time may be up.
RECURSIVE ExpireRounds(_, _)
ExpireRounds(s, db) ==
  IF Volatile(s, db) = {} THEN {[s |-> s, exit |-> FALSE]}
  ELSE UNION {LET due == {x \in S : Expired(s, x, now)}
                  r   == FoldSet(LAMBDA x, q : DropAndTell(q, x), s, due)
              IN  {[s |-> r, exit |-> TRUE]} \cup
                  (IF Cardinality(due) > Lookups \div 4 THEN ExpireRounds(r, db) ELSE {[s |-> r, exit |-> FALSE]})
              : S \in {Q \in SUBSET Volatile(s, db) : Q # {} /\ Cardinality(Q) <= Lookups}}

\* activeExpireCycle, over n databases from the one the last call left off at.
RECURSIVE ExpireDbs(_, _, _)
ExpireDbs(s, at, n) ==
  IF n = 0 THEN {[s |-> s, at |-> at, exit |-> FALSE]}
  ELSE UNION {IF r.exit THEN {[s |-> r.s, at |-> (at + 1) % Cardinality(Dbs), exit |-> TRUE]}
              ELSE ExpireDbs(r.s, (at + 1) % Cardinality(Dbs), n - 1)
              : r \in ExpireRounds(s, DbSeq[at + 1])}

----------------------------------------------------------------------------
(* Actions.                                                                *)

Tick == /\ now < MaxNow /\ now' = now + 1
        /\ UNCHANGED <<master, slave, cycle, strayed>>

\* The flag of the command table that refuses a command when there is no room.
DenyOom == {"set"}

\* What freeMemoryIfNeeded, which processCommand calls before any command, may make of
\* the master.
MadeRoom == LET s == Server(master, FALSE)
            IN  IF MaxMemory = 0 THEN {[s |-> s, ok |-> TRUE]}
                ELSE UNION {Evict(s, policy) : policy \in Policies}

\* processCommand: room is made first, and a command that may grow the data set is
\* refused when that fails.
ClientCommand(c) ==
  /\ UNCHANGED <<now, cycle>>
  /\ \E r \in MadeRoom : IF r.ok \/ c.op \notin DenyOom THEN Call(Execute(r.s, c, now)) ELSE Done(r.s, <<>>)

\* A script; it may take a while. When no room could be made before it, luaRedisGenericCommand
\* refuses a first write that may grow the data set, unless a read has dropped
\* enough, and the script ends there.
Eval(cs) ==
  \E t \in {now, now + 1}, r \in MadeRoom :
     LET reads   == SelectInSeq(cs, LAMBDA c : c.op # "read") - 1
         before  == ExecuteScript(r.s, SubSeq(cs, 1, reads), now, t)
         refused == /\ ~r.ok /\ reads >= 0 /\ cs[reads + 1].op \in DenyOom
                    /\ Used(before) > MaxMemory
         s       == IF refused THEN before ELSE ExecuteScript(r.s, cs, now, t)
     IN  /\ t <= MaxNow /\ now' = t
         /\ Done(s, IF s.dirty > 0 THEN <<[op |-> "eval", commands |-> cs]>> ELSE <<>>)
         /\ UNCHANGED cycle

\* KEYS, SCAN and RANDOMKEY drop those they meet that have expired: any of them; a
\* random key is one that has not, if there is one.
Browse(db) ==
  \E S \in SUBSET {x \in InDb(db) : Expired(master, x, now)} :
     /\ Done(FoldSet(LAMBDA x, s : ExpireIfNeeded(s, x, now), Server(master, FALSE), S), <<>>)
     /\ UNCHANGED <<now, cycle>>

\* databasesCron and, fast, beforeSleep.
ActiveExpireCycle(fast) ==
  LET all == Cardinality(Dbs)
      n   == IF PerCall > all \/ cycle.timelimit_exit THEN all ELSE PerCall
  IN  /\ fast => cycle.timelimit_exit
      /\ \E r \in ExpireDbs(Server(master, FALSE), cycle.current_db, n) :
           /\ Done(r.s, <<>>)
           /\ cycle' = [current_db |-> r.at, timelimit_exit |-> r.exit]
      /\ UNCHANGED now

\* A full resynchronization: rdbSave leaves out what has expired, and so does
\* rdbLoad, but not on a slave.
Saved(d, t) == [val |-> [x \in Slots |-> IF Expired(d, x, t) THEN Absent ELSE d.val[x]],
                exp |-> [x \in Slots |-> IF Expired(d, x, t) THEN NoTime ELSE d.exp[x]]]
FullResync == /\ slave' = Saved(master, now)
              /\ UNCHANGED <<master, now, cycle, strayed>>
\* A restart from the dump; the new run has no stream to continue.
Reload == /\ master' = Saved(master, now) /\ slave' = master'
          /\ cycle' = [current_db |-> 0, timelimit_exit |-> FALSE]
          /\ UNCHANGED <<now, strayed>>

Nothing == [val |-> [x \in Slots |-> Absent], exp |-> [x \in Slots |-> NoTime]]
KeyspaceInit == /\ master = Nothing /\ slave = Nothing /\ now = 0 /\ strayed = FALSE
                /\ cycle = [current_db |-> 0, timelimit_exit |-> FALSE]

KeyspaceNext ==
  /\ ~strayed
  /\ \/ Tick \/ FullResync \/ Reload
     \/ \E c \in Commands : ClientCommand(c)
     \/ \E cs \in Scripts : Eval(cs)
     \/ \E db \in Dbs : Browse(db)
     \/ \E fast \in BOOLEAN : ActiveExpireCycle(fast)

----------------------------------------------------------------------------
\* The slave holds the values of its master and no others, except those its master
\* would not return, and a key that expires on one expires on the other; a deadline
\* always belongs to a key.
KeyspaceInStep ==
  /\ \A x \in Slots :
       /\ master.exp[x] # NoTime => Present(master, x)
       /\ slave.exp[x] # NoTime => Present(slave, x)
  /\ ~strayed => \A x \in Slots :
       \/ slave.val[x] = master.val[x] /\ ((slave.exp[x] = NoTime) <=> (master.exp[x] = NoTime))
       \/ Expired(master, x, now) /\ ~Present(slave, x)
=============================================================================
