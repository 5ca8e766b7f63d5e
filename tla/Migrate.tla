------------------------------ MODULE Migrate ------------------------------
(***************************************************************************)
(* DUMP, RESTORE and MIGRATE (migrate.c, with the synchronous I/O of       *)
(* syncio.c): a key moves to another server over a connection that may     *)
(* fail or time out at every step, while what was sent on it is still on   *)
(* its way. The source does nothing else during a MIGRATE; its client may  *)
(* try again after an error.                                               *)
(*                                                                         *)
(* One key is modelled, database 0 and 1 of the target, and one database   *)
(* of the source.                                                          *)
(***************************************************************************)
EXTENDS Integers, Sequences, SequencesExt

CONSTANTS MigrateValues,   \* the values the key can have
          RdbVersion,      \* REDIS_RDB_VERSION
          Ttls,            \* the times to live clients give; 0: none
          MaxTries,        \* bound: connections opened
          MaxClock         \* bound: the clock

VARIABLES source,    \* the key in the source, or None
          target,    \* database -> the key in the target, or None
          conns,     \* the connections opened: [db, cmds, selected, replies, value]
          doing,     \* what the source waits for: "nothing", "write", "read"
          outcome,   \* how the last MIGRATE ended
          clock

migratevars == <<source, target, conns, doing, outcome, clock>>

None == [val |-> 0, when |-> -1]
Key(v, when) == [val |-> v, when |-> when]
Dbs == {0, 1}
NoDb == 2              \* a database the target does not have

Expired(k) == k.when >= 0 /\ clock > k.when
Alive(k) == k # None /\ ~Expired(k)

----------------------------------------------------------------------------
(* The payload of DUMP: the object, the version of the format, and a       *)
(* checksum over both.                                                     *)

Checksum(val, version) == <<val, version>>
CreateDumpPayload(v) == [val |-> v, version |-> RdbVersion, crc |-> Checksum(v, RdbVersion)]
VerifyDumpPayload(p) == p.version = RdbVersion /\ p.crc = Checksum(p.val, p.version)

\* What a client may hand to RESTORE: a dump of this server, one of another version,
\* and one that was damaged.
Payloads == {CreateDumpPayload(v) : v \in MigrateValues}
            \cup {[val |-> v, version |-> RdbVersion + 1, crc |-> Checksum(v, RdbVersion + 1)] : v \in MigrateValues}
            \cup {[val |-> v, version |-> RdbVersion, crc |-> Checksum(0, RdbVersion)] : v \in MigrateValues}

\* restoreCommand on k: what the key becomes, and whether the reply is an error.
Restore(k, payload, ttl) ==
  IF Alive(k) \/ ~VerifyDumpPayload(payload) THEN [key |-> IF Expired(k) THEN None ELSE k, error |-> TRUE]
  ELSE [key |-> Key(payload.val, IF ttl = 0 THEN -1 ELSE clock + ttl), error |-> FALSE]

----------------------------------------------------------------------------
(* The source: migrateCommand.                                             *)

conn == conns[Len(conns)]

\* The key is read first, and the deadline when the connection stands: it may have
\* passed by then, and is sent as one unit of time.
Ttl(k) == IF k.when = -1 THEN 0 ELSE IF k.when - clock < 1 THEN 1 ELSE k.when - clock

\* SELECT and RESTORE are composed as one buffer.
Start(db) ==
  /\ doing = "nothing" /\ Len(conns) < MaxTries
  /\ IF ~Alive(source)
     THEN /\ outcome' = "nokey"
          /\ source' = None
          /\ UNCHANGED <<target, conns, doing, clock>>
     ELSE \/ /\ conns' = Append(conns, [db |-> db, cmds |-> <<>>, selected |-> 0, replies |-> <<>>,
                                        value |-> source])
             /\ doing' = "write" /\ outcome' = "none"
             /\ UNCHANGED <<source, target, clock>>
          \* No connection, or not in time.
          \/ /\ outcome' = "ioerr"
             /\ UNCHANGED <<source, target, conns, doing, clock>>

Cmds(c) == <<[op |-> "SELECT", db |-> c.db],
             [op |-> "RESTORE", payload |-> CreateDumpPayload(c.value.val), ttl |-> Ttl(c.value)]>>

\* syncWrite: all of it, or a part before the error; the part arrives.
Write(n) ==
  /\ doing = "write"
  /\ conns' = [conns EXCEPT ![Len(conns)].cmds = SubSeq(Cmds(conn), 1, n)]
  /\ IF n = 2 THEN doing' = "read" /\ UNCHANGED outcome
              ELSE doing' = "nothing" /\ outcome' = "ioerr"
  /\ UNCHANGED <<source, target, clock>>

\* syncReadLine, twice: both replies are read before they are judged.
ReadReplies ==
  /\ doing = "read" /\ Len(conn.replies) = 2
  /\ doing' = "nothing"
  /\ IF "error" \in ToSet(conn.replies)
     THEN outcome' = "error" /\ UNCHANGED source
     ELSE outcome' = "ok" /\ source' = None
  /\ UNCHANGED <<target, conns, clock>>

\* The link fails or the time is over; what is on its way stays there.
ReadFails == /\ doing = "read"
             /\ doing' = "nothing" /\ outcome' = "ioerr"
             /\ UNCHANGED <<source, target, conns, clock>>

\* A client of the source sets the key, unless the source is busy with MIGRATE.
SetSource(v, ttl) ==
  /\ doing = "nothing" /\ source = None
  /\ source' = Key(v, IF ttl = 0 THEN -1 ELSE clock + ttl)
  /\ outcome' = "none"
  /\ UNCHANGED <<target, conns, doing, clock>>

----------------------------------------------------------------------------
(* The target.                                                             *)

\* It executes the commands of its connections, in the order of each.
Serve(i) ==
  /\ conns[i].cmds # <<>>
  /\ LET c == conns[i]
         cmd == Head(c.cmds)
         r == Restore(target[c.selected], cmd.payload, cmd.ttl)
     IN IF cmd.op = "SELECT"
        THEN /\ conns' = [conns EXCEPT ![i].cmds = Tail(@),
                                       ![i].selected = IF cmd.db \in Dbs THEN cmd.db ELSE @,
                                       ![i].replies = Append(@, IF cmd.db \in Dbs THEN "ok" ELSE "error")]
             /\ UNCHANGED target
        ELSE /\ conns' = [conns EXCEPT ![i].cmds = Tail(@),
                                       ![i].replies = Append(@, IF r.error THEN "error" ELSE "ok")]
             /\ target' = [target EXCEPT ![c.selected] = r.key]
  /\ UNCHANGED <<source, doing, outcome, clock>>

\* A client of the target restores a payload it was given.
ClientRestore(db, p, ttl) ==
  /\ target' = [target EXCEPT ![db] = Restore(@, p, ttl).key]
  /\ UNCHANGED <<source, conns, doing, outcome, clock>>

Tick == /\ clock < MaxClock
        /\ clock' = clock + 1
        /\ UNCHANGED <<source, target, conns, doing, outcome>>

MigrateInit == /\ \E v \in MigrateValues, t \in Ttls : source = Key(v, IF t = 0 THEN -1 ELSE t)
               /\ target = [d \in Dbs |-> None]
               /\ conns = <<>> /\ doing = "nothing" /\ outcome = "none" /\ clock = 0

MigrateNext ==
  \/ \E db \in Dbs \cup {NoDb} : Start(db)
  \/ \E n \in 0 .. 2 : Write(n)
  \/ ReadReplies \/ ReadFails
  \/ \E v \in MigrateValues, t \in Ttls : SetSource(v, t)
  \/ \E i \in DOMAIN conns : Serve(i)
  \/ \E p \in Payloads : ClientRestore(0, p, 0)
  \/ Tick

----------------------------------------------------------------------------
\* A MIGRATE that answers OK has put the key where it was told, with the value and,
\* if it had one, a deadline not before its own; unless the target's own clock has
\* ended it since.
OkMeansMoved ==
  outcome = "ok" /\ source = None =>
    LET c == conn IN
      \/ /\ target[c.db].val = c.value.val
         /\ (c.value.when = -1) = (target[c.db].when = -1)
         /\ c.value.when <= target[c.db].when
      \/ c.value.when # -1 /\ clock > c.value.when

\* Whatever fails, the key is on one of the two servers until its time has come: it
\* goes from the source only with both replies read.
NeverLost == \A i \in DOMAIN conns :
  i = Len(conns) /\ outcome # "none" /\ conns[i].value.when = -1 =>
    source.val = conns[i].value.val \/ \E d \in Dbs : target[d].val = conns[i].value.val

\* Nothing that fails its checksum becomes a value, and the target holds nothing its
\* clients did not give it.
OnlyDumps == \A d \in Dbs : target[d] = None \/ target[d].val \in MigrateValues

MigrateSound == OkMeansMoved /\ NeverLost /\ OnlyDumps
=============================================================================
