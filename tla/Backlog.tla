------------------------------ MODULE Backlog ------------------------------
(***************************************************************************)
(* The replication backlog (replication.c): a circular buffer of the last  *)
(* bytes of the replication stream, from which a slave that lost its link  *)
(* is sent what it missed.                                                 *)
(*                                                                         *)
(* A byte is represented by its number in the stream: 1, 2, 3, ...         *)
(* Bytes that are written while there is no backlog have a number too,     *)
(* although master_repl_offset does not count them.                        *)
(***************************************************************************)
EXTENDS Integers, Sequences

CONSTANTS Slaves,
          Sizes,      \* the sizes CONFIG SET repl-backlog-size asks for
          MinSize,    \* REDIS_REPL_BACKLOG_MIN_SIZE
          Lengths,    \* the lengths of what is written at once
          MaxStream,  \* bound: bytes written
          MaxOffset   \* bound: no backlog is freed above this offset

ASSUME ConstantsAssumption ==
  /\ Sizes \subseteq Nat /\ Sizes # {}
  /\ MinSize \in Nat \ {0}
  /\ Lengths \subseteq Nat
  /\ MaxStream \in Nat /\ MaxOffset \in Nat

VARIABLES
  stream,    \* history: the bytes generated so far
  exists,    \* server.repl_backlog # NULL
  ring,      \* its contents; 0 is a byte never written
  size,      \* server.repl_backlog_size
  idx,       \* server.repl_backlog_idx
  histlen,   \* server.repl_backlog_histlen
  off,       \* server.repl_backlog_off
  mro,       \* server.master_repl_offset
  feeding,   \* feedReplicationBacklog is running, and
  pending,   \* "len" bytes are still to be copied
  online,    \* the slaves attached
  reploff,   \* a slave's reploff, or NoOffset without a cached master
  got,       \* history: the number of the last byte the slave has read
  buf        \* what the slave can read

NoOffset == -2

bufferVars == <<exists, ring, size, idx, histlen, off>>
feedVars   == <<feeding, pending>>
slaveVars  == <<online, reploff, got, buf>>
vars == <<stream, bufferVars, mro, feedVars, slaveVars>>

Smaller(x, y) == IF x <= y THEN x ELSE y
Larger(x, y)  == IF x >= y THEN x ELSE y
Blank(n) == [i \in 0 .. n - 1 |-> 0]

Init ==
  /\ stream = 0 /\ mro = 0
  /\ exists = FALSE
  /\ \E n \in Sizes : size = Larger(n, MinSize)
  /\ ring = Blank(size) /\ idx = 0 /\ histlen = 0 /\ off = 0
  /\ feeding = FALSE /\ pending = 0
  /\ online = {}
  /\ reploff = [s \in Slaves |-> NoOffset]
  /\ got = [s \in Slaves |-> 0]
  /\ buf = [s \in Slaves |-> <<>>]

----------------------------------------------------------------------------
(* replicationFeedSlaves.                                                  *)

\* Without a backlog and without slaves nothing is fed, nor counted.
WriteUncounted(len) ==
  /\ ~feeding /\ ~exists /\ online = {}
  /\ stream + len <= MaxStream
  /\ stream' = stream + len
  /\ UNCHANGED <<bufferVars, mro, feedVars, slaveVars>>

\* feedReplicationBacklog is called.
Write(len) ==
  /\ ~feeding /\ exists
  /\ stream + len <= MaxStream
  /\ stream' = stream + len
  /\ mro' = mro + len
  /\ feeding' = TRUE /\ pending' = len
  /\ UNCHANGED <<bufferVars, slaveVars>>

\* The length copied by the next iteration: up to the end of the buffer.
ThisLen == Smaller(size - idx, pending)

\* Mutant: the write index is not rewound at the end of the buffer.
NotRewound(i) == i

Rewind(i) == IF i = size THEN 0 ELSE i

\* One iteration of the loop.
FeedChunk ==
  /\ feeding /\ pending > 0
  /\ ring' = [i \in 0 .. size - 1 |->
                IF i \in idx .. idx + ThisLen - 1
                THEN stream - pending + 1 + (i - idx) ELSE ring[i]]
  /\ idx' = Rewind(idx + ThisLen)
  /\ pending' = pending - ThisLen
  /\ histlen' = histlen + ThisLen
  /\ UNCHANGED <<stream, exists, size, off, mro, feeding, slaveVars>>

\* The bytes a slave was not yet given: those of this write.
NewBytes(s) ==
  LET last == got[s] + Len(buf[s])
  IN  [i \in 1 .. stream - last |-> last + i]

\* Mutant: the history is not cut to the size of the buffer.
HistlenUncut == histlen

\* "if (histlen > size) histlen = size"
HistlenCut == Smaller(histlen, size)

\* After the loop; then the slaves are given the write.
FeedEnd ==
  /\ feeding /\ pending = 0
  /\ feeding' = FALSE
  /\ histlen' = HistlenCut
  /\ off' = mro - HistlenCut + 1
  /\ buf' = [s \in Slaves |-> IF s \in online THEN buf[s] \o NewBytes(s) ELSE buf[s]]
  /\ UNCHANGED <<stream, exists, ring, size, idx, mro, pending, online, reploff, got>>

----------------------------------------------------------------------------
(* The buffer.                                                             *)

\* resizeReplicationBacklog: a new, empty buffer.
Resize(n) ==
  LET newsize == Larger(n, MinSize)
  IN  /\ ~feeding /\ newsize # size
      /\ size' = newsize
      /\ ring' = Blank(newsize)
      /\ IF exists
         THEN histlen' = 0 /\ idx' = 0 /\ off' = mro + 1
         ELSE UNCHANGED <<histlen, idx, off>>
      /\ UNCHANGED <<stream, exists, mro, feedVars, slaveVars>>

\* freeReplicationBacklog, from replicationCron.
Free ==
  /\ ~feeding /\ exists /\ online = {} /\ mro < MaxOffset
  /\ exists' = FALSE
  /\ UNCHANGED <<stream, ring, size, idx, histlen, off, mro, feedVars, slaveVars>>

\* Mutant: the offset is not incremented.
OffsetAtCreation == mro

\* createReplicationBacklog: "we increment the replication offset by one to
\* make sure we'll not be able to PSYNC with any previous slave".
CreationOffset == mro + 1

----------------------------------------------------------------------------
(* The slaves.                                                             *)

\* masterTryPartialResynchronization
PsyncAccepted(o) ==
  exists /\ o >= off /\ o <= off + histlen

\* addReplyReplicationBacklog, for an accepted offset: the bytes from slot j
\* to the end of the buffer, then those at its start.
Reply(o) ==
  LET skip == o - off
      oldest == (idx + (size - histlen)) % size
      j    == (oldest + skip) % size
  IN  [i \in 1 .. histlen - skip |->
         IF i <= size - j THEN ring[j + i - 1] ELSE ring[i - 1 - (size - j)]]

\* PSYNC, accepted: +CONTINUE and the bytes missed.
Continue(s) ==
  /\ ~feeding /\ s \notin online
  /\ reploff[s] # NoOffset /\ PsyncAccepted(reploff[s] + 1)
  /\ online' = online \cup {s}
  /\ buf' = [buf EXCEPT ![s] = Reply(reploff[s] + 1)]
  /\ UNCHANGED <<stream, bufferVars, mro, feedVars, reploff, got>>

\* PSYNC, refused: a full resynchronization, here in one step (module
\* Replication has its steps), whose first slave creates the backlog.
FullResync(s) ==
  /\ ~feeding /\ s \notin online
  /\ ~(reploff[s] # NoOffset /\ PsyncAccepted(reploff[s] + 1))
  /\ IF exists
     THEN UNCHANGED <<bufferVars, mro>>
     ELSE /\ exists' = TRUE
          /\ ring' = Blank(size) /\ histlen' = 0 /\ idx' = 0
          /\ mro' = CreationOffset
          /\ off' = CreationOffset + 1
          /\ UNCHANGED size
  /\ online' = online \cup {s}
  /\ reploff' = [reploff EXCEPT ![s] = mro']
  /\ got' = [got EXCEPT ![s] = stream]
  /\ buf' = [buf EXCEPT ![s] = <<>>]
  /\ UNCHANGED <<stream, feedVars>>

\* The slave reads a byte.
Read(s) ==
  /\ ~feeding /\ s \in online /\ buf[s] # <<>>
  /\ got' = [got EXCEPT ![s] = Head(buf[s])]
  /\ reploff' = [reploff EXCEPT ![s] = @ + 1]
  /\ buf' = [buf EXCEPT ![s] = Tail(@)]
  /\ UNCHANGED <<stream, bufferVars, mro, feedVars, online>>

\* The link is lost, with what was in flight; the slave caches its position.
Disconnect(s) ==
  /\ ~feeding /\ s \in online
  /\ online' = online \ {s}
  /\ buf' = [buf EXCEPT ![s] = <<>>]
  /\ UNCHANGED <<stream, bufferVars, mro, feedVars, reploff, got>>

\* replicationDiscardCachedMaster: the next PSYNC asks for "? -1".
Forget(s) ==
  /\ ~feeding /\ s \notin online
  /\ reploff' = [reploff EXCEPT ![s] = NoOffset]
  /\ UNCHANGED <<stream, bufferVars, mro, feedVars, online, got, buf>>

Next ==
  \/ \E len \in Lengths : WriteUncounted(len) \/ Write(len)
  \/ FeedChunk \/ FeedEnd
  \/ \E n \in Sizes : Resize(n)
  \/ Free
  \/ \E s \in Slaves :
       Continue(s) \/ FullResync(s) \/ Read(s) \/ Disconnect(s) \/ Forget(s)

Spec == Init /\ [][Next]_vars

----------------------------------------------------------------------------
(* Properties.                                                             *)

\* Every variable has its type; the index of a backlog is inside it.
TypeOK ==
  /\ stream \in Nat /\ mro \in Nat
  /\ exists \in BOOLEAN
  /\ size \in Nat \ {0}
  /\ ring \in [0 .. size - 1 -> Nat]
  /\ idx \in Nat /\ (exists => idx < size)
  /\ histlen \in Nat /\ off \in Nat
  /\ feeding \in BOOLEAN /\ pending \in Nat
  /\ online \subseteq Slaves
  /\ reploff \in [Slaves -> Nat \cup {NoOffset}]
  /\ got \in [Slaves -> Nat]
  /\ buf \in [Slaves -> Seq(Nat)]

\* The last byte that feedReplicationBacklog has copied, and the slot of the
\* byte that was copied k bytes before it.
LastCopied == stream - pending
Slot(k) == IF idx - 1 - k >= 0 THEN idx - 1 - k ELSE idx - 1 - k + size

\* The buffer holds the last bytes of the stream, the newest one just behind
\* idx, at every iteration of the copy and whatever was resized, freed or
\* created before; at rest it holds exactly the offsets off .. mro.
RingHoldsHistory ==
  exists =>
    /\ \A k \in 0 .. Smaller(histlen, size) - 1 : ring[Slot(k)] = LastCopied - k
    /\ ~feeding => histlen <= size /\ off = mro - histlen + 1 /\ histlen <= stream

\* An attached slave reads the stream byte by byte: what it can read starts
\* right after what it has, and ends with the last byte written.  So no byte
\* is lost, repeated or garbage after any PSYNC that is accepted, although
\* bytes were written that no offset counts.
StreamContiguous ==
  \A s \in online :
    /\ \A i \in 1 .. Len(buf[s]) : buf[s][i] = got[s] + i
    /\ ~feeding => got[s] + Len(buf[s]) = stream
=============================================================================
