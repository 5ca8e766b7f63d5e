--------------------------- MODULE SentinelProofs ---------------------------
(***************************************************************************)
(* The safety of module Sentinel, for any sentinels, instances and         *)
(* scenarios.                                                              *)
(***************************************************************************)
EXTENDS Sentinel, FiniteSetTheorems, TLAPS

----------------------------------------------------------------------------
(* What one sentinel keeps, in scenario c.                                 *)

Tables(S, V) == UNION {[T -> V] : T \in SUBSET S}

Runids == Sentinels \X Nat
Peers  == [runid : Runids, down : BOOLEAN, leader : Runids \cup {None}, leader_epoch : Nat]
Files  == [addr : Redis, config_epoch : Nat, leader_epoch : Nat, epoch : Nat,
           slaves : SUBSET Redis, sentinels : Tables(Sentinels, Runids)]
States == [epoch : Nat, tilt : BOOLEAN, run : Nat, disk : Files \cup {None}, addr : Redis,
           flags : SUBSET MasterFlags, role : {"master", "slave"}, config_epoch : Nat,
           leader : Runids \cup {None}, leader_epoch : Nat, state : FailoverStates,
           failover_epoch : Nat, promoted : Redis \cup {None},
           slaves : Tables(Redis, SUBSET SlaveFlags), sentinels : Tables(Sentinels, Peers)]

\* No epoch is newer than the one the sentinel has.
Epochs(c, x) ==
  /\ x.epoch <= c.maxEpoch
  /\ x.config_epoch <= x.epoch /\ x.leader_epoch <= x.epoch /\ x.failover_epoch <= x.epoch

\* The vote is on disk, and so is an epoch as new as the vote.
OnDisk(c, x) ==
  /\ x.disk \in Files
  /\ x.disk.leader_epoch = x.leader_epoch
  /\ x.disk.leader_epoch <= x.disk.epoch
  /\ x.disk.epoch <= c.maxEpoch /\ x.disk.config_epoch <= c.maxEpoch

\* PromotedIsValid, and when there is a promoted slave.
Valid(x) ==
  /\ \A r \in DOMAIN x.slaves : "PROMOTED" \in x.slaves[r] <=> r = x.promoted
  /\ x.promoted # None => x.promoted \in DOMAIN x.slaves
  /\ x.promoted # None <=> x.state \in {"SEND_SLAVEOF_NOONE", "WAIT_PROMOTION",
                                        "RECONF_SLAVES", "UPDATE_CONFIG"}
  /\ (\E r \in DOMAIN x.slaves : x.slaves[r] \cap {"SENT", "INPROG"} # {})
       => x.state \in {"RECONF_SLAVES", "UPDATE_CONFIG"}
  /\ x.state # "NONE" <=> "FAILOVER" \in x.flags

\* The sentinels know each other from the start and are never made to forget.
Complete(c) == c.known /\ c.faults \cap {"reset", "monitor"} = {}

\* The sentinels S that s knows, in memory or on disk.
Peered(c, s, S) ==
  /\ S \subseteq c.sentinels \ {s}
  /\ Complete(c) => S = c.sentinels \ {s}

Sound(c, s, x) ==
  /\ x \in States /\ Epochs(c, x) /\ OnDisk(c, x) /\ Valid(x)
  /\ Peered(c, s, DOMAIN x.sentinels) /\ Peered(c, s, DOMAIN x.disk.sentinels)

\* Between two states a sentinel votes for nobody, and learns of no vote.
SameVotes(x, y) ==
  /\ y.leader_epoch = x.leader_epoch /\ y.leader \in {x.leader, None}
  /\ \A t \in DOMAIN y.sentinels :
       y.sentinels[t].leader # None =>
         /\ t \in DOMAIN x.sentinels /\ y.sentinels[t].leader = x.sentinels[t].leader
         /\ y.sentinels[t].leader_epoch = x.sentinels[t].leader_epoch

----------------------------------------------------------------------------
(* The operations on the state of a sentinel.                              *)

LEMMA InTables ==
  ASSUME NEW S, NEW V
  PROVE  \A f : f \in Tables(S, V) <=> f \in [DOMAIN f -> V] /\ DOMAIN f \subseteq S
<1>1. ASSUME NEW f, f \in Tables(S, V) PROVE f \in [DOMAIN f -> V] /\ DOMAIN f \subseteq S
  BY <1>1 DEF Tables
<1>2. ASSUME NEW f, f \in [DOMAIN f -> V], DOMAIN f \subseteq S PROVE f \in Tables(S, V)
  BY <1>2 DEF Tables
<1> QED BY <1>1, <1>2

LEMMA SameVotesTransitive ==
  ASSUME NEW x, NEW y, NEW z, SameVotes(x, y), SameVotes(y, z)
  PROVE  SameVotes(x, z)
BY DEF SameVotes

\* A state that differs only in what votes and epochs do not depend on.
LEMMA Unrelated ==
  ASSUME NEW x, NEW y,
         y.leader = x.leader, y.leader_epoch = x.leader_epoch, y.sentinels = x.sentinels
  PROVE  SameVotes(x, y)
BY DEF SameVotes

\* sentinelFlushConfig
LEMMA Flushed ==
  ASSUME NEW c, c.maxEpoch \in Nat, NEW s, NEW x \in States, Epochs(c, x), Valid(x),
         Peered(c, s, DOMAIN x.sentinels)
  PROVE  LET y == FlushConfig(x) IN
         /\ Sound(c, s, y) /\ SameVotes(x, y)
         /\ y.disk \in Files /\ y = [x EXCEPT !.disk = y.disk]
<1> DEFINE y == [x EXCEPT !.disk = Saved(x)]
<1>1. CurrentAddr(x) \in Redis
  BY DEF CurrentAddr, States
<1>2. DOMAIN x.slaves \in SUBSET Redis
  BY InTables DEF States
<1>3. [t \in DOMAIN x.sentinels |-> x.sentinels[t].runid] \in Tables(Sentinels, Runids)
  <2>1. x.sentinels \in [DOMAIN x.sentinels -> Peers] /\ DOMAIN x.sentinels \subseteq Sentinels
    BY InTables DEF States
  <2>2. \A t \in DOMAIN x.sentinels : x.sentinels[t].runid \in Runids
    BY <2>1 DEF Peers
  <2>3. [t \in DOMAIN x.sentinels |-> x.sentinels[t].runid] \in [DOMAIN x.sentinels -> Runids]
    BY <2>2
  <2> QED BY <2>1, <2>3, InTables
<1>4. /\ Saved(x) \in Files /\ Saved(x).leader_epoch = x.leader_epoch
      /\ Saved(x).epoch = x.epoch /\ Saved(x).config_epoch = x.config_epoch
      /\ DOMAIN Saved(x).sentinels = DOMAIN x.sentinels
  BY <1>1, <1>2, <1>3 DEF Saved, Files, States
<1>5. y \in States /\ y.disk = Saved(x)
  BY <1>4 DEF States
<1>6. Epochs(c, y) /\ OnDisk(c, y)
  BY <1>4 DEF States, Epochs, OnDisk
<1>7. Valid(y) /\ SameVotes(x, y) /\ y.sentinels = x.sentinels
  BY Unrelated DEF Valid, States
<1>8. Sound(c, s, y)
  BY <1>4, <1>5, <1>6, <1>7 DEF Sound
<1> QED BY <1>4, <1>5, <1>7, <1>8 DEF FlushConfig

\* The slaves as a sentinel that has just met them knows them.
LEMMA FreshSlaves ==
  ASSUME NEW S \in SUBSET Redis
  PROVE  /\ NewSlaves(S) \in Tables(Redis, SUBSET SlaveFlags) /\ DOMAIN NewSlaves(S) = S
         /\ \A r \in S : NewSlaves(S)[r] = {}
         /\ Empty \in Tables(Redis, SUBSET SlaveFlags) /\ DOMAIN Empty = {}
<1>1. NewSlaves(S) \in [S -> SUBSET SlaveFlags]
  BY DEF NewSlaves
<1>2. Empty \in [{} -> SUBSET SlaveFlags] /\ DOMAIN Empty = {}
  BY DEF Empty
<1> QED BY <1>1, <1>2 DEF NewSlaves, Tables

\* sentinelResetMaster
LEMMA MasterReset ==
  ASSUME NEW c, NEW s, NEW x \in States, Epochs(c, x), OnDisk(c, x),
         Peered(c, s, DOMAIN x.disk.sentinels),
         NEW f \in Tables(Sentinels, Peers), Peered(c, s, DOMAIN f),
         \A t \in DOMAIN f : t \in DOMAIN x.sentinels /\ f[t] = x.sentinels[t]
  PROVE  LET y == ResetMaster(x, f) IN
         /\ Sound(c, s, y) /\ SameVotes(x, y) /\ y.state = "NONE" /\ y.addr = x.addr
         /\ y.sentinels = f /\ y.disk = x.disk
<1> DEFINE y == ResetMaster(x, f)
<1>1. Empty \in Tables(Redis, SUBSET SlaveFlags) /\ DOMAIN Empty = {}
  BY FreshSlaves
<1>2. /\ y.slaves = Empty /\ y.sentinels = f /\ y.flags = {} /\ y.leader = None
      /\ y.state = "NONE" /\ y.promoted = None /\ y.disk = x.disk /\ y.epoch = x.epoch
      /\ y.config_epoch = x.config_epoch /\ y.leader_epoch = x.leader_epoch
      /\ y.failover_epoch = x.failover_epoch /\ y.addr = x.addr
  BY DEF ResetMaster, States
<1>3. y \in States
  BY <1>1 DEF ResetMaster, States, FailoverStates
<1> HIDE DEF y
<1>4. Valid(y)
  BY <1>1, <1>2 DEF Valid
<1>5. Epochs(c, y) /\ OnDisk(c, y) /\ SameVotes(x, y)
  BY <1>2 DEF Epochs, OnDisk, SameVotes
<1> QED BY <1>2, <1>3, <1>4, <1>5 DEF Sound, y

\* sentinelResetMasterAndChangeAddress
LEMMA AddressChanged ==
  ASSUME NEW c, c.maxEpoch \in Nat, NEW s, NEW x, Sound(c, s, x), NEW addr \in Redis
  PROVE  LET y == ChangeAddress(x, addr) IN
         Sound(c, s, y) /\ SameVotes(x, y) /\ y.state = "NONE"
<1> DEFINE S == (DOMAIN x.slaves \cup {x.addr}) \ {addr}
           a == ResetMaster(x, x.sentinels)
           b == [a EXCEPT !.addr = addr, !.slaves = NewSlaves(S)]
<1>1. x \in States /\ x.sentinels \in Tables(Sentinels, Peers)
  BY DEF Sound, States
<1>2. Sound(c, s, a) /\ SameVotes(x, a) /\ a.state = "NONE" /\ a.sentinels = x.sentinels
  BY <1>1, MasterReset DEF Sound
<1>3. a.flags = {} /\ a.promoted = None
  BY <1>1 DEF ResetMaster, States
<1>4. S \in SUBSET Redis
  BY <1>1, InTables DEF States
<1>5. /\ NewSlaves(S) \in Tables(Redis, SUBSET SlaveFlags) /\ DOMAIN NewSlaves(S) = S
      /\ \A r \in S : NewSlaves(S)[r] = {}
  BY <1>4, FreshSlaves
<1>6. ChangeAddress(x, addr) = FlushConfig(b)
  BY DEF ChangeAddress
<1> HIDE DEF S, a
<1>7. b \in States /\ b.state = "NONE" /\ SameVotes(a, b) /\ b.sentinels = a.sentinels
  <2>1. a \in States
    BY <1>2 DEF Sound
  <2>2. b \in States /\ b.state = a.state /\ b.sentinels = a.sentinels
        /\ b.leader = a.leader /\ b.leader_epoch = a.leader_epoch
    BY <1>5, <2>1 DEF States
  <2> HIDE DEF b
  <2> QED BY <1>2, <2>2, Unrelated
<1>8. Epochs(c, b)
  BY <1>2 DEF Sound, Epochs, States
<1>9. Valid(b)
  <2>1. b.slaves = NewSlaves(S) /\ b.promoted = None /\ b.flags = {} /\ b.state = "NONE"
    BY <1>2, <1>3 DEF Sound, States
  <2>2. None \notin Redis
    BY ConstantsAssumption
  <2> HIDE DEF b
  <2> QED BY <1>4, <1>5, <2>1, <2>2 DEF Valid
<1> HIDE DEF b
<1>10. /\ Sound(c, s, FlushConfig(b)) /\ SameVotes(b, FlushConfig(b))
       /\ FlushConfig(b) = [b EXCEPT !.disk = FlushConfig(b).disk]
  BY <1>2, <1>7, <1>8, <1>9, Flushed DEF Sound
<1>11. FlushConfig(b).state = "NONE"
  BY <1>7, <1>10 DEF States
<1> QED BY <1>2, <1>6, <1>7, <1>10, <1>11, SameVotesTransitive

\* sentinelAbortFailover, before a slave is reconfigured.
LEMMA Aborted ==
  ASSUME NEW c, NEW s, NEW x, Sound(c, s, x), x.state \notin {"RECONF_SLAVES", "UPDATE_CONFIG"}
  PROVE  LET y == AbortFailover(x) IN
         Sound(c, s, y) /\ SameVotes(x, y) /\ y.state = "NONE"
         /\ y.leader = x.leader /\ y.leader_epoch = x.leader_epoch
<1> DEFINE f == [r \in DOMAIN x.slaves |-> x.slaves[r] \ {"PROMOTED"}]
           y == [x EXCEPT !.flags = @ \ {"FAILOVER", "FORCE"}, !.state = "NONE",
                          !.promoted = None, !.slaves = f]
<1>1. x \in States /\ x.slaves \in [DOMAIN x.slaves -> SUBSET SlaveFlags] /\ DOMAIN x.slaves \subseteq Redis
  BY InTables DEF Sound, States
<1>2. /\ f \in [DOMAIN x.slaves -> SUBSET SlaveFlags] /\ DOMAIN f = DOMAIN x.slaves
      /\ \A r \in DOMAIN f : f[r] = x.slaves[r] \ {"PROMOTED"}
  BY <1>1
<1>3. f \in Tables(Redis, SUBSET SlaveFlags)
  BY <1>1, <1>2, InTables
<1>4. AbortFailover(x) = y
  BY <1>1 DEF AbortFailover, States
<1> HIDE DEF f
<1>5. /\ y \in States /\ y.slaves = f /\ y.sentinels = x.sentinels /\ y.disk = x.disk
      /\ y.promoted = None /\ y.state = "NONE" /\ "FAILOVER" \notin y.flags
      /\ y.leader = x.leader /\ y.leader_epoch = x.leader_epoch /\ y.epoch = x.epoch
      /\ y.config_epoch = x.config_epoch /\ y.failover_epoch = x.failover_epoch
  BY <1>1, <1>3 DEF States, FailoverStates
<1> HIDE DEF y
<1>6. Valid(y)
  <2>1. \A r \in DOMAIN f : r # None
    BY <1>1, <1>2, ConstantsAssumption
  <2>2. \A r \in DOMAIN f : f[r] \cap {"SENT", "INPROG"} = {}
    BY <1>2 DEF Sound, Valid
  <2> QED BY <1>2, <1>5, <2>1, <2>2 DEF Valid
<1>7. Epochs(c, y) /\ OnDisk(c, y)
  BY <1>5 DEF Sound, Epochs, OnDisk
<1>8. SameVotes(x, y)
  BY <1>5, Unrelated
<1>9. Sound(c, s, y)
  BY <1>5, <1>6, <1>7 DEF Sound
<1> QED BY <1>4, <1>5, <1>8, <1>9

\* A state with other flags or role, of itself or of its slaves.
AlikeButSlaves(x, y) ==
  /\ y.sentinels = x.sentinels /\ y.disk = x.disk
  /\ y.promoted = x.promoted /\ y.state = x.state /\ y.run = x.run /\ y.addr = x.addr
  /\ y.leader = x.leader /\ y.leader_epoch = x.leader_epoch /\ y.epoch = x.epoch
  /\ y.config_epoch = x.config_epoch /\ y.failover_epoch = x.failover_epoch

Alike(x, y) == y.slaves = x.slaves /\ AlikeButSlaves(x, y)

LEMMA FlagsChanged ==
  ASSUME NEW c, NEW s, NEW x, Sound(c, s, x), NEW y \in States, Alike(x, y),
         "FAILOVER" \in y.flags <=> "FAILOVER" \in x.flags
  PROVE  Sound(c, s, y) /\ SameVotes(x, y)
<1>1. Valid(y)
  BY DEF Sound, Valid, Alike, AlikeButSlaves
<1>2. Epochs(c, y) /\ OnDisk(c, y)
  BY DEF Sound, Epochs, OnDisk, Alike, AlikeButSlaves
<1>3. SameVotes(x, y)
  BY Unrelated DEF Alike, AlikeButSlaves
<1> QED BY <1>1, <1>2, <1>3 DEF Sound, Alike, AlikeButSlaves

\* sentinelCheckSubjectivelyDown and sentinelCheckObjectivelyDown, out of TILT.
LEMMA Checked ==
  ASSUME NEW c, NEW s, NEW x, Sound(c, s, x), NEW down \in BOOLEAN
  PROVE  LET y == CheckObjectivelyDown(
                    CheckSubjectivelyDown([x EXCEPT !.tilt = FALSE], down)) IN
         Sound(c, s, y) /\ SameVotes(x, y) /\ Alike(x, y)
<1> DEFINE w == [x EXCEPT !.tilt = FALSE]
           a == CheckSubjectivelyDown(w, down)
           y == CheckObjectivelyDown(a)
<1>1. x \in States
  BY DEF Sound
<1>2. w \in States /\ Alike(x, w) /\ w.flags = x.flags
  BY <1>1 DEF States, Alike, AlikeButSlaves
<1> HIDE DEF w
<1>3. a \in States /\ Alike(w, a) /\ ("FAILOVER" \in a.flags <=> "FAILOVER" \in w.flags)
  <2>1. a = [w EXCEPT !.flags = IF down THEN w.flags \cup {"S_DOWN"} ELSE w.flags \ {"S_DOWN"}]
    BY DEF CheckSubjectivelyDown
  <2>2. PICK F : F \in {w.flags \cup {"S_DOWN"}, w.flags \ {"S_DOWN"}} /\ a = [w EXCEPT !.flags = F]
    BY <2>1
  <2>3. F \in SUBSET MasterFlags /\ ("FAILOVER" \in F <=> "FAILOVER" \in w.flags)
    BY <1>2, <2>2 DEF States, MasterFlags
  <2> HIDE DEF a
  <2> QED BY <1>2, <2>2, <2>3 DEF States, Alike, AlikeButSlaves
<1> HIDE DEF a
<1>4. y \in States /\ Alike(a, y) /\ ("FAILOVER" \in y.flags <=> "FAILOVER" \in a.flags)
  <2> DEFINE agree == Cardinality({t \in DOMAIN a.sentinels : a.sentinels[t].down})
  <2>1. y = [a EXCEPT !.flags = IF "S_DOWN" \in a.flags /\ 1 + agree >= Quorum
                                THEN a.flags \cup {"O_DOWN"} ELSE a.flags \ {"O_DOWN"}]
    BY DEF CheckObjectivelyDown
  <2> HIDE DEF agree
  <2>2. PICK F : F \in {a.flags \cup {"O_DOWN"}, a.flags \ {"O_DOWN"}} /\ y = [a EXCEPT !.flags = F]
    BY <2>1
  <2>3. F \in SUBSET MasterFlags /\ ("FAILOVER" \in F <=> "FAILOVER" \in a.flags)
    BY <1>3, <2>2 DEF States, MasterFlags
  <2> HIDE DEF y
  <2> QED BY <1>3, <2>2, <2>3 DEF States, Alike, AlikeButSlaves
<1> HIDE DEF y
<1>5. Alike(x, y) /\ ("FAILOVER" \in y.flags <=> "FAILOVER" \in x.flags)
  BY <1>2, <1>3, <1>4 DEF Alike, AlikeButSlaves
<1> QED BY <1>4, <1>5, FlagsChanged DEF y, a, w

\* sentinelStartFailover
LEMMA FailoverStarted ==
  ASSUME NEW c, c.maxEpoch \in Nat, NEW s, NEW x, Sound(c, s, x),
         "FAILOVER" \notin x.flags, x.epoch < c.maxEpoch
  PROVE  LET y == StartFailover(x) IN
         /\ Sound(c, s, y) /\ SameVotes(x, y) /\ y.state = "WAIT_START" /\ y.run = x.run
         /\ y.flags = x.flags \cup {"FAILOVER"}
         /\ y.leader = x.leader /\ y.leader_epoch = x.leader_epoch
<1> DEFINE y == StartFailover(x)
<1>1. x \in States /\ x.state = "NONE"
  BY DEF Sound, Valid
<1>2. x.flags \cup {"FAILOVER"} \subseteq MasterFlags /\ x.epoch + 1 \in Nat
  BY <1>1 DEF States, MasterFlags
<1>3. /\ y \in States /\ y.slaves = x.slaves /\ y.sentinels = x.sentinels /\ y.disk = x.disk
      /\ y.promoted = x.promoted /\ y.state = "WAIT_START" /\ y.run = x.run
      /\ y.flags = x.flags \cup {"FAILOVER"}
      /\ y.leader = x.leader /\ y.leader_epoch = x.leader_epoch /\ y.epoch = x.epoch + 1
      /\ y.config_epoch = x.config_epoch /\ y.failover_epoch = x.epoch + 1
  BY <1>1, <1>2 DEF StartFailover, States, FailoverStates
<1> HIDE DEF y
<1>4. Valid(y)
  BY <1>1, <1>3 DEF Sound, Valid
<1>5. Epochs(c, y) /\ OnDisk(c, y)
  <2>1. /\ x.epoch \in Nat /\ x.config_epoch \in Nat /\ x.leader_epoch \in Nat
        /\ x.failover_epoch \in Nat
    BY <1>1 DEF States
  <2> QED BY <1>3, <2>1 DEF Sound, Epochs, OnDisk
<1>6. SameVotes(x, y)
  BY <1>3, Unrelated
<1> QED BY <1>3, <1>4, <1>5, <1>6 DEF Sound, y

\* sentinelVoteLeader: the vote is the one there was, or the one asked for, in
\* a newer epoch.
LEMMA VotedLeader ==
  ASSUME NEW c, c.maxEpoch \in Nat, NEW s, NEW x, Sound(c, s, x),
         NEW e \in Nat, e <= c.maxEpoch, NEW n \in Runids
  PROVE  LET y == VoteLeader(x, e, n) IN
         /\ Sound(c, s, y) /\ y.state = x.state /\ y.run = x.run /\ y.flags = x.flags
         /\ y.sentinels = x.sentinels
         /\ \/ y.leader = x.leader /\ y.leader_epoch = x.leader_epoch
            \/ y.leader = n /\ y.leader_epoch = e /\ e > x.leader_epoch
<1> DEFINE a == [x EXCEPT !.epoch = e]
           y == IF e > x.epoch THEN FlushConfig(a) ELSE x
           b == [y EXCEPT !.leader = n, !.leader_epoch = y.epoch]
           z == FlushConfig(b)
<1>1. x \in States /\ x.epoch \in Nat
  BY DEF Sound, States
<1>2. /\ Sound(c, s, y) /\ y.state = x.state /\ y.run = x.run /\ y.flags = x.flags
      /\ y.sentinels = x.sentinels /\ y.leader = x.leader /\ y.leader_epoch = x.leader_epoch
      /\ y.epoch = IF e > x.epoch THEN e ELSE x.epoch
  <2>1. CASE e > x.epoch
    <3>1. /\ a \in States /\ a.slaves = x.slaves /\ a.sentinels = x.sentinels
          /\ a.promoted = x.promoted /\ a.state = x.state /\ a.run = x.run
          /\ a.flags = x.flags /\ a.leader = x.leader /\ a.leader_epoch = x.leader_epoch
          /\ a.epoch = e /\ a.config_epoch = x.config_epoch
          /\ a.failover_epoch = x.failover_epoch
      BY <1>1 DEF States
    <3> HIDE DEF a
    <3>2. Valid(a)
      BY <3>1 DEF Sound, Valid
    <3>3. Epochs(c, a)
      <4>1. /\ x.config_epoch \in Nat /\ x.leader_epoch \in Nat /\ x.failover_epoch \in Nat
        BY <1>1 DEF States
      <4> QED BY <1>1, <2>1, <3>1, <4>1 DEF Sound, Epochs
    <3>4. Peered(c, s, DOMAIN a.sentinels)
      BY <3>1 DEF Sound
    <3>5. Sound(c, s, FlushConfig(a)) /\ FlushConfig(a) = [a EXCEPT !.disk = FlushConfig(a).disk]
      BY <3>1, <3>2, <3>3, <3>4, Flushed
    <3>6. /\ FlushConfig(a).state = a.state /\ FlushConfig(a).run = a.run
          /\ FlushConfig(a).flags = a.flags
          /\ FlushConfig(a).sentinels = a.sentinels /\ FlushConfig(a).leader = a.leader
          /\ FlushConfig(a).leader_epoch = a.leader_epoch /\ FlushConfig(a).epoch = a.epoch
      BY <3>1, <3>5 DEF States
    <3> QED BY <2>1, <3>1, <3>5, <3>6
  <2>2. CASE ~(e > x.epoch)
    BY <2>2
  <2> QED BY <2>1, <2>2
<1>3. VoteLeader(x, e, n) = IF y.leader_epoch < e /\ y.epoch <= e THEN z ELSE y
  BY DEF VoteLeader
<1> HIDE DEF y
<1>4. CASE y.leader_epoch < e /\ y.epoch <= e
  <2>1. y \in States /\ y.epoch = e
    BY <1>1, <1>2, <1>4 DEF Sound
  <2>2. /\ b \in States /\ b.slaves = y.slaves /\ b.sentinels = y.sentinels
        /\ b.promoted = y.promoted /\ b.state = y.state /\ b.run = y.run /\ b.flags = y.flags
        /\ b.leader = n /\ b.leader_epoch = e
        /\ b.epoch = e /\ b.config_epoch = y.config_epoch
        /\ b.failover_epoch = y.failover_epoch
    BY <2>1 DEF States
  <2> HIDE DEF b
  <2>3. Valid(b)
    BY <1>2, <2>2 DEF Sound, Valid
  <2>4. Epochs(c, b)
    BY <1>2, <2>1, <2>2 DEF Sound, Epochs
  <2>5. Peered(c, s, DOMAIN b.sentinels)
    BY <1>2, <2>2 DEF Sound
  <2>6. Sound(c, s, z) /\ z = [b EXCEPT !.disk = z.disk]
    BY <2>2, <2>3, <2>4, <2>5, Flushed
  <2> HIDE DEF z
  <2>7. /\ z.state = b.state /\ z.run = b.run /\ z.flags = b.flags /\ z.sentinels = b.sentinels
        /\ z.leader = b.leader /\ z.leader_epoch = b.leader_epoch
    BY <2>2, <2>6 DEF States
  <2>8. e > x.leader_epoch
    BY <1>1, <1>2, <1>4 DEF States
  <2>9. VoteLeader(x, e, n) = z
    BY <1>3, <1>4
  <2> QED BY <1>2, <2>2, <2>6, <2>7, <2>8, <2>9
<1>5. CASE ~(y.leader_epoch < e /\ y.epoch <= e)
  <2>1. VoteLeader(x, e, n) = y
    BY <1>3, <1>5
  <2> QED BY <1>2, <2>1
<1> QED BY <1>4, <1>5

----------------------------------------------------------------------------
(* The failover state machine.                                             *)

\* A step in which s casts at most one vote, in a newer epoch.
VoteStep(x, y) ==
  /\ y.sentinels = x.sentinels
  /\ \/ y.leader = x.leader /\ y.leader_epoch = x.leader_epoch
     \/ y.leader \in Runids /\ y.leader_epoch > x.leader_epoch

GoodOutcome(c, s, x, o) ==
  /\ Sound(c, s, o.x) /\ VoteStep(x, o.x)
  /\ o.slaveof \subseteq Redis \X (Redis \cup {None})

\* A step of the failover: the state, the slaves and the promoted one.
LEMMA FailoverChanged ==
  ASSUME NEW c, NEW s, NEW x, Sound(c, s, x), NEW y \in States, Valid(y),
         y.sentinels = x.sentinels, y.disk = x.disk,
         y.leader = x.leader, y.leader_epoch = x.leader_epoch, y.epoch = x.epoch,
         y.config_epoch = x.config_epoch, y.failover_epoch = x.failover_epoch
  PROVE  Sound(c, s, y) /\ VoteStep(x, y) /\ SameVotes(x, y)
<1>1. Epochs(c, y) /\ OnDisk(c, y)
  BY DEF Sound, Epochs, OnDisk
<1>2. VoteStep(x, y) /\ SameVotes(x, y)
  BY Unrelated DEF VoteStep
<1> QED BY <1>1, <1>2 DEF Sound

LEMMA OutcomeFields ==
  ASSUME NEW x, NEW slaveof
  PROVE  Outcome(x, slaveof).x = x /\ Outcome(x, slaveof).slaveof = slaveof
BY DEF Outcome

LEMMA QuietOutcomes ==
  ASSUME NEW c, NEW s, NEW x, NEW X, \A y \in X : Sound(c, s, y) /\ VoteStep(x, y)
  PROVE  \A o \in Quiet(X) : GoodOutcome(c, s, x, o)
<1>1. ASSUME NEW o \in Quiet(X) PROVE GoodOutcome(c, s, x, o)
  <2>1. PICK y \in X : o = Outcome(y, {})
    BY DEF Quiet
  <2>2. o.x = y /\ o.slaveof = {}
    BY <2>1, OutcomeFields
  <2> QED BY <2>2 DEF GoodOutcome
<1> QED BY <1>1

\* sentinelGetLeader: its own vote.
LEMMA OwnVote ==
  ASSUME NEW c, c.maxEpoch \in Nat, NEW s \in Sentinels, NEW x, Sound(c, s, x),
         NEW y \in OwnVotes(s, x)
  PROVE  Sound(c, s, y) /\ VoteStep(x, y) /\ y.state = x.state /\ y.run = x.run
         /\ y.flags = x.flags
<1>1. x \in States
  BY DEF Sound
<1>2. x.failover_epoch \in Nat /\ x.failover_epoch <= c.maxEpoch
  BY <1>1 DEF Sound, States, Epochs
<1>3. <<s, x.run>> \in Runids
  BY <1>1 DEF States, Runids
<1>4. MostVoted(x) \subseteq Runids
  <2>1. \A t \in DOMAIN x.sentinels : x.sentinels[t] \in Peers
    BY <1>1, InTables DEF States
  <2>2. \A t \in DOMAIN x.sentinels : x.sentinels[t].leader \in Runids \cup {None}
    BY <2>1 DEF Peers
  <2> QED BY <2>2 DEF MostVoted
<1>5. PICK n \in Runids : y = VoteLeader(x, x.failover_epoch, n)
  <2>1. PICK n \in IF MostVoted(x) = {} THEN {<<s, x.run>>} ELSE MostVoted(x) :
          y = VoteLeader(x, x.failover_epoch, n)
    BY DEF OwnVotes
  <2>2. n \in Runids
    BY <1>3, <1>4, <2>1
  <2> QED BY <2>1, <2>2
<1> QED BY <1>2, <1>5, VotedLeader DEF VoteStep

\* sentinelFailoverWaitStart
LEMMA Waited ==
  ASSUME NEW c, c.maxEpoch \in Nat, NEW s \in Sentinels, NEW x, Sound(c, s, x),
         x.state = "WAIT_START", NEW o \in WaitStart(s, x)
  PROVE  GoodOutcome(c, s, x, o)
<1>1. ASSUME NEW y \in OwnVotes(s, x)
      PROVE  /\ Sound(c, s, y) /\ VoteStep(x, y)
             /\ Sound(c, s, AbortFailover(y)) /\ VoteStep(x, AbortFailover(y))
             /\ Sound(c, s, [y EXCEPT !.state = "SELECT_SLAVE"])
             /\ VoteStep(x, [y EXCEPT !.state = "SELECT_SLAVE"])
  <2>1. Sound(c, s, y) /\ VoteStep(x, y) /\ y.state = "WAIT_START"
    BY OwnVote
  <2>2. Sound(c, s, AbortFailover(y)) /\ VoteStep(x, AbortFailover(y))
    <3>1. /\ Sound(c, s, AbortFailover(y)) /\ AbortFailover(y).leader = y.leader
          /\ AbortFailover(y).leader_epoch = y.leader_epoch
      BY <2>1, Aborted
    <3>2. AbortFailover(y).sentinels = y.sentinels
      BY <2>1 DEF Sound, AbortFailover, States
    <3> QED BY <2>1, <3>1, <3>2 DEF VoteStep
  <2>3. Sound(c, s, [y EXCEPT !.state = "SELECT_SLAVE"])
        /\ VoteStep(x, [y EXCEPT !.state = "SELECT_SLAVE"])
    <3> DEFINE z == [y EXCEPT !.state = "SELECT_SLAVE"]
    <3>1. y \in States
      BY <2>1 DEF Sound
    <3>2. /\ z \in States /\ z.sentinels = y.sentinels /\ z.disk = y.disk
          /\ z.leader = y.leader /\ z.leader_epoch = y.leader_epoch /\ z.epoch = y.epoch
          /\ z.config_epoch = y.config_epoch /\ z.failover_epoch = y.failover_epoch
          /\ z.state = "SELECT_SLAVE" /\ z.slaves = y.slaves /\ z.promoted = y.promoted
          /\ z.flags = y.flags
      BY <3>1 DEF States, FailoverStates
    <3> HIDE DEF z
    <3>3. Valid(z)
      BY <2>1, <3>2 DEF Sound, Valid
    <3>4. Sound(c, s, z)
      BY <2>1, <3>2, <3>3, FailoverChanged
    <3>5. VoteStep(x, z)
      BY <2>1, <3>2 DEF VoteStep
    <3> QED BY <3>4, <3>5 DEF z
  <2> QED BY <2>1, <2>2, <2>3
<1> DEFINE X(y) == IF IsLeader(s, x, y) \/ "FORCE" \in x.flags
                   THEN {[y EXCEPT !.state = "SELECT_SLAVE"]} ELSE {y, AbortFailover(y)}
<1>2. WaitStart(s, x) = Quiet(UNION {X(y) : y \in OwnVotes(s, x)})
  BY DEF WaitStart
<1>3. \A y \in OwnVotes(s, x) : \A z \in X(y) : Sound(c, s, z) /\ VoteStep(x, z)
  BY <1>1
<1> HIDE DEF X
<1>4. \A z \in UNION {X(y) : y \in OwnVotes(s, x)} : Sound(c, s, z) /\ VoteStep(x, z)
  BY <1>3
<1> QED BY <1>2, <1>4, QuietOutcomes

LEMMA Stays ==
  ASSUME NEW x PROVE VoteStep(x, x) /\ SameVotes(x, x)
BY DEF VoteStep, SameVotes

LEMMA AbortStep ==
  ASSUME NEW c, NEW s, NEW x, Sound(c, s, x), x.state \notin {"RECONF_SLAVES", "UPDATE_CONFIG"}
  PROVE  Sound(c, s, AbortFailover(x)) /\ VoteStep(x, AbortFailover(x))
<1>1. AbortFailover(x).sentinels = x.sentinels
  BY DEF Sound, AbortFailover, States
<1> QED BY <1>1, Aborted DEF VoteStep

\* sentinelFailoverSelectSlave
LEMMA Selected ==
  ASSUME NEW c, NEW s, NEW x, Sound(c, s, x), x.state = "SELECT_SLAVE", NEW gone,
         NEW o \in SelectSlave(x, gone)
  PROVE  GoodOutcome(c, s, x, o)
<1> DEFINE with(r) == [x EXCEPT !.slaves[r] = @ \cup {"PROMOTED"}, !.promoted = r,
                                !.state = "SEND_SLAVEOF_NOONE"]
           X == IF GoodSlaves(x, gone) = {} THEN {AbortFailover(x)}
                ELSE {with(r) : r \in BestSlaves(x, gone)}
<1>1. ASSUME NEW r \in BestSlaves(x, gone)
      PROVE  Sound(c, s, with(r)) /\ VoteStep(x, with(r))
  <2> DEFINE f == [x.slaves EXCEPT ![r] = @ \cup {"PROMOTED"}]
             y == [x EXCEPT !.slaves = f, !.promoted = r, !.state = "SEND_SLAVEOF_NOONE"]
  <2>1. x \in States /\ x.slaves \in [DOMAIN x.slaves -> SUBSET SlaveFlags]
        /\ DOMAIN x.slaves \subseteq Redis /\ r \in DOMAIN x.slaves
    BY InTables DEF Sound, States, BestSlaves, GoodSlaves
  <2>2. /\ f \in [DOMAIN x.slaves -> SUBSET SlaveFlags] /\ DOMAIN f = DOMAIN x.slaves
        /\ f[r] = x.slaves[r] \cup {"PROMOTED"}
        /\ \A q \in DOMAIN f : q # r => f[q] = x.slaves[q]
    BY <2>1 DEF SlaveFlags
  <2>3. f \in Tables(Redis, SUBSET SlaveFlags)
    BY <2>1, <2>2, InTables
  <2>4. with(r) = y
    BY <2>1 DEF States
  <2> HIDE DEF f
  <2>5. /\ y \in States /\ y.sentinels = x.sentinels /\ y.disk = x.disk
        /\ y.leader = x.leader /\ y.leader_epoch = x.leader_epoch /\ y.epoch = x.epoch
        /\ y.config_epoch = x.config_epoch /\ y.failover_epoch = x.failover_epoch
        /\ y.state = "SEND_SLAVEOF_NOONE" /\ y.slaves = f /\ y.promoted = r
        /\ y.flags = x.flags
    BY <2>1, <2>3 DEF States, FailoverStates
  <2> HIDE DEF y
  <2>6. Valid(y)
    <3>1. x.promoted = None /\ r # None /\ \A q \in DOMAIN f : q # None
      BY <2>1, <2>2, ConstantsAssumption DEF Sound, Valid
    <3>2. \A q \in DOMAIN f : "PROMOTED" \in f[q] <=> q = r
      BY <2>2, <3>1 DEF Sound, Valid
    <3>3. \A q \in DOMAIN f : f[q] \cap {"SENT", "INPROG"} = {}
      BY <2>1, <2>2 DEF Sound, Valid
    <3>4. r \in DOMAIN f /\ "FAILOVER" \in x.flags
      BY <2>1, <2>2 DEF Sound, Valid
    <3> QED BY <2>5, <3>1, <3>2, <3>3, <3>4 DEF Valid
  <2>7. Sound(c, s, y) /\ VoteStep(x, y)
    BY <2>5, <2>6, FailoverChanged
  <2> QED BY <2>4, <2>7
<1>2. SelectSlave(x, gone) = Quiet(X)
  BY DEF SelectSlave
<1> HIDE DEF with
<1>3. \A y \in X : Sound(c, s, y) /\ VoteStep(x, y)
  BY <1>1, AbortStep
<1> HIDE DEF X
<1> QED BY <1>2, <1>3, QuietOutcomes

\* sentinelFailoverSendSlaveOfNoOne
LEMMA NoOneSent ==
  ASSUME NEW c, NEW s, NEW x, Sound(c, s, x), x.state = "SEND_SLAVEOF_NOONE",
         NEW gone, NEW o \in SendSlaveOfNoOne(x, gone)
  PROVE  GoodOutcome(c, s, x, o)
<1> DEFINE y == [x EXCEPT !.state = "WAIT_PROMOTION"]
           X == {x, AbortFailover(x)}
<1>1. x \in States
  BY DEF Sound
<1>2. /\ y \in States /\ y.sentinels = x.sentinels /\ y.disk = x.disk
      /\ y.leader = x.leader /\ y.leader_epoch = x.leader_epoch /\ y.epoch = x.epoch
      /\ y.config_epoch = x.config_epoch /\ y.failover_epoch = x.failover_epoch
      /\ y.state = "WAIT_PROMOTION" /\ y.slaves = x.slaves /\ y.promoted = x.promoted
      /\ y.flags = x.flags
  BY <1>1 DEF States, FailoverStates
<1>3. o \in Quiet(X) \/ o = Outcome(y, {<<x.promoted, None>>})
  BY DEF SendSlaveOfNoOne
<1> HIDE DEF y
<1>4. Valid(y)
  BY <1>2 DEF Sound, Valid
<1>5. Sound(c, s, y) /\ VoteStep(x, y)
  BY <1>2, <1>4, FailoverChanged
<1>6. <<x.promoted, None>> \in Redis \X (Redis \cup {None})
  BY <1>1 DEF Sound, Valid, States
<1>7. \A z \in X : Sound(c, s, z) /\ VoteStep(x, z)
  BY AbortStep, Stays
<1>8. CASE o \in Quiet(X)
  <2> HIDE DEF X
  <2> QED BY <1>7, <1>8, QuietOutcomes
<1>9. CASE o = Outcome(y, {<<x.promoted, None>>})
  BY <1>5, <1>6, <1>9, OutcomeFields DEF GoodOutcome
<1> QED BY <1>3, <1>8, <1>9

\* Other flags of the slaves: none is marked as promoted or loses the mark, and
\* slaves are reconfigured only in their state.
LEMMA SlavesChanged ==
  ASSUME NEW c, NEW s, NEW x, Sound(c, s, x), NEW y \in States,
         AlikeButSlaves(x, y), y.flags = x.flags, DOMAIN y.slaves = DOMAIN x.slaves,
         \A r \in DOMAIN x.slaves : "PROMOTED" \in y.slaves[r] <=> "PROMOTED" \in x.slaves[r],
         (\E r \in DOMAIN x.slaves : y.slaves[r] \cap {"SENT", "INPROG"} # {})
           => x.state \in {"RECONF_SLAVES", "UPDATE_CONFIG"}
  PROVE  Sound(c, s, y) /\ VoteStep(x, y) /\ SameVotes(x, y)
<1>1. Valid(y)
  BY DEF Sound, Valid, AlikeButSlaves
<1> QED BY <1>1, FailoverChanged DEF AlikeButSlaves

\* sentinelFailoverDetectEnd
LEMMA EndDetected ==
  ASSUME NEW c, NEW s, NEW x, Sound(c, s, x), x.state = "RECONF_SLAVES", NEW timeout \in BOOLEAN,
         NEW gone
  PROVE  GoodOutcome(c, s, x, DetectEnd(x, timeout, gone))
<1> DEFINE waiting == {r \in DOMAIN x.slaves :
                        x.slaves[r] \cap {"PROMOTED", "DONE", "S_DOWN"} = {}}
           rest == {r \in DOMAIN x.slaves \ gone : x.slaves[r] \cap {"DONE", "SENT"} = {}}
           f == [r \in DOMAIN x.slaves |->
                   IF r \in rest THEN x.slaves[r] \cup {"SENT"} ELSE x.slaves[r]]
           y == [x EXCEPT !.state = "UPDATE_CONFIG", !.slaves = f]
           z == [x EXCEPT !.state = IF waiting = {} THEN "UPDATE_CONFIG" ELSE x.state]
           sent == {<<r, x.promoted>> : r \in rest}
<1>1. x \in States /\ x.slaves \in [DOMAIN x.slaves -> SUBSET SlaveFlags]
      /\ DOMAIN x.slaves \subseteq Redis /\ rest \subseteq DOMAIN x.slaves
  BY InTables DEF Sound, States
<1>2. \/ DetectEnd(x, timeout, gone) = Outcome(x, {})
      \/ DetectEnd(x, timeout, gone) = Outcome(y, sent)
      \/ DetectEnd(x, timeout, gone) = Outcome(z, {})
  <2>1. [x EXCEPT !.state = "UPDATE_CONFIG",
                  !.slaves = [r \in DOMAIN @ |->
                     IF r \in rest THEN @[r] \cup {"SENT"} ELSE @[r]]] = y
    BY <1>1 DEF States
  <2>2. [x EXCEPT !.state = IF waiting = {} THEN "UPDATE_CONFIG" ELSE @] = z
    BY <1>1 DEF States
  <2> QED BY <2>1, <2>2 DEF DetectEnd
<1> HIDE DEF waiting
<1>3. /\ f \in [DOMAIN x.slaves -> SUBSET SlaveFlags] /\ DOMAIN f = DOMAIN x.slaves
      /\ \A r \in DOMAIN f : "PROMOTED" \in f[r] <=> "PROMOTED" \in x.slaves[r]
  BY <1>1 DEF SlaveFlags
<1>4. f \in Tables(Redis, SUBSET SlaveFlags)
  BY <1>1, <1>3, InTables
<1> HIDE DEF f, rest
<1>5. Sound(c, s, y) /\ VoteStep(x, y)
  <2>1. /\ y \in States /\ y.sentinels = x.sentinels /\ y.disk = x.disk
        /\ y.leader = x.leader /\ y.leader_epoch = x.leader_epoch /\ y.epoch = x.epoch
        /\ y.config_epoch = x.config_epoch /\ y.failover_epoch = x.failover_epoch
        /\ y.state = "UPDATE_CONFIG" /\ y.slaves = f /\ y.promoted = x.promoted
        /\ y.flags = x.flags
    BY <1>1, <1>4 DEF States, FailoverStates
  <2> HIDE DEF y
  <2>2. Valid(y)
    BY <1>3, <2>1 DEF Sound, Valid
  <2> QED BY <2>1, <2>2, FailoverChanged
<1>6. Sound(c, s, z) /\ VoteStep(x, z)
  <2>1. /\ z \in States /\ z.sentinels = x.sentinels /\ z.disk = x.disk
        /\ z.leader = x.leader /\ z.leader_epoch = x.leader_epoch /\ z.epoch = x.epoch
        /\ z.config_epoch = x.config_epoch /\ z.failover_epoch = x.failover_epoch
        /\ z.state \in {"RECONF_SLAVES", "UPDATE_CONFIG"} /\ z.slaves = x.slaves
        /\ z.promoted = x.promoted /\ z.flags = x.flags
    BY <1>1 DEF States, FailoverStates
  <2> HIDE DEF z
  <2>2. Valid(z)
    BY <2>1 DEF Sound, Valid
  <2> QED BY <2>1, <2>2, FailoverChanged
<1>7. sent \subseteq Redis \X (Redis \cup {None})
  <2>1. x.promoted \in Redis \cup {None}
    BY <1>1 DEF States
  <2> QED BY <1>1, <2>1
<1>8. Sound(c, s, x) /\ VoteStep(x, x)
  BY Stays
<1> HIDE DEF y, z, sent
<1> QED BY <1>2, <1>5, <1>6, <1>7, <1>8, OutcomeFields DEF GoodOutcome

\* sentinelFailoverReconfNextSlave
LEMMA NextReconfigured ==
  ASSUME NEW c, NEW s, NEW x, Sound(c, s, x), x.state = "RECONF_SLAVES", NEW gone,
         NEW o \in ReconfNextSlave(x, gone)
  PROVE  GoodOutcome(c, s, x, o)
<1> DEFINE busy == {r \in DOMAIN x.slaves : x.slaves[r] \cap {"SENT", "INPROG"} # {}}
           room == ParallelSyncs - Cardinality(busy)
           late == {r \in busy : /\ "SENT" \in x.slaves[r]
                                 /\ x.slaves[r] \cap {"PROMOTED", "DONE"} = {}}
           next == {r \in DOMAIN x.slaves \ gone :
                      x.slaves[r] \cap {"PROMOTED", "DONE", "SENT", "INPROG"} = {}}
           full(S, L) == Cardinality(S) + Cardinality(L \ gone)
           visited == {v \in (SUBSET next) \X (SUBSET late) :
                         \/ full(v[1], v[2]) = room
                         \/ v[1] = next /\ full(v[1], v[2]) < room}
           marked(S, L, r) ==
             (IF r \in L THEN (x.slaves[r] \ {"SENT"}) \cup {"DONE"} ELSE x.slaves[r])
               \cup (IF r \in S \cup (L \ gone) THEN {"SENT"} ELSE {})
           f(S, L) == [r \in DOMAIN x.slaves |-> marked(S, L, r)]
           after(S, L) == [x EXCEPT !.slaves = [r \in DOMAIN @ |->
              (IF r \in L THEN (@[r] \ {"SENT"}) \cup {"DONE"} ELSE @[r])
                \cup (IF r \in S \cup (L \ gone) THEN {"SENT"} ELSE {})]]
           sent(S, L) == {<<r, x.promoted>> : r \in S \cup (L \ gone)}
           result(S, L, t) == Outcome(DetectEnd(after(S, L), t, gone).x,
                                DetectEnd(after(S, L), t, gone).slaveof \cup sent(S, L))
<1>1. x \in States /\ x.slaves \in [DOMAIN x.slaves -> SUBSET SlaveFlags]
      /\ DOMAIN x.slaves \subseteq Redis /\ next \subseteq DOMAIN x.slaves
      /\ late \subseteq DOMAIN x.slaves
  BY InTables DEF Sound, States
<1>2. \/ \E t \in BOOLEAN : o = DetectEnd(x, t, gone)
      \/ \E S \in SUBSET next, L \in SUBSET late, t \in BOOLEAN : o = result(S, L, t)
  <2>1. ReconfNextSlave(x, gone) =
          IF room <= 0 THEN {DetectEnd(x, t, gone) : t \in BOOLEAN}
          ELSE {result(v[1], v[2], t) : v \in visited, t \in BOOLEAN}
    BY DEF ReconfNextSlave
  <2>2. \A v \in visited : v[1] \in SUBSET next /\ v[2] \in SUBSET late
    OBVIOUS
  <2> HIDE DEF result, visited, room, late, next
  <2> QED BY <2>1, <2>2
<1>3. CASE \E t \in BOOLEAN : o = DetectEnd(x, t, gone)
  BY <1>3, EndDetected
<1>4. ASSUME NEW S \in SUBSET next, NEW L \in SUBSET late, NEW t \in BOOLEAN,
             o = result(S, L, t)
      PROVE  GoodOutcome(c, s, x, o)
  <2> DEFINE g == f(S, L)
             y == after(S, L)
             d == DetectEnd(y, t, gone)
  <2>1. /\ g \in [DOMAIN x.slaves -> SUBSET SlaveFlags] /\ DOMAIN g = DOMAIN x.slaves
        /\ \A r \in DOMAIN g : "PROMOTED" \in g[r] <=> "PROMOTED" \in x.slaves[r]
    <3>1. ASSUME NEW r \in DOMAIN x.slaves
          PROVE  /\ marked(S, L, r) \in SUBSET SlaveFlags
                 /\ "PROMOTED" \in marked(S, L, r) <=> "PROMOTED" \in x.slaves[r]
      BY <1>1 DEF SlaveFlags
    <3> QED BY <3>1
  <2>2. g \in Tables(Redis, SUBSET SlaveFlags)
    BY <1>1, <2>1, InTables
  <2>3. sent(S, L) \subseteq Redis \X (Redis \cup {None})
    <3>1. x.promoted \in Redis \cup {None} /\ S \cup (L \ gone) \subseteq Redis
      BY <1>1 DEF States
    <3> QED BY <3>1
  <2>4. o.x = d.x /\ o.slaveof = d.slaveof \cup sent(S, L)
    BY <1>4, OutcomeFields
  <2>5. /\ Sound(c, s, y) /\ y.state = "RECONF_SLAVES" /\ VoteStep(x, y)
        /\ y.leader = x.leader /\ y.leader_epoch = x.leader_epoch
    <3>1. y = [x EXCEPT !.slaves = g]
      BY <1>1 DEF States
    <3> HIDE DEF g, y
    <3>2. /\ y \in States /\ AlikeButSlaves(x, y) /\ y.slaves = g /\ y.flags = x.flags
          /\ y.state = "RECONF_SLAVES" /\ y.leader = x.leader /\ y.leader_epoch = x.leader_epoch
      BY <1>1, <2>2, <3>1 DEF States, AlikeButSlaves
    <3> QED BY <2>1, <3>2, SlavesChanged
  <2> HIDE DEF y
  <2>6. GoodOutcome(c, s, y, d)
    BY <2>5, EndDetected
  <2> HIDE DEF y, d, sent, g
  <2> QED BY <2>3, <2>4, <2>5, <2>6 DEF GoodOutcome, VoteStep
<1> QED BY <1>2, <1>3, <1>4

\* sentinelFailoverStateMachine
LEMMA FailoverStep ==
  ASSUME NEW c, c.maxEpoch \in Nat, NEW s \in Sentinels, NEW x, Sound(c, s, x),
         NEW o \in StateMachine(s, x)
  PROVE  GoodOutcome(c, s, x, o)
<1>1. \A p \in Quiet({x}) : GoodOutcome(c, s, x, p)
  BY Stays, QuietOutcomes
<1>2. CASE o \in Quiet({x})
  BY <1>1, <1>2
<1>3. CASE x.state = "WAIT_START" /\ o \in WaitStart(s, x)
  BY <1>3, Waited
<1>4. CASE x.state = "SELECT_SLAVE" /\ \E gone \in Gone : o \in SelectSlave(x, gone)
  BY <1>4, Selected
<1>5. CASE x.state = "SEND_SLAVEOF_NOONE" /\ \E gone \in Gone : o \in SendSlaveOfNoOne(x, gone)
  BY <1>5, NoOneSent
<1>6. CASE x.state = "WAIT_PROMOTION" /\ o \in WaitPromotion(x)
  <2>1. \A y \in {x, AbortFailover(x)} : Sound(c, s, y) /\ VoteStep(x, y)
    BY <1>6, AbortStep, Stays
  <2>2. o \in Quiet({x, AbortFailover(x)})
    BY <1>6 DEF WaitPromotion
  <2> QED BY <2>1, <2>2, QuietOutcomes
<1>7. CASE x.state = "RECONF_SLAVES" /\ \E gone \in Gone : o \in ReconfNextSlave(x, gone)
  BY <1>7, NextReconfigured
<1> QED BY <1>2, <1>3, <1>4, <1>5, <1>6, <1>7 DEF StateMachine

----------------------------------------------------------------------------
(* What a sentinel knows of the votes V cast so far.                       *)

Vote(v, e, n) == [voter |-> v, epoch |-> e, leader |-> n]

\* Its own vote, and the votes of the others, were cast.
Knows(s, x, V) ==
  /\ x.leader # None => Vote(s, x.leader_epoch, x.leader) \in V
  /\ \A t \in DOMAIN x.sentinels :
       x.sentinels[t].leader # None =>
         Vote(t, x.sentinels[t].leader_epoch, x.sentinels[t].leader) \in V

LEMMA KnowsMore ==
  ASSUME NEW s, NEW x, NEW y, NEW V, NEW W, Knows(s, x, V), V \subseteq W, SameVotes(x, y)
  PROVE  Knows(s, y, W)
BY DEF Knows, SameVotes

\* sentinelVoteLeader, the vote known and recorded.
LEMMA VoteCast ==
  ASSUME NEW s, NEW x, NEW y, NEW V, Knows(s, x, V), VoteStep(x, y),
         x.leader_epoch \in Nat, y.leader_epoch \in Nat
  PROVE  /\ Knows(s, y, V \cup Cast(s, x, y))
         /\ \/ Cast(s, x, y) = {} /\ y.leader_epoch = x.leader_epoch
            \/ /\ y.leader_epoch > x.leader_epoch
               /\ \E n \in Runids : Cast(s, x, y) = {Vote(s, y.leader_epoch, n)}
<1>1. CASE y.leader = x.leader /\ y.leader_epoch = x.leader_epoch
  <2>1. Cast(s, x, y) = {}
    BY <1>1 DEF Cast
  <2> QED BY <1>1, <2>1 DEF Knows, VoteStep
<1>2. CASE y.leader \in Runids /\ y.leader_epoch > x.leader_epoch
  <2>1. y.leader # None /\ y.leader_epoch # x.leader_epoch
    BY <1>2, ConstantsAssumption DEF Runids
  <2>2. Cast(s, x, y) = {Vote(s, y.leader_epoch, y.leader)}
    BY <2>1 DEF Cast, Vote
  <2> QED BY <1>2, <2>2 DEF Knows, VoteStep
<1> QED BY <1>1, <1>2 DEF VoteStep

\* An answer about the vote of a.from.
Answer(c, a, V) ==
  /\ {a.from, a.to} \subseteq c.sentinels
  /\ a.down \in BOOLEAN /\ a.leader \in Runids \cup {None} /\ a.leader_epoch \in Nat
  /\ a.leader # None => Vote(a.from, a.leader_epoch, a.leader) \in V

\* Other peers, known as they were or by votes that were cast.
LEMMA PeersChanged ==
  ASSUME NEW c, NEW s, NEW x, Sound(c, s, x), NEW V, Knows(s, x, V),
         NEW f, f \in [DOMAIN f -> Peers], DOMAIN f = DOMAIN x.sentinels,
         \A t \in DOMAIN f : \/ f[t] = x.sentinels[t] \/ f[t].leader = None
                            \/ Vote(t, f[t].leader_epoch, f[t].leader) \in V
                            \/ /\ f[t].leader = x.sentinels[t].leader
                               /\ f[t].leader_epoch = x.sentinels[t].leader_epoch
  PROVE  LET y == [x EXCEPT !.sentinels = f] IN
         /\ Sound(c, s, y) /\ Knows(s, y, V) /\ y.state = x.state
         /\ y.leader_epoch = x.leader_epoch
<1> DEFINE y == [x EXCEPT !.sentinels = f]
<1>1. x \in States /\ DOMAIN x.sentinels \subseteq Sentinels
  BY InTables DEF Sound, States
<1>2. f \in Tables(Sentinels, Peers)
  BY <1>1, InTables
<1>3. /\ y \in States /\ y.sentinels = f /\ y.disk = x.disk /\ y.slaves = x.slaves
      /\ y.promoted = x.promoted /\ y.state = x.state /\ y.flags = x.flags
      /\ y.leader = x.leader /\ y.leader_epoch = x.leader_epoch /\ y.epoch = x.epoch
      /\ y.config_epoch = x.config_epoch /\ y.failover_epoch = x.failover_epoch
  BY <1>1, <1>2 DEF States
<1> HIDE DEF y
<1>4. Valid(y)
  BY <1>3 DEF Sound, Valid
<1>5. Epochs(c, y) /\ OnDisk(c, y)
  BY <1>3 DEF Sound, Epochs, OnDisk
<1>6. Sound(c, s, y)
  BY <1>3, <1>4, <1>5 DEF Sound
<1>7. Knows(s, y, V)
  BY <1>3 DEF Knows
<1> QED BY <1>3, <1>6, <1>7 DEF y

\* sentinelReceiveIsMasterDownReply
LEMMA ReplyReceived ==
  ASSUME NEW c, NEW s, NEW x, Sound(c, s, x), NEW V, Knows(s, x, V), NEW a, Answer(c, a, V)
  PROVE  LET y == ReceiveReply(x, a) IN
         /\ Sound(c, s, y) /\ Knows(s, y, V) /\ y.state = x.state
         /\ y.leader_epoch = x.leader_epoch
<1>1. CASE a.from \notin DOMAIN x.sentinels
  BY <1>1 DEF ReceiveReply
<1>2. CASE a.from \in DOMAIN x.sentinels
  <2> DEFINE p == x.sentinels[a.from]
             q == IF a.leader = None THEN [p EXCEPT !.down = a.down]
                  ELSE [p EXCEPT !.down = a.down, !.leader = a.leader,
                                 !.leader_epoch = a.leader_epoch]
             f == [x.sentinels EXCEPT ![a.from] = q]
  <2>1. x \in States /\ x.sentinels \in [DOMAIN x.sentinels -> Peers]
    BY InTables DEF Sound, States
  <2>2. ReceiveReply(x, a) = [x EXCEPT !.sentinels = f]
    BY <1>2, <2>1 DEF ReceiveReply, States
  <2>3. p \in Peers
    BY <1>2, <2>1
  <2>4. /\ q \in Peers
        /\ \/ q.leader = p.leader /\ q.leader_epoch = p.leader_epoch
           \/ Vote(a.from, q.leader_epoch, q.leader) \in V
    <3>1. CASE a.leader = None
      BY <2>3, <3>1 DEF Peers, Answer
    <3>2. CASE a.leader # None
      BY <2>3, <3>2 DEF Peers, Answer
    <3> QED BY <3>1, <3>2
  <2> HIDE DEF q
  <2>5. /\ f \in [DOMAIN f -> Peers] /\ DOMAIN f = DOMAIN x.sentinels /\ f[a.from] = q
        /\ \A t \in DOMAIN f : t # a.from => f[t] = x.sentinels[t]
    BY <1>2, <2>1, <2>4
  <2> HIDE DEF f
  <2> QED BY <2>2, <2>4, <2>5, PeersChanged
<1> QED BY <1>1, <1>2

\* sentinelAskMasterStateToOtherSentinels: an old answer is forgotten.
WithoutAnswer(x, t) ==
  [x EXCEPT !.sentinels[t] = [@ EXCEPT !.down = FALSE, !.leader = None]]

LEMMA AnswerForgotten ==
  ASSUME NEW c, NEW s, NEW x, Sound(c, s, x), NEW V, Knows(s, x, V),
         NEW t \in DOMAIN x.sentinels
  PROVE  LET y == WithoutAnswer(x, t) IN
         /\ Sound(c, s, y) /\ Knows(s, y, V) /\ y.state = x.state
         /\ y.leader_epoch = x.leader_epoch
<1> DEFINE p == x.sentinels[t]
           q == [p EXCEPT !.down = FALSE, !.leader = None]
           f == [x.sentinels EXCEPT ![t] = q]
<1>1. x \in States /\ x.sentinels \in [DOMAIN x.sentinels -> Peers]
  BY InTables DEF Sound, States
<1>2. p \in Peers
  BY <1>1
<1>3. WithoutAnswer(x, t) = [x EXCEPT !.sentinels = f]
  BY <1>1, <1>2 DEF States, Peers, WithoutAnswer
<1>4. q \in Peers /\ q.leader = None
  BY <1>2 DEF Peers
<1> HIDE DEF q
<1>5. /\ f \in [DOMAIN f -> Peers] /\ DOMAIN f = DOMAIN x.sentinels /\ f[t] = q
      /\ \A u \in DOMAIN f : u # t => f[u] = x.sentinels[u]
  BY <1>1, <1>4
<1> HIDE DEF f
<1> QED BY <1>3, <1>4, <1>5, PeersChanged

\* sentinelProcessHelloMessage
LEMMA HelloProcessed ==
  ASSUME NEW c, c.maxEpoch \in Nat, c.sentinels \subseteq Sentinels,
         NEW s, NEW x, Sound(c, s, x), x.state # "UPDATE_CONFIG",
         NEW t \in c.sentinels \ {s}, NEW h, h.runid \in Runids, h.addr \in Redis,
         h.epoch \in Nat, h.config_epoch \in Nat,
         h.epoch <= c.maxEpoch, h.config_epoch <= h.epoch
  PROVE  LET y == ProcessHello(x, t, h) IN
         Sound(c, s, y) /\ SameVotes(x, y) /\ y.state # "UPDATE_CONFIG"
<1> DEFINE f == [u \in DOMAIN x.sentinels \cup {t} |->
                   IF u = t THEN NewPeer(h.runid) ELSE x.sentinels[u]]
           w == [x EXCEPT !.sentinels = f]
           a == IF t \in DOMAIN x.sentinels /\ x.sentinels[t].runid = h.runid
                THEN x ELSE FlushConfig(w)
           v == [a EXCEPT !.epoch = h.epoch]
           b == IF h.epoch > a.epoch THEN FlushConfig(v) ELSE a
           d == [b EXCEPT !.config_epoch = h.config_epoch]
           y == IF b.config_epoch >= h.config_epoch THEN b
                ELSE IF h.addr # b.addr THEN ChangeAddress(d, h.addr) ELSE d
<1>1. /\ x \in States /\ x.sentinels \in [DOMAIN x.sentinels -> Peers]
      /\ DOMAIN x.sentinels \subseteq Sentinels /\ x.epoch \in Nat
  BY InTables DEF Sound, States
<1>2. ProcessHello(x, t, h) = y
  BY <1>1 DEF ProcessHello, States
<1>3. Sound(c, s, a) /\ SameVotes(x, a) /\ a.state = x.state
  <2>1. CASE a = x
    BY <2>1, Stays
  <2>2. CASE a = FlushConfig(w)
    <3>1. NewPeer(h.runid) \in Peers /\ NewPeer(h.runid).leader = None
      BY DEF NewPeer, Peers
    <3>2. /\ f \in [DOMAIN f -> Peers] /\ DOMAIN f = DOMAIN x.sentinels \cup {t}
          /\ f[t].leader = None
          /\ \A u \in DOMAIN f : u # t => u \in DOMAIN x.sentinels /\ f[u] = x.sentinels[u]
      BY <1>1, <3>1
    <3> HIDE DEF f
    <3>3. f \in Tables(Sentinels, Peers)
      BY <1>1, <3>2, InTables
    <3>4. /\ w \in States /\ w.sentinels = f /\ w.slaves = x.slaves
          /\ w.promoted = x.promoted /\ w.state = x.state /\ w.flags = x.flags
          /\ w.leader = x.leader /\ w.leader_epoch = x.leader_epoch /\ w.epoch = x.epoch
          /\ w.config_epoch = x.config_epoch /\ w.failover_epoch = x.failover_epoch
      BY <1>1, <3>3 DEF States
    <3> HIDE DEF w
    <3>5. Valid(w) /\ Epochs(c, w)
      BY <3>4 DEF Sound, Valid, Epochs
    <3>6. Peered(c, s, DOMAIN w.sentinels)
      BY <3>2, <3>4 DEF Sound, Peered
    <3>7. SameVotes(x, w)
      BY <3>2, <3>4 DEF SameVotes
    <3>8. /\ Sound(c, s, FlushConfig(w)) /\ SameVotes(w, FlushConfig(w))
          /\ FlushConfig(w) = [w EXCEPT !.disk = FlushConfig(w).disk]
      BY <3>4, <3>5, <3>6, Flushed
    <3>9. FlushConfig(w).state = w.state
      BY <3>4, <3>8 DEF States
    <3> QED BY <2>2, <3>4, <3>7, <3>8, <3>9, SameVotesTransitive
  <2> QED BY <2>1, <2>2
<1> HIDE DEF a
<1>4. Sound(c, s, b) /\ SameVotes(a, b) /\ b.state = a.state /\ h.epoch <= b.epoch
  <2>1. a \in States /\ a.epoch \in Nat
    BY <1>3 DEF Sound, States
  <2>2. CASE h.epoch > a.epoch
    <3>1. /\ v \in States /\ v.sentinels = a.sentinels /\ v.slaves = a.slaves
          /\ v.promoted = a.promoted /\ v.state = a.state /\ v.flags = a.flags
          /\ v.leader = a.leader /\ v.leader_epoch = a.leader_epoch /\ v.epoch = h.epoch
          /\ v.config_epoch = a.config_epoch /\ v.failover_epoch = a.failover_epoch
      BY <2>1 DEF States
    <3> HIDE DEF v
    <3>2. Valid(v)
      BY <1>3, <3>1 DEF Sound, Valid
    <3>3. Epochs(c, v)
      <4>1. a.config_epoch \in Nat /\ a.leader_epoch \in Nat /\ a.failover_epoch \in Nat
        BY <2>1 DEF States
      <4> QED BY <1>3, <2>1, <2>2, <3>1, <4>1 DEF Sound, Epochs
    <3>4. Peered(c, s, DOMAIN v.sentinels) /\ SameVotes(a, v)
      BY <1>3, <3>1, Unrelated DEF Sound
    <3>5. /\ Sound(c, s, FlushConfig(v)) /\ SameVotes(v, FlushConfig(v))
          /\ FlushConfig(v) = [v EXCEPT !.disk = FlushConfig(v).disk]
      BY <3>1, <3>2, <3>3, <3>4, Flushed
    <3>6. FlushConfig(v).state = v.state /\ FlushConfig(v).epoch = v.epoch
      BY <3>1, <3>5 DEF States
    <3>7. b = FlushConfig(v)
      BY <2>2
    <3> HIDE DEF b
    <3> QED BY <3>1, <3>4, <3>5, <3>6, <3>7, SameVotesTransitive
  <2>3. CASE ~(h.epoch > a.epoch)
    <3>1. b = a
      BY <2>3
    <3> HIDE DEF b
    <3> QED BY <1>3, <2>1, <2>3, <3>1, Stays
  <2> QED BY <2>2, <2>3
<1> HIDE DEF b
<1>5. SameVotes(x, b)
  BY <1>3, <1>4, SameVotesTransitive
<1>6. Sound(c, s, d) /\ SameVotes(b, d) /\ d.state = b.state
  <2>1. b \in States
    BY <1>4 DEF Sound
  <2>2. /\ d \in States /\ d.sentinels = b.sentinels /\ d.slaves = b.slaves
        /\ d.promoted = b.promoted /\ d.state = b.state /\ d.flags = b.flags
        /\ d.leader = b.leader /\ d.leader_epoch = b.leader_epoch /\ d.epoch = b.epoch
        /\ d.config_epoch = h.config_epoch /\ d.failover_epoch = b.failover_epoch
        /\ d.disk = b.disk
    BY <2>1 DEF States
  <2> HIDE DEF d
  <2>3. Valid(d) /\ OnDisk(c, d) /\ SameVotes(b, d)
    BY <1>4, <2>2, Unrelated DEF Sound, Valid, OnDisk
  <2>4. Epochs(c, d)
    <3>1. b.epoch \in Nat
      BY <2>1 DEF States
    <3> QED BY <1>4, <2>2, <3>1 DEF Sound, Epochs
  <2> QED BY <1>4, <2>2, <2>3, <2>4 DEF Sound
<1> HIDE DEF d
<1>7. /\ Sound(c, s, ChangeAddress(d, h.addr)) /\ SameVotes(d, ChangeAddress(d, h.addr))
      /\ ChangeAddress(d, h.addr).state = "NONE"
  BY <1>6, AddressChanged
<1>8. y = b \/ y = d \/ y = ChangeAddress(d, h.addr)
  OBVIOUS
<1> HIDE DEF y
<1>9. CASE y = b
  BY <1>2, <1>3, <1>4, <1>5, <1>9
<1>10. CASE y = d
  BY <1>2, <1>3, <1>4, <1>5, <1>6, <1>10, SameVotesTransitive
<1>11. CASE y = ChangeAddress(d, h.addr)
  BY <1>2, <1>5, <1>6, <1>7, <1>11, SameVotesTransitive
<1> QED BY <1>8, <1>9, <1>10, <1>11

----------------------------------------------------------------------------
(* A sentinel that starts, or that monitors the master again.              *)

\* The master m as the configuration gives it, with the peers it names.
Configured(c, s, m, epoch) ==
  /\ m.addr \in Redis /\ m.flags = {} /\ m.role = "master" /\ m.leader = None
  /\ m.state = "NONE" /\ m.failover_epoch = 0 /\ m.promoted = None
  /\ m.config_epoch \in 0..epoch /\ m.leader_epoch \in 0..epoch /\ epoch \in 0..c.maxEpoch
  /\ m.slaves \in Tables(Redis, SUBSET SlaveFlags)
  /\ \A r \in DOMAIN m.slaves : m.slaves[r] = {}
  /\ m.sentinels \in Tables(Sentinels, Peers) /\ Peered(c, s, DOMAIN m.sentinels)
  /\ \A t \in DOMAIN m.sentinels : m.sentinels[t].leader = None

LEMMA StartedSound ==
  ASSUME NEW c, c.maxEpoch \in Nat, NEW s, NEW m, NEW epoch, Configured(c, s, m, epoch),
         NEW run \in Nat, NEW d \in Files \cup {None}
  PROVE  LET y == Started(m, epoch, run, d) IN
         /\ y \in States /\ Epochs(c, y) /\ Valid(y) /\ Knows(s, y, {})
         /\ y.sentinels = m.sentinels /\ y.disk = d /\ y.state = "NONE"
         /\ y.leader_epoch = m.leader_epoch /\ y.epoch = epoch
<1> DEFINE y == Started(m, epoch, run, d)
<1>1. /\ y.addr = m.addr /\ y.flags = {} /\ y.leader = None /\ y.state = "NONE"
      /\ y.failover_epoch = 0 /\ y.promoted = None /\ y.config_epoch = m.config_epoch
      /\ y.leader_epoch = m.leader_epoch /\ y.epoch = epoch /\ y.slaves = m.slaves
      /\ y.sentinels = m.sentinels /\ y.disk = d
  BY DEF Started, Configured
<1>2. y \in States
  <2>1. epoch \in Nat /\ m.config_epoch \in Nat /\ m.leader_epoch \in Nat
    BY DEF Configured
  <2>2. "NONE" \in FailoverStates
    BY DEF FailoverStates
  <2> QED BY <2>1, <2>2 DEF Started, States, Configured
<1> HIDE DEF y
<1>3. Epochs(c, y)
  BY <1>1 DEF Epochs, Configured
<1>4. Valid(y)
  <2>1. \A r \in DOMAIN m.slaves : r # None
    BY InTables, ConstantsAssumption DEF Configured
  <2> QED BY <1>1, <2>1 DEF Valid, Configured
<1>5. Knows(s, y, {})
  BY <1>1 DEF Knows, Configured
<1> QED BY <1>1, <1>2, <1>3, <1>4, <1>5 DEF y

\* The configuration is written to the file.
LEMMA StartedFlushed ==
  ASSUME NEW c, c.maxEpoch \in Nat, NEW s, NEW m, NEW epoch, Configured(c, s, m, epoch),
         NEW run \in Nat, NEW old \in Files \cup {None}
  PROVE  LET y == FlushConfig(Started(m, epoch, run, old)) IN
         Sound(c, s, y) /\ Knows(s, y, {}) /\ y.state = "NONE"
         /\ y.leader_epoch = m.leader_epoch
<1> DEFINE x == Started(m, epoch, run, old)
<1>2. /\ x \in States /\ Epochs(c, x) /\ Valid(x) /\ Knows(s, x, {})
      /\ x.sentinels = m.sentinels /\ x.state = "NONE" /\ x.leader_epoch = m.leader_epoch
  BY StartedSound
<1> HIDE DEF x
<1>4. /\ Sound(c, s, FlushConfig(x)) /\ SameVotes(x, FlushConfig(x))
      /\ FlushConfig(x) = [x EXCEPT !.disk = FlushConfig(x).disk]
  <2>1. Peered(c, s, DOMAIN x.sentinels)
    BY <1>2 DEF Configured
  <2> QED BY <1>2, <2>1, Flushed
<1>5. FlushConfig(x).state = "NONE" /\ FlushConfig(x).leader_epoch = m.leader_epoch
  BY <1>2, <1>4 DEF States
<1>6. Knows(s, FlushConfig(x), {})
  BY <1>2, <1>4, KnowsMore
<1> QED BY <1>4, <1>5, <1>6 DEF x

\* sentinelHandleConfiguration: the vote is read back from the file.
LEMMA Reloaded ==
  ASSUME NEW c, c.maxEpoch \in Nat, NEW s, NEW x, Sound(c, s, x), NEW run \in Nat
  PROVE  LET y == Loaded(x.disk, run) IN
         /\ Sound(c, s, y) /\ Knows(s, y, {}) /\ y.state = "NONE"
         /\ y.leader_epoch = x.leader_epoch
<1> DEFINE d == x.disk
           f == [t \in DOMAIN d.sentinels |-> NewPeer(d.sentinels[t])]
           m == [NewMaster(d.addr) EXCEPT !.config_epoch = d.config_epoch,
                   !.leader_epoch = d.leader_epoch, !.slaves = NewSlaves(d.slaves),
                   !.sentinels = f]
           epoch == IF d.config_epoch > d.epoch THEN d.config_epoch ELSE d.epoch
<1>1. d \in Files
  BY DEF Sound, OnDisk
<1>2. Loaded(d, run) = Started(m, epoch, run, d)
  BY DEF Loaded
<1>3. d.sentinels \in [DOMAIN d.sentinels -> Runids] /\ DOMAIN d.sentinels \subseteq Sentinels
  BY <1>1, InTables DEF Files
<1>4. /\ f \in [DOMAIN f -> Peers] /\ DOMAIN f = DOMAIN d.sentinels
      /\ \A t \in DOMAIN f : f[t].leader = None
  BY <1>3 DEF NewPeer, Peers
<1>5. f \in Tables(Sentinels, Peers) /\ Peered(c, s, DOMAIN f)
  BY <1>3, <1>4, InTables DEF Sound
<1>6. /\ NewSlaves(d.slaves) \in Tables(Redis, SUBSET SlaveFlags)
      /\ DOMAIN NewSlaves(d.slaves) = d.slaves
      /\ \A r \in d.slaves : NewSlaves(d.slaves)[r] = {}
  <2>1. d.slaves \in SUBSET Redis
    BY <1>1 DEF Files
  <2> HIDE DEF d
  <2> QED BY <2>1, FreshSlaves
<1> HIDE DEF f
<1>7. /\ d.addr \in Redis /\ d.config_epoch \in Nat /\ d.leader_epoch \in Nat /\ d.epoch \in Nat
      /\ d.leader_epoch <= d.epoch /\ d.epoch <= c.maxEpoch /\ d.config_epoch <= c.maxEpoch
      /\ d.leader_epoch = x.leader_epoch
  BY <1>1 DEF Files, Sound, OnDisk
<1>8. /\ m.addr = d.addr /\ m.flags = {} /\ m.role = "master" /\ m.leader = None
      /\ m.state = "NONE" /\ m.failover_epoch = 0 /\ m.promoted = None
      /\ m.config_epoch = d.config_epoch /\ m.leader_epoch = d.leader_epoch
      /\ m.slaves = NewSlaves(d.slaves) /\ m.sentinels = f
  BY DEF NewMaster
<1> HIDE DEF m, d
<1>9. /\ d.config_epoch \in 0..epoch /\ d.leader_epoch \in 0..epoch
      /\ epoch \in 0..c.maxEpoch /\ epoch \in Nat
  BY <1>7
<1> HIDE DEF epoch
<1>10. Configured(c, s, m, epoch)
  BY <1>4, <1>5, <1>6, <1>7, <1>8, <1>9 DEF Configured
<1> DEFINE y == Started(m, epoch, run, d)
<1>11. /\ y \in States /\ Epochs(c, y) /\ Valid(y) /\ Knows(s, y, {})
       /\ y.sentinels = f /\ y.disk = d /\ y.state = "NONE"
       /\ y.leader_epoch = x.leader_epoch
  BY <1>1, <1>7, <1>8, <1>10, StartedSound
<1> HIDE DEF y
<1>12. OnDisk(c, y)
  BY <1>1, <1>7, <1>11 DEF OnDisk
<1>13. Peered(c, s, DOMAIN y.disk.sentinels) /\ Peered(c, s, DOMAIN y.sentinels)
  BY <1>5, <1>11 DEF Sound, d
<1> QED BY <1>2, <1>11, <1>12, <1>13 DEF Sound, y, d

----------------------------------------------------------------------------
(* What INFO tells of the master and of its slaves.                        *)

\* The flags of one slave: the mark of the promoted one stays, and it is not
\* found to be under reconfiguration when it was not.
WithFlags(x, r, h) == [x EXCEPT !.slaves[r] = h]

LEMMA OneSlaveChanged ==
  ASSUME NEW c, NEW s, NEW x, Sound(c, s, x), NEW r \in DOMAIN x.slaves,
         NEW h \in SUBSET SlaveFlags, "PROMOTED" \in h <=> "PROMOTED" \in x.slaves[r],
         h \cap {"SENT", "INPROG"} # {} => x.slaves[r] \cap {"SENT", "INPROG"} # {}
  PROVE  LET y == WithFlags(x, r, h) IN
         Sound(c, s, y) /\ SameVotes(x, y) /\ y.state = x.state
<1> DEFINE f == [x.slaves EXCEPT ![r] = h]
           y == [x EXCEPT !.slaves = f]
<1>1. x \in States /\ x.slaves \in [DOMAIN x.slaves -> SUBSET SlaveFlags] /\ DOMAIN x.slaves \subseteq Redis
  BY InTables DEF Sound, States
<1>2. WithFlags(x, r, h) = y
  BY <1>1 DEF States, WithFlags
<1>3. /\ f \in [DOMAIN f -> SUBSET SlaveFlags] /\ DOMAIN f = DOMAIN x.slaves /\ f[r] = h
      /\ \A q \in DOMAIN f : q # r => f[q] = x.slaves[q]
  BY <1>1
<1> HIDE DEF f
<1>4. f \in Tables(Redis, SUBSET SlaveFlags)
  BY <1>1, <1>3, InTables
<1>5. y \in States /\ AlikeButSlaves(x, y) /\ y.flags = x.flags /\ y.slaves = f
  BY <1>1, <1>4 DEF States, AlikeButSlaves
<1> HIDE DEF y
<1>6. \A q \in DOMAIN x.slaves : "PROMOTED" \in f[q] <=> "PROMOTED" \in x.slaves[q]
  BY <1>3
<1>7. (\E q \in DOMAIN x.slaves : f[q] \cap {"SENT", "INPROG"} # {})
        => x.state \in {"RECONF_SLAVES", "UPDATE_CONFIG"}
  BY <1>3 DEF Sound, Valid
<1>8. Sound(c, s, y) /\ SameVotes(x, y)
  BY <1>3, <1>5, <1>6, <1>7, SlavesChanged
<1> QED BY <1>2, <1>5, <1>8 DEF AlikeButSlaves

\* The role of the master, and the slaves it lists.
WithInfo(x, role, listed) ==
  [x EXCEPT !.role = role,
            !.slaves = [r \in DOMAIN @ \cup listed |-> IF r \in DOMAIN @ THEN @[r] ELSE {}]]

LEMMA MasterInfo ==
  ASSUME NEW c, NEW s, NEW x, Sound(c, s, x), NEW role \in {"master", "slave"},
         NEW listed \in SUBSET Redis
  PROVE  LET y == WithInfo(x, role, listed) IN
         Sound(c, s, y) /\ SameVotes(x, y) /\ y.state = x.state
<1> DEFINE f == [r \in DOMAIN x.slaves \cup listed |->
                   IF r \in DOMAIN x.slaves THEN x.slaves[r] ELSE {}]
           y == [x EXCEPT !.role = role, !.slaves = f]
<1>1. x \in States /\ x.slaves \in [DOMAIN x.slaves -> SUBSET SlaveFlags] /\ DOMAIN x.slaves \subseteq Redis
  BY InTables DEF Sound, States
<1>2. WithInfo(x, role, listed) = y
  BY <1>1 DEF States, WithInfo
<1>3. /\ f \in [DOMAIN f -> SUBSET SlaveFlags] /\ DOMAIN f = DOMAIN x.slaves \cup listed
      /\ \A q \in DOMAIN f : f[q] = IF q \in DOMAIN x.slaves THEN x.slaves[q] ELSE {}
  BY <1>1
<1> HIDE DEF f
<1>4. f \in Tables(Redis, SUBSET SlaveFlags)
  BY <1>1, <1>3, InTables
<1>5. y \in States /\ AlikeButSlaves(x, y) /\ y.flags = x.flags /\ y.slaves = f
  BY <1>1, <1>4 DEF States, AlikeButSlaves
<1> HIDE DEF y
<1>6. Valid(y)
  <2>1. \A q \in DOMAIN f : "PROMOTED" \in f[q] <=> q = x.promoted
    <3>1. x.promoted # None => x.promoted \in DOMAIN x.slaves
      BY DEF Sound, Valid
    <3>2. \A q \in DOMAIN f : q # None
      BY <1>1, <1>3, ConstantsAssumption
    <3> QED BY <1>3, <3>1, <3>2 DEF Sound, Valid
  <2>2. x.promoted # None => x.promoted \in DOMAIN f
    BY <1>3 DEF Sound, Valid
  <2>3. (\E q \in DOMAIN f : f[q] \cap {"SENT", "INPROG"} # {})
          => x.state \in {"RECONF_SLAVES", "UPDATE_CONFIG"}
    BY <1>3 DEF Sound, Valid
  <2> QED BY <1>5, <2>1, <2>2, <2>3 DEF Sound, Valid, AlikeButSlaves
<1>7. Sound(c, s, y) /\ SameVotes(x, y)
  BY <1>5, <1>6, FailoverChanged DEF AlikeButSlaves
<1> QED BY <1>2, <1>5, <1>7 DEF AlikeButSlaves

\* The promoted slave has turned into a master: its epoch is the one of the
\* failover, and the new configuration is written.
WithPromotion(x) == [x EXCEPT !.config_epoch = x.failover_epoch, !.state = "RECONF_SLAVES"]

LEMMA PromotionDetected ==
  ASSUME NEW c, c.maxEpoch \in Nat, NEW s, NEW x, Sound(c, s, x), x.state = "WAIT_PROMOTION"
  PROVE  LET y == FlushConfig(WithPromotion(x)) IN
         Sound(c, s, y) /\ SameVotes(x, y) /\ y.state = "RECONF_SLAVES"
<1> DEFINE w == WithPromotion(x)
<1>1. x \in States
  BY DEF Sound
<1>2. /\ w \in States /\ w.sentinels = x.sentinels /\ w.slaves = x.slaves
      /\ w.promoted = x.promoted /\ w.state = "RECONF_SLAVES" /\ w.flags = x.flags
      /\ w.leader = x.leader /\ w.leader_epoch = x.leader_epoch /\ w.epoch = x.epoch
      /\ w.config_epoch = x.failover_epoch /\ w.failover_epoch = x.failover_epoch
  BY <1>1 DEF States, FailoverStates, WithPromotion
<1> HIDE DEF w
<1>3. Valid(w) /\ Epochs(c, w)
  BY <1>2 DEF Sound, Valid, Epochs
<1>4. Peered(c, s, DOMAIN w.sentinels) /\ SameVotes(x, w)
  BY <1>2, Unrelated DEF Sound
<1>5. /\ Sound(c, s, FlushConfig(w)) /\ SameVotes(w, FlushConfig(w))
      /\ FlushConfig(w) = [w EXCEPT !.disk = FlushConfig(w).disk]
  BY <1>2, <1>3, <1>4, Flushed
<1>6. FlushConfig(w).state = "RECONF_SLAVES"
  BY <1>2, <1>5 DEF States
<1>7. SameVotes(x, FlushConfig(w))
  BY <1>4, <1>5, SameVotesTransitive
<1> QED BY <1>5, <1>6, <1>7 DEF w

\* SENTINEL FAILOVER
WithForce(x) == [x EXCEPT !.flags = @ \cup {"FORCE"}]

LEMMA FailoverForced ==
  ASSUME NEW c, c.maxEpoch \in Nat, NEW s, NEW x, Sound(c, s, x),
         "FAILOVER" \notin x.flags, x.epoch < c.maxEpoch
  PROVE  LET y == WithForce(StartFailover(x)) IN
         Sound(c, s, y) /\ SameVotes(x, y) /\ y.state = "WAIT_START"
<1> DEFINE w == StartFailover(x)
           y == [w EXCEPT !.flags = w.flags \cup {"FORCE"}]
<1>1. Sound(c, s, w) /\ SameVotes(x, w) /\ w.state = "WAIT_START"
  BY FailoverStarted
<1> HIDE DEF w
<1>2. w \in States
  BY <1>1 DEF Sound
<1>3. w.flags \cup {"FORCE"} \subseteq MasterFlags
  BY <1>2 DEF States, MasterFlags
<1>4. y \in States /\ Alike(w, y) /\ y.flags = w.flags \cup {"FORCE"}
  BY <1>2, <1>3 DEF States, Alike, AlikeButSlaves
<1> HIDE DEF y
<1>5. Sound(c, s, y) /\ SameVotes(w, y) /\ y.state = "WAIT_START"
  BY <1>1, <1>4, FlagsChanged DEF Alike, AlikeButSlaves
<1>6. SameVotes(x, y)
  BY <1>1, <1>5, SameVotesTransitive
<1> QED BY <1>5, <1>6 DEF y, w, WithForce

\* sentinelCheckTiltCondition
InTilt(x) == [x EXCEPT !.tilt = TRUE]

LEMMA Tilted ==
  ASSUME NEW c, NEW s, NEW x, Sound(c, s, x)
  PROVE  LET y == InTilt(x) IN
         Sound(c, s, y) /\ SameVotes(x, y) /\ y.state = x.state
<1> DEFINE y == [x EXCEPT !.tilt = TRUE]
<1>1. x \in States
  BY DEF Sound
<1>2. y \in States /\ Alike(x, y) /\ y.flags = x.flags
  BY <1>1 DEF States, Alike, AlikeButSlaves
<1> HIDE DEF y
<1>3. Sound(c, s, y) /\ SameVotes(x, y) /\ y.state = x.state
  BY <1>2, FlagsChanged DEF Alike, AlikeButSlaves
<1> QED BY <1>3 DEF y, InTilt

----------------------------------------------------------------------------
(* The inductive invariant.                                                *)

\* Two elections need a common voter.
Majorities(c) == 2 * c.quorum > Cardinality(c.sentinels) \/ Complete(c)

\* Behind an election there are the votes of a majority.
Won(c, e, V) ==
  e.now = e.epoch /\ Majorities(c) =>
    \E Q \in SUBSET c.sentinels :
      /\ 2 * Cardinality(Q) > Cardinality(c.sentinels)
      /\ \A v \in Q : Vote(v, e.epoch, e.leader) \in V

Machines ==
  /\ scenario \in Scenarios /\ st \in [scenario.sentinels -> States]
  /\ \A s \in DOMAIN st : Sound(scenario, s, st[s]) /\ st[s].state # "UPDATE_CONFIG"

Environment ==
  /\ DOMAIN master = scenario.slaves \cup {First}
  /\ master \in [DOMAIN master -> Redis \cup {None}]
  /\ dead \subseteq DOMAIN master /\ faults \in 0..scenario.maxFaults

\* What the sentinels know of votes, and what is on its way.
Witnessed ==
  /\ \A s \in DOMAIN st : Knows(s, st[s], votes)
  /\ \A a \in net : Answer(scenario, a, votes)

\* A sentinel has voted in no epoch newer than the one of its last vote.
Ballots ==
  /\ votes \subseteq [voter : scenario.sentinels, epoch : Nat, leader : Runids]
  /\ "monitor" \notin scenario.faults =>
       VoteOnce /\ \A v \in votes : v.epoch <= st[v.voter].leader_epoch

Elections == \A e \in elected : Won(scenario, e, votes)

IndInv == Machines /\ Environment /\ Witnessed /\ Ballots /\ Elections

LEMMA ScenarioFacts ==
  ASSUME NEW c \in Scenarios
  PROVE  /\ c.maxEpoch \in Nat /\ c.quorum \in Nat /\ c.maxFaults \in Nat
         /\ c.sentinels \subseteq Sentinels /\ c.slaves \cup {First} \subseteq Redis
         /\ IsFiniteSet(c.sentinels) /\ Cardinality(c.sentinels) \in Nat
<1>1. c.sentinels \subseteq Sentinels /\ IsFiniteSet(Sentinels)
  BY ConstantsAssumption
<1>2. IsFiniteSet(c.sentinels) /\ Cardinality(c.sentinels) \in Nat
  BY <1>1, FS_Subset, FS_CardinalityType
<1> QED BY <1>2, ConstantsAssumption

\* Votes are never withdrawn.
LEMMA StillWon ==
  ASSUME NEW c, NEW e, NEW V, NEW W, V \subseteq W, Won(c, e, V)
  PROVE  Won(c, e, W)
<1>1. SUFFICES ASSUME e.now = e.epoch /\ Majorities(c)
               PROVE  \E Q \in SUBSET c.sentinels :
                        /\ 2 * Cardinality(Q) > Cardinality(c.sentinels)
                        /\ \A v \in Q : Vote(v, e.epoch, e.leader) \in W
  BY DEF Won
<1>2. PICK Q \in SUBSET c.sentinels :
         /\ 2 * Cardinality(Q) > Cardinality(c.sentinels)
         /\ \A v \in Q : Vote(v, e.epoch, e.leader) \in V
  BY <1>1 DEF Won
<1> QED BY <1>2

\* sentinelGetLeader: who finds itself elected has the votes it counts.
LEMMA ElectionWon ==
  ASSUME scenario \in Scenarios, NEW s \in scenario.sentinels,
         NEW x, Sound(scenario, s, x), NEW V, Knows(s, x, V), NEW y, Knows(s, y, V),
         IsLeader(s, x, y),
         NEW e, e.epoch = x.failover_epoch, e.now = x.epoch, e.leader = <<s, x.run>>
  PROVE  Won(scenario, e, V)
<1> DEFINE me == <<s, x.run>>
           S == scenario.sentinels
           D == DOMAIN x.sentinels
           P == {t \in D : x.sentinels[t].leader = me /\ x.sentinels[t].leader_epoch = x.epoch}
           own == IF y.leader = me /\ y.leader_epoch = x.failover_epoch THEN 1 ELSE 0
           Q == IF y.leader = me /\ y.leader_epoch = x.failover_epoch THEN P \cup {s} ELSE P
<1>1. SUFFICES ASSUME x.failover_epoch = x.epoch, Majorities(scenario)
               PROVE  \E R \in SUBSET S : /\ 2 * Cardinality(R) > Cardinality(S)
                                         /\ \A v \in R : Vote(v, x.epoch, me) \in V
  BY DEF Won
<1>2. /\ scenario.quorum \in Nat /\ IsFiniteSet(S) /\ Cardinality(S) \in Nat
  BY ScenarioFacts
<1>3. /\ Cardinality(P) + own >= (Cardinality(D) + 1) \div 2 + 1
      /\ Cardinality(P) + own >= scenario.quorum
  BY DEF IsLeader, Votes, Quorum
<1>4. D \subseteq S \ {s} /\ (Complete(scenario) => D = S \ {s})
  BY DEF Sound, Peered
<1>5. IsFiniteSet(D) /\ IsFiniteSet(P) /\ s \notin P
  <2>1. P \subseteq S /\ D \subseteq S
    BY <1>4
  <2> HIDE DEF P, D
  <2>2. IsFiniteSet(P) /\ IsFiniteSet(D)
    BY <1>2, <2>1, FS_Subset
  <2> QED BY <1>4, <2>2 DEF P, D
<1>6. Cardinality(P) \in Nat /\ Cardinality(D) \in Nat
  BY <1>5, FS_CardinalityType
<1>7. \A v \in Q : Vote(v, x.epoch, me) \in V
  <2>1. me # None
    <3>1. x.run \in Nat /\ s \in Sentinels
      BY ScenarioFacts DEF Sound, States
    <3> QED BY <3>1, ConstantsAssumption
  <2> HIDE DEF me
  <2>2. \A v \in P : Vote(v, x.epoch, me) \in V
    BY <2>1 DEF Knows
  <2>3. own = 1 => Vote(s, x.epoch, me) \in V
    BY <1>1, <2>1 DEF Knows
  <2> QED BY <2>2, <2>3
<1>8. Q \subseteq S
  BY <1>4
<1>9. Cardinality(Q) = Cardinality(P) + own
  <2>1. CASE own = 1
    <3>1. Q = P \cup {s}
      BY <2>1
    <3>2. Cardinality(P \cup {s}) = Cardinality(P) + 1
      BY <1>5, FS_AddElement
    <3> QED BY <2>1, <3>1, <3>2
  <2>2. CASE own = 0
    <3>1. Q = P
      BY <2>2
    <3> HIDE DEF Q, P
    <3> QED BY <1>6, <2>2, <3>1
  <2> QED BY <2>1, <2>2
<1> HIDE DEF Q, P, own
<1>10. 2 * Cardinality(Q) > Cardinality(S)
  <2>1. Cardinality(Q) \in Int
    <3>1. own \in Int
      BY DEF own
    <3> QED BY <1>6, <1>9, <3>1
  <2>2. CASE 2 * scenario.quorum > Cardinality(S)
    BY <1>2, <1>3, <1>9, <2>1, <2>2
  <2>3. CASE Complete(scenario)
    <3>1. Cardinality(D) = Cardinality(S) - 1
      BY <1>2, <1>4, <2>3, FS_RemoveElement
    <3>2. Cardinality(Q) >= Cardinality(S) \div 2 + 1
      BY <1>2, <1>3, <1>9, <3>1
    <3> HIDE DEF S
    <3> QED BY <1>2, <2>1, <3>2
  <2> QED BY <1>1, <2>2, <2>3 DEF Majorities
<1> QED BY <1>7, <1>8, <1>10

----------------------------------------------------------------------------
(* Every step preserves it.                                                *)

\* A step that casts at most one vote, of v.
LEMMA VotingStep ==
  ASSUME IndInv, scenario' = scenario, Environment', DOMAIN st' = DOMAIN st,
         st' \in [DOMAIN st -> States],
         \A s \in DOMAIN st : /\ Sound(scenario, s, st'[s]) /\ st'[s].state # "UPDATE_CONFIG"
                              /\ Knows(s, st'[s], votes')
                              /\ "monitor" \notin scenario.faults =>
                                   st'[s].leader_epoch >= st[s].leader_epoch,
         \A a \in net' : a \in net \/ Answer(scenario, a, votes'),
         NEW v \in DOMAIN st,
         \/ votes' = votes
         \/ /\ st'[v].leader_epoch > st[v].leader_epoch
            /\ \E n \in Runids : votes' = votes \cup {Vote(v, st'[v].leader_epoch, n)},
         \A e \in elected' : e \in elected \/ Won(scenario, e, votes')
  PROVE  IndInv'
<1>1. Machines /\ Witnessed /\ Ballots /\ Elections /\ votes \subseteq votes'
      /\ DOMAIN st = scenario.sentinels
  BY DEF IndInv, Machines
<1>2. Machines'
  BY <1>1 DEF Machines
<1>3. Witnessed'
  <2>1. \A a \in net' : Answer(scenario, a, votes')
    BY <1>1 DEF Witnessed, Answer
  <2> QED BY <2>1 DEF Witnessed
<1>4. Elections'
  <2>1. \A e \in elected' : Won(scenario, e, votes')
    BY <1>1, StillWon DEF Elections
  <2> QED BY <2>1 DEF Elections
<1>5. Ballots'
  <2>1. \A s \in DOMAIN st : st[s].leader_epoch \in Nat /\ st'[s].leader_epoch \in Nat
    BY <1>1 DEF Sound, States, Machines
  <2>2. CASE votes' = votes
    <3>1. "monitor" \notin scenario.faults =>
            \A w \in votes : w.epoch <= st'[w.voter].leader_epoch
      <4> SUFFICES ASSUME "monitor" \notin scenario.faults, NEW w \in votes
                   PROVE  w.epoch <= st'[w.voter].leader_epoch
        OBVIOUS
      <4>1. w.voter \in DOMAIN st /\ w.epoch \in Nat /\ w.epoch <= st[w.voter].leader_epoch
        BY <1>1 DEF Ballots
      <4> QED BY <2>1, <4>1
    <3> QED BY <1>1, <2>2, <3>1 DEF Ballots, VoteOnce
  <2>3. ASSUME NEW n \in Runids, votes' = votes \cup {Vote(v, st'[v].leader_epoch, n)},
               st'[v].leader_epoch > st[v].leader_epoch
        PROVE  Ballots'
    <3> DEFINE new == Vote(v, st'[v].leader_epoch, n)
    <3>1. /\ new \in [voter : scenario.sentinels, epoch : Nat, leader : Runids]
          /\ new.voter = v /\ new.epoch = st'[v].leader_epoch
      BY <1>1, <2>1 DEF Vote
    <3>2. votes' = votes \cup {new}
      BY <2>3
    <3> HIDE DEF new
    <3>3. ASSUME "monitor" \notin scenario.faults, NEW w \in votes
          PROVE  /\ w.epoch <= st'[w.voter].leader_epoch
                 /\ w.voter = v => w.epoch < st'[v].leader_epoch
      <4>1. w.voter \in DOMAIN st /\ w.epoch \in Nat /\ w.epoch <= st[w.voter].leader_epoch
        BY <1>1, <3>3 DEF Ballots
      <4> QED BY <2>1, <2>3, <3>3, <4>1
    <3>4. ASSUME "monitor" \notin scenario.faults
          PROVE  /\ \A w \in votes' : w.epoch <= st'[w.voter].leader_epoch
                 /\ \A u, w \in votes' :
                      u.voter = w.voter /\ u.epoch = w.epoch => u.leader = w.leader
      <4>1. \A u, w \in votes :
              u.voter = w.voter /\ u.epoch = w.epoch => u.leader = w.leader
        BY <1>1, <3>4 DEF Ballots, VoteOnce
      <4>2. \A w \in votes : w.voter = new.voter => w.epoch # new.epoch
        <5> SUFFICES ASSUME NEW w \in votes, w.voter = new.voter PROVE w.epoch # new.epoch
          OBVIOUS
        <5>1. w.epoch < new.epoch /\ w.epoch \in Nat /\ new.epoch \in Nat
          BY <1>1, <2>1, <3>1, <3>3, <3>4 DEF Ballots
        <5> QED BY <5>1
      <4>3. new.epoch <= st'[new.voter].leader_epoch
        BY <2>1, <3>1
      <4> QED BY <3>2, <3>3, <3>4, <4>1, <4>2, <4>3
    <3>5. votes' \subseteq [voter : scenario.sentinels, epoch : Nat, leader : Runids]
      BY <1>1, <3>1, <3>2 DEF Ballots
    <3> QED BY <3>4, <3>5 DEF Ballots, VoteOnce
  <2> QED BY <2>2, <2>3
<1> QED BY <1>2, <1>3, <1>4, <1>5 DEF IndInv

\* A step of s alone that casts no vote.
LEMMA QuietStep ==
  ASSUME IndInv, UNCHANGED <<scenario, votes, elected>>, Environment', net' \subseteq net,
         NEW s \in DOMAIN st, NEW y, st' = [st EXCEPT ![s] = y],
         Sound(scenario, s, y), y.state # "UPDATE_CONFIG", Knows(s, y, votes),
         "monitor" \notin scenario.faults => y.leader_epoch = st[s].leader_epoch
  PROVE  IndInv'
<1>1. /\ st \in [DOMAIN st -> States] /\ DOMAIN st = scenario.sentinels
      /\ \A t \in DOMAIN st : /\ Sound(scenario, t, st[t]) /\ st[t].state # "UPDATE_CONFIG"
                              /\ Knows(t, st[t], votes)
  BY DEF IndInv, Machines, Witnessed
<1>2. /\ DOMAIN st' = DOMAIN st /\ st'[s] = y
      /\ \A t \in DOMAIN st : t # s => st'[t] = st[t]
  BY <1>1
<1>3. st' \in [DOMAIN st -> States]
  <2>1. y \in States
    BY DEF Sound
  <2> QED BY <1>1, <2>1
<1>4. \A t \in DOMAIN st : st[t].leader_epoch \in Nat
  BY <1>1 DEF States
<1>5. \A t \in DOMAIN st : /\ Sound(scenario, t, st'[t]) /\ st'[t].state # "UPDATE_CONFIG"
                           /\ Knows(t, st'[t], votes')
                           /\ "monitor" \notin scenario.faults =>
                                st'[t].leader_epoch >= st[t].leader_epoch
  <2> SUFFICES ASSUME NEW t \in DOMAIN st
               PROVE  /\ Sound(scenario, t, st'[t]) /\ st'[t].state # "UPDATE_CONFIG"
                      /\ Knows(t, st'[t], votes')
                      /\ "monitor" \notin scenario.faults =>
                           st'[t].leader_epoch >= st[t].leader_epoch
    OBVIOUS
  <2>1. CASE t = s
    BY <1>2, <1>4, <2>1
  <2>2. CASE t # s
    BY <1>1, <1>2, <1>4, <2>2
  <2> QED BY <2>1, <2>2
<1> QED BY <1>2, <1>3, <1>5, VotingStep

\* The same, of a sentinel that learns of no vote either.
LEMMA OwnStep ==
  ASSUME IndInv, UNCHANGED <<scenario, votes, elected>>, Environment', net' \subseteq net,
         NEW s \in DOMAIN st, NEW y, st' = [st EXCEPT ![s] = y],
         Sound(scenario, s, y), y.state # "UPDATE_CONFIG", SameVotes(st[s], y)
  PROVE  IndInv'
<1>1. Knows(s, y, votes)
  BY KnowsMore DEF IndInv, Witnessed
<1>2. y.leader_epoch = st[s].leader_epoch
  BY DEF SameVotes
<1> QED BY <1>1, <1>2, QuietStep

LEMMA StateOf ==
  ASSUME IndInv, NEW s \in DOMAIN st
  PROVE  /\ Sound(scenario, s, st[s]) /\ st[s].state # "UPDATE_CONFIG"
         /\ Knows(s, st[s], votes) /\ st[s] \in States
         /\ s \in scenario.sentinels /\ s \in Sentinels /\ DOMAIN st = scenario.sentinels
         /\ scenario \in Scenarios /\ scenario.maxEpoch \in Nat
         /\ scenario.sentinels \subseteq Sentinels /\ DOMAIN master \subseteq Redis
<1>1. scenario \in Scenarios /\ s \in scenario.sentinels /\ DOMAIN st = scenario.sentinels
  BY DEF IndInv, Machines
<1>2. DOMAIN master \subseteq Redis
  BY <1>1, ScenarioFacts DEF IndInv, Environment
<1> QED BY <1>1, <1>2, ScenarioFacts DEF IndInv, Machines, Witnessed, Sound

LEMMA EnvironmentKept ==
  ASSUME Environment, scenario \in Scenarios, UNCHANGED <<scenario, master, dead>>,
         UNCHANGED faults \/ \E f : Fault(f)
  PROVE  Environment'
<1>1. CASE UNCHANGED faults
  BY <1>1 DEF Environment
<1>2. CASE \E f : Fault(f)
  <2>1. faults \in 0..scenario.maxFaults /\ faults < scenario.maxFaults /\ faults' = faults + 1
    BY <1>2 DEF Fault, Environment
  <2>2. faults' \in 0..scenario.maxFaults
    BY <2>1, ScenarioFacts
  <2> QED BY <2>2 DEF Environment
<1> QED BY <1>1, <1>2

\* sentinelSendSlaveOf
LEMMA SlaveofSent ==
  ASSUME Environment, UNCHANGED <<scenario, dead, faults>>,
         NEW sent, sent \subseteq Redis \X (Redis \cup {None}), SlaveofArrive(sent)
  PROVE  Environment'
<1>1. PICK arrived \in SUBSET sent :
         master' = [r \in DOMAIN master |-> IF \E c \in arrived : c[1] = r
                                           THEN (CHOOSE c \in arrived : c[1] = r)[2]
                                           ELSE master[r]]
  BY DEF SlaveofArrive
<1>2. ASSUME NEW r \in DOMAIN master, \E c \in arrived : c[1] = r
      PROVE  (CHOOSE c \in arrived : c[1] = r)[2] \in Redis \cup {None}
  <2>1. (CHOOSE c \in arrived : c[1] = r) \in arrived
    BY <1>2
  <2>2. \A c \in arrived : c[2] \in Redis \cup {None}
    OBVIOUS
  <2> HIDE DEF Environment
  <2> QED BY <2>1, <2>2
<1>3. \A r \in DOMAIN master : master[r] \in Redis \cup {None}
  BY DEF Environment
<1>4. master' \in [DOMAIN master -> Redis \cup {None}]
  BY <1>1, <1>2, <1>3
<1>5. DOMAIN master' = DOMAIN master
  BY <1>1
<1> QED BY <1>4, <1>5 DEF Environment

LEMMA HandleSlaveStep ==
  ASSUME IndInv, NEW s \in DOMAIN st, NEW r \in DOMAIN master, HandleSlave(s, r)
  PROVE  IndInv'
<1> DEFINE x == st[s]
<1>1. Sound(scenario, s, x) /\ x.state # "UPDATE_CONFIG" /\ x \in States
  BY StateOf
<1>2. r \in DOMAIN x.slaves /\ UNCHANGED <<scenario, master, dead, net, faults, votes, elected>>
  BY DEF HandleSlave
<1>3. x.slaves[r] \in SUBSET SlaveFlags
  BY <1>1, <1>2, InTables DEF States
<1> PICK down \in Verdicts(r, x.slaves[r]) :
       st' = [st EXCEPT ![s].slaves[r] = IF down THEN @ \cup {"S_DOWN"} ELSE @ \ {"S_DOWN"}]
  BY DEF HandleSlave
<1> DEFINE h == IF down THEN x.slaves[r] \cup {"S_DOWN"} ELSE x.slaves[r] \ {"S_DOWN"}
           y == WithFlags(x, r, h)
<1>4. /\ h \in SUBSET SlaveFlags
      /\ "PROMOTED" \in h <=> "PROMOTED" \in x.slaves[r]
      /\ h \cap {"SENT", "INPROG"} # {} => x.slaves[r] \cap {"SENT", "INPROG"} # {}
  BY <1>3 DEF SlaveFlags
<1>5. st' = [st EXCEPT ![s] = y]
  <2>1. st \in [DOMAIN st -> States]
    BY DEF IndInv, Machines
  <2>2. st' = [st EXCEPT ![s].slaves[r] = IF down THEN @ \cup {"S_DOWN"} ELSE @ \ {"S_DOWN"}]
    OBVIOUS
  <2> QED BY <2>1, <2>2 DEF WithFlags
<1> HIDE DEF h, x
<1>6. Sound(scenario, s, y) /\ SameVotes(x, y) /\ y.state = x.state
  BY <1>1, <1>2, <1>4, OneSlaveChanged
<1>7. Environment'
  BY <1>2, EnvironmentKept DEF IndInv, Machines
<1> HIDE DEF y
<1> QED BY <1>1, <1>2, <1>5, <1>6, <1>7, OwnStep DEF x

LEMMA InfoFromMasterStep ==
  ASSUME IndInv, NEW s \in DOMAIN st, InfoFromMaster(s)
  PROVE  IndInv'
<1> DEFINE x == st[s]
           listed == {r \in DOMAIN master \ dead : master[r] = x.addr}
           role == IF master[x.addr] = None THEN "master" ELSE "slave"
           y == WithInfo(x, role, listed)
<1>1. /\ Sound(scenario, s, x) /\ x.state # "UPDATE_CONFIG" /\ x \in States
      /\ DOMAIN master \subseteq Redis
  BY StateOf
<1>2. UNCHANGED <<scenario, master, dead, net, faults, votes, elected>>
  BY DEF InfoFromMaster
<1>3. role \in {"master", "slave"} /\ listed \in SUBSET Redis
  BY <1>1
<1>4. st' = [st EXCEPT ![s] = y]
  <2>1. st \in [DOMAIN st -> States]
    BY DEF IndInv, Machines
  <2>2. st' = [st EXCEPT ![s].role = role,
                 ![s].slaves = [r \in DOMAIN @ \cup listed |-> IF r \in DOMAIN @ THEN @[r] ELSE {}]]
    BY DEF InfoFromMaster
  <2> HIDE DEF role, listed
  <2> QED BY <1>1, <2>1, <2>2 DEF States, WithInfo
<1> HIDE DEF role, listed, x
<1>5. Sound(scenario, s, y) /\ SameVotes(x, y) /\ y.state = x.state
  BY <1>1, <1>3, MasterInfo
<1>6. Environment'
  BY <1>2, EnvironmentKept DEF IndInv, Machines
<1> HIDE DEF y
<1> QED BY <1>1, <1>2, <1>4, <1>5, <1>6, OwnStep DEF x

LEMMA InfoFromMasterSlaveStep ==
  ASSUME IndInv, NEW s \in DOMAIN st, NEW r \in DOMAIN master, InfoFromMasterSlave(s, r)
  PROVE  IndInv'
<1> DEFINE x == st[s]
           y == FlushConfig(WithPromotion(x))
<1>1. /\ Sound(scenario, s, x) /\ x.state # "UPDATE_CONFIG" /\ x \in States
      /\ scenario.maxEpoch \in Nat
  BY StateOf
<1>2. UNCHANGED <<scenario, dead, net, faults, votes, elected>> /\ r \in DOMAIN x.slaves
  BY DEF InfoFromMasterSlave
<1>3. CASE Promoted(x, r)
  <2>1. UNCHANGED master /\ st' = [st EXCEPT ![s] = y]
    BY <1>3 DEF InfoFromMasterSlave, WithPromotion
  <2>2. x.state = "WAIT_PROMOTION"
    BY <1>3 DEF Promoted
  <2> HIDE DEF x
  <2>3. Sound(scenario, s, y) /\ SameVotes(x, y) /\ y.state = "RECONF_SLAVES"
    BY <1>1, <2>2, PromotionDetected
  <2>4. Environment'
    BY <1>2, <2>1, EnvironmentKept DEF IndInv, Machines
  <2> HIDE DEF y
  <2> QED BY <1>2, <2>1, <2>3, <2>4, OwnStep DEF x
<1>4. CASE ~Promoted(x, r)
  <2>1. UNCHANGED st /\ SlaveofArrive({<<r, x.addr>>})
    BY <1>4 DEF InfoFromMasterSlave
  <2>2. r \in Redis /\ x.addr \in Redis
    BY <1>1, <1>2, InTables DEF States
  <2>3. {<<r, x.addr>>} \subseteq Redis \X (Redis \cup {None})
    BY <2>2
  <2> HIDE DEF x
  <2>4. Environment'
    BY <1>2, <2>1, <2>3, SlaveofSent DEF IndInv
  <2>5. st' = [st EXCEPT ![s] = x]
    BY <2>1 DEF IndInv, Machines, x
  <2> QED BY <1>1, <1>2, <2>4, <2>5, OwnStep, Stays DEF x
<1> QED BY <1>3, <1>4

LEMMA InfoFromSlaveStep ==
  ASSUME IndInv, NEW s \in DOMAIN st, NEW r \in DOMAIN master, InfoFromSlave(s, r)
  PROVE  IndInv'
<1> DEFINE x == st[s]
           f == x.slaves[r]
           g == IF "SENT" \in f /\ master[r] = x.promoted THEN (f \ {"SENT"}) \cup {"INPROG"} ELSE f
<1>1. /\ Sound(scenario, s, x) /\ x.state # "UPDATE_CONFIG" /\ x \in States
  BY StateOf
<1>2. UNCHANGED <<scenario, dead, net, faults, votes, elected>> /\ r \in DOMAIN x.slaves
  BY DEF InfoFromSlave
<1>3. f \in SUBSET SlaveFlags /\ r \in Redis /\ x.addr \in Redis
  BY <1>1, <1>2, InTables DEF States
<1>4. Environment'
  <2>1. SlaveofArrive(IF /\ master[r] # x.addr /\ MasterLooksSane(x) /\ "S_DOWN" \notin f
                      THEN {<<r, x.addr>>} ELSE {})
    BY DEF InfoFromSlave
  <2>2. PICK sent \in {{<<r, x.addr>>}, {}} : SlaveofArrive(sent)
    BY <2>1
  <2>3. sent \subseteq Redis \X (Redis \cup {None})
    BY <1>3
  <2> HIDE DEF x, f
  <2> QED BY <1>2, <2>2, <2>3, SlaveofSent DEF IndInv
<1>5. PICK h \in {g} \cup (IF "INPROG" \in g THEN {(g \ {"INPROG"}) \cup {"DONE"}} ELSE {}) :
         st' = [st EXCEPT ![s].slaves[r] = h]
  BY DEF InfoFromSlave
<1> DEFINE y == WithFlags(x, r, h)
<1>6. st' = [st EXCEPT ![s] = y]
  <2>1. st \in [DOMAIN st -> States]
    BY DEF IndInv, Machines
  <2> QED BY <1>5, <2>1 DEF WithFlags
<1>7. /\ h \in SUBSET SlaveFlags
      /\ "PROMOTED" \in h <=> "PROMOTED" \in x.slaves[r]
      /\ h \cap {"SENT", "INPROG"} # {} => x.slaves[r] \cap {"SENT", "INPROG"} # {}
  <2>1. /\ g \in SUBSET SlaveFlags
        /\ "PROMOTED" \in g <=> "PROMOTED" \in f
        /\ g \cap {"SENT", "INPROG"} # {} => f \cap {"SENT", "INPROG"} # {}
    BY <1>3 DEF SlaveFlags
  <2>2. h = g \/ ("INPROG" \in g /\ h = (g \ {"INPROG"}) \cup {"DONE"})
    BY <1>5
  <2> HIDE DEF g
  <2>3. /\ h \in SUBSET SlaveFlags
        /\ "PROMOTED" \in h <=> "PROMOTED" \in g
        /\ h \cap {"SENT", "INPROG"} # {} => g \cap {"SENT", "INPROG"} # {}
    BY <2>1, <2>2 DEF SlaveFlags
  <2> HIDE DEF f
  <2> QED BY <2>1, <2>3 DEF f
<1> HIDE DEF x, f, g
<1>8. Sound(scenario, s, y) /\ SameVotes(x, y) /\ y.state = x.state
  BY <1>1, <1>2, <1>7, OneSlaveChanged
<1> HIDE DEF y
<1> QED BY <1>1, <1>2, <1>4, <1>6, <1>8, OwnStep DEF x

LEMMA ForgetStep ==
  ASSUME IndInv, NEW s \in DOMAIN st, NEW t, Forget(s, t)
  PROVE  IndInv'
<1> DEFINE x == st[s]
           y == WithoutAnswer(x, t)
<1>1. Sound(scenario, s, x) /\ x.state # "UPDATE_CONFIG" /\ x \in States /\ Knows(s, x, votes)
  BY StateOf
<1>2. UNCHANGED <<scenario, master, dead, net, votes, elected>> /\ Fault("silence")
      /\ t \in DOMAIN x.sentinels
  BY DEF Forget
<1>3. st' = [st EXCEPT ![s] = y]
  <2>1. st \in [DOMAIN st -> States]
    BY DEF IndInv, Machines
  <2>2. st' = [st EXCEPT ![s].sentinels[t] = [@ EXCEPT !.down = FALSE, !.leader = None]]
    BY DEF Forget
  <2> QED BY <1>1, <2>1, <2>2 DEF WithoutAnswer
<1> HIDE DEF x
<1>4. /\ Sound(scenario, s, y) /\ Knows(s, y, votes) /\ y.state = x.state
      /\ y.leader_epoch = x.leader_epoch
  BY <1>1, <1>2, AnswerForgotten
<1>5. Environment'
  BY <1>2, EnvironmentKept DEF IndInv, Machines
<1> HIDE DEF y
<1> QED BY <1>1, <1>2, <1>3, <1>4, <1>5, QuietStep DEF x

LEMMA ReceiveLateReplyStep ==
  ASSUME IndInv, NEW a \in net, ReceiveLateReply(a)
  PROVE  IndInv'
<1>1. Answer(scenario, a, votes) /\ a.to \in DOMAIN st
  BY DEF IndInv, Machines, Witnessed, Answer
<1> DEFINE s == a.to
           x == st[s]
           y == ReceiveReply(x, a)
<1>2. Sound(scenario, s, x) /\ x.state # "UPDATE_CONFIG" /\ Knows(s, x, votes)
  BY <1>1, StateOf
<1>3. /\ UNCHANGED <<scenario, master, dead, faults, votes, elected>> /\ net' \subseteq net
      /\ st' = [st EXCEPT ![s] = y]
  BY DEF ReceiveLateReply
<1>4. Environment'
  BY <1>3, EnvironmentKept DEF IndInv, Machines
<1> HIDE DEF x
<1>5. /\ Sound(scenario, s, y) /\ Knows(s, y, votes) /\ y.state = x.state
      /\ y.leader_epoch = x.leader_epoch
  BY <1>1, <1>2, ReplyReceived
<1> HIDE DEF y, s
<1> QED BY <1>1, <1>2, <1>3, <1>4, <1>5, QuietStep DEF x, s

LEMMA SendHelloStep ==
  ASSUME IndInv, NEW s \in DOMAIN st, NEW t \in DOMAIN st, SendHello(s, t)
  PROVE  IndInv'
<1> DEFINE x == st[t]
           h == Hello(s)
           y == ProcessHello(x, s, h)
<1>1. /\ Sound(scenario, t, x) /\ x.state # "UPDATE_CONFIG" /\ scenario.maxEpoch \in Nat
      /\ scenario.sentinels \subseteq Sentinels
  BY StateOf
<1>2. /\ s # t /\ UNCHANGED <<scenario, master, dead, net, faults, votes, elected>>
      /\ st' = [st EXCEPT ![t] = y]
  BY DEF SendHello
<1>3. /\ h.runid \in Runids /\ h.addr \in Redis /\ h.epoch \in Nat /\ h.config_epoch \in Nat
      /\ h.epoch <= scenario.maxEpoch /\ h.config_epoch <= h.epoch
  <2>1. Sound(scenario, s, st[s]) /\ st[s] \in States /\ s \in Sentinels
    BY StateOf
  <2>2. /\ h.runid = <<s, st[s].run>> /\ h.addr = CurrentAddr(st[s])
        /\ h.epoch = st[s].epoch /\ h.config_epoch = st[s].config_epoch
    BY DEF Hello, Runid
  <2>3. CurrentAddr(st[s]) \in Redis
    BY <2>1 DEF CurrentAddr, States
  <2> HIDE DEF h
  <2>4. /\ st[s].run \in Nat /\ st[s].epoch \in Nat /\ st[s].config_epoch \in Nat
    BY <2>1 DEF States
  <2> QED BY <2>1, <2>2, <2>3, <2>4 DEF Sound, Epochs, Runids
<1>4. s \in scenario.sentinels \ {t}
  BY <1>2, StateOf
<1> HIDE DEF x, h
<1>5. Sound(scenario, t, y) /\ SameVotes(x, y) /\ y.state # "UPDATE_CONFIG"
  BY <1>1, <1>3, <1>4, HelloProcessed
<1>6. Environment'
  BY <1>2, EnvironmentKept DEF IndInv, Machines
<1> HIDE DEF y
<1> QED BY <1>2, <1>5, <1>6, OwnStep DEF x

LEMMA ResetStep ==
  ASSUME IndInv, NEW s \in DOMAIN st, Reset(s)
  PROVE  IndInv'
<1> DEFINE x == st[s]
           y == ResetMaster(x, Empty)
<1>1. Sound(scenario, s, x) /\ x \in States /\ s \in scenario.sentinels
  BY StateOf
<1>2. /\ UNCHANGED <<scenario, master, dead, net, votes, elected>> /\ Fault("reset")
      /\ st' = [st EXCEPT ![s] = y]
  BY DEF Reset
<1>3. Empty \in Tables(Sentinels, Peers) /\ DOMAIN Empty = {}
  <2>1. Empty \in [{} -> Peers] /\ DOMAIN Empty = {}
    BY DEF Empty
  <2> QED BY <2>1, InTables
<1>4. Peered(scenario, s, DOMAIN Empty)
  <2>1. ~Complete(scenario)
    BY <1>2 DEF Fault, Complete
  <2> QED BY <1>3, <2>1 DEF Peered
<1> HIDE DEF x
<1>5. Sound(scenario, s, y) /\ SameVotes(x, y) /\ y.state = "NONE"
  BY <1>1, <1>3, <1>4, MasterReset DEF Sound
<1>6. Environment'
  BY <1>2, EnvironmentKept DEF IndInv, Machines
<1> HIDE DEF y
<1> QED BY <1>2, <1>5, <1>6, OwnStep DEF x

LEMMA ForceFailoverStep ==
  ASSUME IndInv, NEW s \in DOMAIN st, ForceFailover(s)
  PROVE  IndInv'
<1> DEFINE x == st[s]
           y == WithForce(StartFailover(x))
<1>1. Sound(scenario, s, x) /\ scenario.maxEpoch \in Nat
  BY StateOf
<1>2. /\ UNCHANGED <<scenario, master, dead, net, votes, elected>> /\ Fault("failover")
      /\ st' = [st EXCEPT ![s] = y] /\ "FAILOVER" \notin x.flags /\ x.epoch < scenario.maxEpoch
  <2>1. st' = [st EXCEPT ![s] = y]
    BY DEF ForceFailover, WithForce
  <2> HIDE DEF y
  <2> QED BY <2>1 DEF ForceFailover, MaxEpoch
<1> HIDE DEF x
<1>3. Sound(scenario, s, y) /\ SameVotes(x, y) /\ y.state = "WAIT_START"
  BY <1>1, <1>2, FailoverForced
<1>4. Environment'
  BY <1>2, EnvironmentKept DEF IndInv, Machines
<1> HIDE DEF y
<1> QED BY <1>2, <1>3, <1>4, OwnStep DEF x

LEMMA RemonitorStep ==
  ASSUME IndInv, NEW s \in DOMAIN st, Remonitor(s)
  PROVE  IndInv'
<1> DEFINE x == st[s]
           m == NewMaster(x.addr)
           y == FlushConfig(Started(m, x.epoch, x.run, x.disk))
<1>1. Sound(scenario, s, x) /\ x \in States /\ scenario.maxEpoch \in Nat
  BY StateOf
<1>2. /\ UNCHANGED <<scenario, master, dead, net, votes, elected>> /\ Fault("monitor")
      /\ st' = [st EXCEPT ![s] = y]
  BY DEF Remonitor
<1>3. Configured(scenario, s, m, x.epoch)
  <2>1. x.addr \in Redis /\ x.epoch \in 0..scenario.maxEpoch /\ x.epoch \in Nat
    BY <1>1 DEF States, Sound, Epochs
  <2>2. /\ Empty \in Tables(Sentinels, Peers) /\ Empty \in Tables(Redis, SUBSET SlaveFlags)
        /\ DOMAIN Empty = {}
    <3>1. /\ Empty \in [{} -> Peers] /\ Empty \in [{} -> SUBSET SlaveFlags] /\ DOMAIN Empty = {}
      BY DEF Empty
    <3> QED BY <3>1, InTables
  <2>3. Peered(scenario, s, {})
    BY <1>2 DEF Peered, Complete, Fault
  <2>4. /\ m.addr = x.addr /\ m.flags = {} /\ m.role = "master" /\ m.leader = None
        /\ m.state = "NONE" /\ m.failover_epoch = 0 /\ m.promoted = None
        /\ m.config_epoch = 0 /\ m.leader_epoch = 0 /\ m.slaves = Empty /\ m.sentinels = Empty
    BY DEF NewMaster
  <2> HIDE DEF m, x
  <2> QED BY <2>1, <2>2, <2>3, <2>4 DEF Configured
<1>4. x.run \in Nat /\ x.disk \in Files \cup {None}
  BY <1>1 DEF States
<1> HIDE DEF x, m
<1>5. Sound(scenario, s, y) /\ Knows(s, y, {}) /\ y.state = "NONE"
  BY <1>1, <1>3, <1>4, StartedFlushed
<1>6. Knows(s, y, votes)
  BY <1>5 DEF Knows
<1>7. Environment'
  BY <1>2, EnvironmentKept DEF IndInv, Machines
<1>8. "monitor" \in scenario.faults
  BY <1>2 DEF Fault
<1> HIDE DEF y
<1> QED BY <1>2, <1>5, <1>6, <1>7, <1>8, QuietStep

LEMMA TiltStep ==
  ASSUME IndInv, NEW s \in DOMAIN st, Tilt(s)
  PROVE  IndInv'
<1> DEFINE x == st[s]
           y == InTilt(x)
<1>1. Sound(scenario, s, x) /\ x.state # "UPDATE_CONFIG"
  BY StateOf
<1>2. /\ UNCHANGED <<scenario, master, dead, net, votes, elected>> /\ Fault("tilt")
      /\ st' = [st EXCEPT ![s] = y]
  BY DEF Tilt, InTilt
<1> HIDE DEF x
<1>3. Sound(scenario, s, y) /\ SameVotes(x, y) /\ y.state = x.state
  BY <1>1, Tilted
<1>4. Environment'
  BY <1>2, EnvironmentKept DEF IndInv, Machines
<1> HIDE DEF y
<1> QED BY <1>1, <1>2, <1>3, <1>4, OwnStep DEF x

LEMMA RestartStep ==
  ASSUME IndInv, NEW s \in DOMAIN st, Restart(s)
  PROVE  IndInv'
<1> DEFINE x == st[s]
           y == Loaded(x.disk, x.run + 1)
<1>1. Sound(scenario, s, x) /\ x \in States /\ scenario.maxEpoch \in Nat
  BY StateOf
<1>2. /\ UNCHANGED <<scenario, master, dead, votes, elected>> /\ Fault("restart")
      /\ st' = [st EXCEPT ![s] = y] /\ net' \subseteq net
  BY DEF Restart
<1>3. x.run + 1 \in Nat
  BY <1>1 DEF States
<1> HIDE DEF x
<1>4. /\ Sound(scenario, s, y) /\ Knows(s, y, {}) /\ y.state = "NONE"
      /\ y.leader_epoch = x.leader_epoch
  BY <1>1, <1>3, Reloaded
<1>5. Knows(s, y, votes)
  BY <1>4 DEF Knows
<1>6. Environment'
  BY <1>2, EnvironmentKept DEF IndInv, Machines
<1> HIDE DEF y
<1> QED BY <1>2, <1>4, <1>5, <1>6, QuietStep DEF x

LEMMA RedisStep ==
  ASSUME IndInv, NEW r \in DOMAIN master, Die(r) \/ Revive(r)
  PROVE  IndInv'
<1>1. UNCHANGED <<scenario, st, master, net, votes, elected>>
  BY DEF Die, Revive
<1>2. dead' \subseteq DOMAIN master' /\ faults' \in 0..scenario.maxFaults
  <2>1. dead' \subseteq DOMAIN master
    BY DEF IndInv, Environment, Die, Revive
  <2>2. faults' \in 0..scenario.maxFaults
    <3>1. faults \in 0..scenario.maxFaults /\ scenario.maxFaults \in Nat
      BY ScenarioFacts DEF IndInv, Machines, Environment
    <3>2. CASE Die(r)
      BY <3>1, <3>2 DEF Die, Fault
    <3>3. CASE Revive(r)
      BY <3>1, <3>3 DEF Revive
    <3> QED BY <3>2, <3>3
  <2> QED BY <1>1, <2>1, <2>2
<1> QED BY <1>1, <1>2 DEF IndInv, Machines, Environment, Witnessed, Ballots, VoteOnce, Elections

LEMMA AskMasterStateStep ==
  ASSUME IndInv, NEW s \in DOMAIN st, NEW t \in DOMAIN st, AskMasterState(s, t)
  PROVE  IndInv'
<1> DEFINE x == st[s]
           y == st[t]
           vote == y.addr = x.addr /\ x.state # "NONE"
           z == IF vote THEN VoteLeader(y, x.epoch, Runid(s)) ELSE y
           a == IsMasterDown(s, t, x.addr, vote, y, z)
           b == ReceiveReply(x, a)
<1>1. /\ Sound(scenario, s, x) /\ x.state # "UPDATE_CONFIG" /\ Knows(s, x, votes) /\ x \in States
      /\ Sound(scenario, t, y) /\ y.state # "UPDATE_CONFIG" /\ Knows(t, y, votes) /\ y \in States
      /\ scenario.maxEpoch \in Nat /\ s \in Sentinels /\ {s, t} \subseteq scenario.sentinels
  BY StateOf
<1>2. /\ t \in DOMAIN x.sentinels /\ UNCHANGED <<scenario, master, dead, elected>>
      /\ votes' = votes \cup Cast(t, y, z)
      /\ \/ st' = [st EXCEPT ![t] = z, ![s] = b] /\ UNCHANGED <<net, faults>>
         \/ st' = [st EXCEPT ![t] = z] /\ net' = net \cup {a} /\ Fault("late")
         \/ st' = [st EXCEPT ![t] = z] /\ UNCHANGED net /\ Fault("loss")
  BY DEF AskMasterState
<1>3. s # t
  BY <1>1, <1>2 DEF Sound, Peered
<1>4. Environment'
  BY <1>2, EnvironmentKept DEF IndInv, Machines
<1>5. Sound(scenario, t, z) /\ z.state = y.state /\ VoteStep(y, z)
  <2>1. /\ Runid(s) \in Runids /\ x.epoch \in Nat /\ x.epoch <= scenario.maxEpoch
    BY <1>1 DEF Sound, States, Epochs, Runid, Runids
  <2>2. CASE vote
    <3>1. z = VoteLeader(y, x.epoch, Runid(s))
      BY <2>2
    <3> HIDE DEF x, y, z
    <3> QED BY <1>1, <2>1, <3>1, VotedLeader DEF VoteStep
  <2>3. CASE ~vote
    <3>1. z = y
      BY <2>3
    <3> HIDE DEF x, y, z
    <3> QED BY <1>1, <3>1, Stays
  <2> QED BY <2>2, <2>3
<1>6. a \in [from : {t}, to : {s}, down : BOOLEAN, leader : {None, z.leader},
              leader_epoch : {0, z.leader_epoch}]
      /\ (a.leader # None => a.leader = z.leader /\ a.leader_epoch = z.leader_epoch)
  BY DEF IsMasterDown
<1> HIDE DEF z, a, vote
<1>7. z \in States /\ z.leader \in Runids \cup {None} /\ z.leader_epoch \in Nat
      /\ y.leader_epoch \in Nat
  BY <1>1, <1>5 DEF Sound, States
<1>8. /\ Knows(t, z, votes')
      /\ \/ Cast(t, y, z) = {} /\ z.leader_epoch = y.leader_epoch
         \/ /\ z.leader_epoch > y.leader_epoch
            /\ \E n \in Runids : Cast(t, y, z) = {Vote(t, z.leader_epoch, n)}
  <2> HIDE DEF y
  <2> QED BY <1>1, <1>2, <1>5, <1>7, VoteCast
<1>9. Answer(scenario, a, votes')
  <2>1. /\ a.from = t /\ a.to = s /\ a.down \in BOOLEAN /\ a.leader \in {None, z.leader}
        /\ a.leader_epoch \in {0, z.leader_epoch}
    BY <1>6
  <2> QED BY <1>1, <1>6, <1>7, <1>8, <2>1 DEF Answer, Knows
<1>10. /\ Sound(scenario, s, b) /\ Knows(s, b, votes') /\ b.state = x.state
       /\ b.leader_epoch = x.leader_epoch /\ b \in States
  <2>1. Knows(s, x, votes')
    BY <1>1, <1>2, Stays, KnowsMore
  <2> HIDE DEF x
  <2> QED BY <1>1, <1>9, <2>1, ReplyReceived DEF Sound
<1> HIDE DEF b
<1>11. /\ DOMAIN st' = DOMAIN st /\ st'[t] = z /\ st'[s] \in {x, b}
       /\ \A u \in DOMAIN st : u \notin {s, t} => st'[u] = st[u]
       /\ st' \in [DOMAIN st -> States]
  <2>1. st \in [DOMAIN st -> States]
    BY DEF IndInv, Machines
  <2>2. CASE st' = [st EXCEPT ![t] = z, ![s] = b]
    BY <1>3, <1>7, <1>10, <2>1, <2>2
  <2>3. CASE st' = [st EXCEPT ![t] = z]
    BY <1>3, <1>7, <1>10, <2>1, <2>3
  <2> QED BY <1>2, <2>2, <2>3
<1>12. \A u \in DOMAIN st : /\ Sound(scenario, u, st'[u]) /\ st'[u].state # "UPDATE_CONFIG"
                            /\ Knows(u, st'[u], votes')
                            /\ "monitor" \notin scenario.faults =>
                                 st'[u].leader_epoch >= st[u].leader_epoch
  <2> SUFFICES ASSUME NEW u \in DOMAIN st
               PROVE  /\ Sound(scenario, u, st'[u]) /\ st'[u].state # "UPDATE_CONFIG"
                      /\ Knows(u, st'[u], votes')
                      /\ st'[u].leader_epoch >= st[u].leader_epoch
    OBVIOUS
  <2>1. /\ Sound(scenario, u, st[u]) /\ st[u].state # "UPDATE_CONFIG"
        /\ Knows(u, st[u], votes') /\ st[u].leader_epoch \in Nat
    <3>1. /\ Sound(scenario, u, st[u]) /\ st[u].state # "UPDATE_CONFIG"
          /\ Knows(u, st[u], votes) /\ st[u] \in States
      BY StateOf
    <3> QED BY <1>2, <3>1, Stays, KnowsMore DEF States
  <2>2. CASE u = t
    BY <1>1, <1>5, <1>7, <1>8, <1>11, <2>2
  <2>3. CASE u = s
    BY <1>1, <1>10, <1>11, <2>1, <2>3
  <2>4. CASE u \notin {s, t}
    BY <1>11, <2>1, <2>4
  <2> QED BY <2>2, <2>3, <2>4
<1>13. \A c \in net' : c \in net \/ Answer(scenario, c, votes')
  BY <1>2, <1>9
<1>14. \/ votes' = votes
       \/ /\ st'[t].leader_epoch > st[t].leader_epoch
          /\ \E n \in Runids : votes' = votes \cup {Vote(t, st'[t].leader_epoch, n)}
  BY <1>2, <1>8, <1>11
<1> HIDE DEF x, y
<1> QED BY <1>2, <1>4, <1>11, <1>12, <1>13, <1>14, VotingStep

LEMMA HandleMasterStep ==
  ASSUME IndInv, NEW s \in DOMAIN st, HandleMaster(s)
  PROVE  IndInv'
<1>1. /\ Sound(scenario, s, st[s]) /\ st[s].state # "UPDATE_CONFIG" /\ Knows(s, st[s], votes)
      /\ st[s] \in States /\ s \in Sentinels /\ s \in scenario.sentinels
      /\ scenario \in Scenarios /\ scenario.maxEpoch \in Nat
  BY StateOf
<1> DEFINE checked(down) ==
             CheckObjectivelyDown(CheckSubjectivelyDown([st[s] EXCEPT !.tilt = FALSE], down))
           begun(down, may) ==
             IF StartsFailover(checked(down), may) THEN StartFailover(checked(down)) ELSE checked(down)
           after(w) == IF w.state = "UPDATE_CONFIG" THEN ChangeAddress(w, w.promoted) ELSE w
           won(y, w) == y.state = "WAIT_START" /\ w.state = "SELECT_SLAVE" /\ IsLeader(s, y, w)
           election(y) == [epoch |-> y.failover_epoch, now |-> y.epoch, leader |-> <<s, y.run>>]
<1>2. PICK down \in BOOLEAN, may \in BOOLEAN :
        \E o \in StateMachine(s, begun(down, may)) :
          /\ st' = [st EXCEPT ![s] = after(o.x)]
          /\ SlaveofArrive(o.slaveof)
          /\ votes' = votes \cup Cast(s, begun(down, may), o.x)
          /\ elected' = IF won(begun(down, may), o.x)
                        THEN elected \cup {election(begun(down, may))} ELSE elected
          /\ UNCHANGED <<scenario, dead, net, faults>>
  <2>1. MasterVerdicts(st[s]) \subseteq BOOLEAN
    BY DEF MasterVerdicts, Verdicts
  <2>2. PICK down \in MasterVerdicts(st[s]), may \in BOOLEAN :
          \E o \in StateMachine(s, begun(down, may)) :
            /\ st' = [st EXCEPT ![s] = after(o.x)]
            /\ SlaveofArrive(o.slaveof)
            /\ votes' = votes \cup Cast(s, begun(down, may), o.x)
            /\ elected' = IF won(begun(down, may), o.x)
                          THEN elected \cup {election(begun(down, may))} ELSE elected
            /\ UNCHANGED <<scenario, dead, net, faults>>
    BY Zenon DEF HandleMaster
  <2> HIDE DEF begun, after, won, election
  <2> QED BY <2>1, <2>2
<1> DEFINE x == checked(down)
           y == begun(down, may)
<1>3. PICK o \in StateMachine(s, y) :
         /\ st' = [st EXCEPT ![s] = after(o.x)] /\ SlaveofArrive(o.slaveof)
         /\ votes' = votes \cup Cast(s, y, o.x)
         /\ elected' = IF won(y, o.x) THEN elected \cup {election(y)} ELSE elected
         /\ UNCHANGED <<scenario, dead, net, faults>>
  <2> HIDE DEF begun, after, won, election
  <2> QED BY <1>2
<1> DEFINE w == o.x
           z == after(w)
<1> HIDE DEF won, election, after
<1>4. Sound(scenario, s, x) /\ SameVotes(st[s], x)
  BY <1>1, Checked
<1>5. Sound(scenario, s, y) /\ SameVotes(st[s], y)
  <2> HIDE DEF checked
  <2>1. CASE StartsFailover(x, may)
    <3>1. "FAILOVER" \notin x.flags /\ x.epoch < scenario.maxEpoch
      BY <2>1 DEF StartsFailover, MaxEpoch
    <3>2. Sound(scenario, s, StartFailover(x)) /\ SameVotes(x, StartFailover(x))
      BY <1>1, <1>4, <3>1, FailoverStarted
    <3> QED BY <1>4, <2>1, <3>2, SameVotesTransitive
  <2>2. CASE ~StartsFailover(x, may)
    BY <1>4, <2>2
  <2> QED BY <2>1, <2>2
<1> HIDE DEF begun, checked
<1>6. /\ Knows(s, y, votes) /\ y \in States /\ y.leader_epoch = st[s].leader_epoch
      /\ y.leader_epoch \in Nat
  <2>1. Knows(s, y, votes)
    BY <1>1, <1>5, KnowsMore
  <2> QED BY <1>5, <2>1 DEF Sound, States, SameVotes
<1>7. /\ Sound(scenario, s, w) /\ VoteStep(y, w)
      /\ o.slaveof \subseteq Redis \X (Redis \cup {None})
  <2>1. GoodOutcome(scenario, s, y, o)
    BY <1>1, <1>5, FailoverStep
  <2> QED BY <2>1 DEF GoodOutcome
<1>8. Environment'
  BY <1>3, <1>7, SlaveofSent DEF IndInv
<1> HIDE DEF w
<1>9. w \in States /\ w.leader_epoch \in Nat
  BY <1>7 DEF Sound, States
<1>10. /\ Knows(s, w, votes')
       /\ \/ Cast(s, y, w) = {} /\ w.leader_epoch = y.leader_epoch
          \/ /\ w.leader_epoch > y.leader_epoch
             /\ \E n \in Runids : Cast(s, y, w) = {Vote(s, w.leader_epoch, n)}
  <2>1. votes' = votes \cup Cast(s, y, w)
    BY <1>3 DEF w
  <2> QED BY <1>6, <1>7, <1>9, <2>1, VoteCast
<1>11. Sound(scenario, s, z) /\ SameVotes(w, z) /\ z.state # "UPDATE_CONFIG"
  <2>1. CASE w.state = "UPDATE_CONFIG"
    <3>1. w.promoted \in Redis
      BY <1>7, <1>9, <2>1 DEF Sound, Valid, States
    <3>2. z = ChangeAddress(w, w.promoted)
      BY <2>1 DEF after
    <3> HIDE DEF z
    <3> QED BY <1>1, <1>7, <3>1, <3>2, AddressChanged
  <2>2. CASE w.state # "UPDATE_CONFIG"
    <3>1. z = w
      BY <2>2 DEF after
    <3> HIDE DEF z
    <3> QED BY <1>7, <2>2, <3>1, Stays
  <2> QED BY <2>1, <2>2
<1>12. z \in States /\ Knows(s, z, votes') /\ z.leader_epoch = w.leader_epoch
  <2>1. Knows(s, z, votes')
    BY <1>10, <1>11, KnowsMore
  <2> QED BY <1>11, <2>1 DEF Sound, SameVotes
<1>13. st' = [st EXCEPT ![s] = z] /\ votes \subseteq votes' /\ UNCHANGED <<scenario, net>>
  BY <1>3 DEF w
<1> HIDE DEF z
<1>14. /\ DOMAIN st' = DOMAIN st /\ st'[s] = z /\ st' \in [DOMAIN st -> States]
       /\ \A u \in DOMAIN st : u # s => st'[u] = st[u]
  BY <1>12, <1>13 DEF IndInv, Machines
<1>15. \A u \in DOMAIN st : /\ Sound(scenario, u, st'[u]) /\ st'[u].state # "UPDATE_CONFIG"
                            /\ Knows(u, st'[u], votes')
                            /\ "monitor" \notin scenario.faults =>
                                 st'[u].leader_epoch >= st[u].leader_epoch
  <2> SUFFICES ASSUME NEW u \in DOMAIN st
               PROVE  /\ Sound(scenario, u, st'[u]) /\ st'[u].state # "UPDATE_CONFIG"
                      /\ Knows(u, st'[u], votes')
                      /\ st'[u].leader_epoch >= st[u].leader_epoch
    OBVIOUS
  <2>1. CASE u = s
    BY <1>6, <1>9, <1>10, <1>11, <1>12, <1>14, <2>1
  <2>2. CASE u # s
    <3>1. /\ Sound(scenario, u, st[u]) /\ st[u].state # "UPDATE_CONFIG"
          /\ Knows(u, st[u], votes) /\ st[u] \in States
      BY StateOf
    <3> QED BY <1>13, <1>14, <2>2, <3>1, Stays, KnowsMore DEF States
  <2> QED BY <2>1, <2>2
<1>16. \/ votes' = votes
       \/ /\ st'[s].leader_epoch > st[s].leader_epoch
          /\ \E n \in Runids : votes' = votes \cup {Vote(s, st'[s].leader_epoch, n)}
  <2>1. votes' = votes \cup Cast(s, y, w)
    BY <1>3 DEF w
  <2> QED BY <1>6, <1>10, <1>12, <1>14, <2>1
<1>17. \A e \in elected' : e \in elected \/ Won(scenario, e, votes')
  <2>1. elected' = IF won(y, w) THEN elected \cup {election(y)} ELSE elected
    BY <1>3 DEF w
  <2>2. CASE won(y, w)
    <3> DEFINE e == election(y)
    <3>1. /\ e.epoch = y.failover_epoch /\ e.now = y.epoch /\ e.leader = <<s, y.run>>
          /\ IsLeader(s, y, w)
      BY <2>2 DEF won, election
    <3>2. Knows(s, y, votes')
      BY <1>6, <1>13, Stays, KnowsMore
    <3> HIDE DEF e
    <3>3. Won(scenario, e, votes')
      BY <1>1, <1>5, <1>10, <3>1, <3>2, ElectionWon
    <3> QED BY <2>1, <2>2, <3>3 DEF e
  <2>3. CASE ~won(y, w)
    BY <2>1, <2>3
  <2> QED BY <2>2, <2>3
<1> HIDE DEF y, x
<1> QED BY <1>8, <1>13, <1>14, <1>15, <1>16, <1>17, VotingStep

LEMMA InitInv == Init => IndInv
<1> SUFFICES ASSUME Init PROVE IndInv
  OBVIOUS
<1>1. /\ scenario \in Scenarios /\ scenario.sentinels \subseteq Sentinels
      /\ scenario.slaves \cup {First} \subseteq Redis /\ scenario.maxEpoch \in Nat
      /\ scenario.maxFaults \in Nat /\ scenario.known \in BOOLEAN
  BY ScenarioFacts, ConstantsAssumption DEF Init
<1> DEFINE S == IF scenario.known THEN scenario.slaves ELSE {}
           T(s) == IF scenario.known THEN scenario.sentinels \ {s} ELSE {}
           f(s) == [t \in T(s) |-> NewPeer(<<t, 0>>)]
           m(s) == [NewMaster(First) EXCEPT !.slaves = NewSlaves(S), !.sentinels = f(s)]
           x(s) == FlushConfig(Started(m(s), 0, 0, None))
<1>2. st = [s \in scenario.sentinels |-> x(s)]
  BY DEF Init
<1>3. ASSUME NEW s \in scenario.sentinels
      PROVE  Sound(scenario, s, x(s)) /\ Knows(s, x(s), {}) /\ x(s).state = "NONE"
  <2>1. /\ f(s) \in [DOMAIN f(s) -> Peers] /\ DOMAIN f(s) = T(s)
        /\ \A t \in DOMAIN f(s) : f(s)[t].leader = None
    <3>1. T(s) \subseteq Sentinels
      BY <1>1
    <3> HIDE DEF T
    <3> QED BY <3>1 DEF NewPeer, Peers, Runids
  <2>2. Peered(scenario, s, T(s)) /\ T(s) \subseteq Sentinels
    BY <1>1 DEF Peered, Complete
  <2> HIDE DEF T
  <2>3. f(s) \in Tables(Sentinels, Peers)
    BY <2>1, <2>2, InTables
  <2>4. S \in SUBSET Redis
    BY <1>1
  <2> HIDE DEF S
  <2>5. /\ NewSlaves(S) \in Tables(Redis, SUBSET SlaveFlags) /\ DOMAIN NewSlaves(S) = S
        /\ \A r \in S : NewSlaves(S)[r] = {}
    BY <2>4, FreshSlaves
  <2> HIDE DEF f
  <2> DEFINE n == m(s)
  <2>6. /\ n.addr = First /\ n.flags = {} /\ n.role = "master" /\ n.leader = None
        /\ n.state = "NONE" /\ n.failover_epoch = 0 /\ n.promoted = None
        /\ n.config_epoch = 0 /\ n.leader_epoch = 0 /\ n.slaves = NewSlaves(S)
        /\ n.sentinels = f(s)
    BY DEF NewMaster
  <2>7. x(s) = FlushConfig(Started(n, 0, 0, None))
    OBVIOUS
  <2> HIDE DEF n, m, x
  <2>8. Configured(scenario, s, n, 0)
    BY <1>1, <2>1, <2>2, <2>3, <2>5, <2>6 DEF Configured
  <2> QED BY <1>1, <2>7, <2>8, StartedFlushed
<1> HIDE DEF x
<1>4. st \in [scenario.sentinels -> States]
  BY <1>2, <1>3 DEF Sound
<1>5. Machines /\ \A s \in DOMAIN st : Knows(s, st[s], {})
  BY <1>1, <1>2, <1>3, <1>4 DEF Machines
<1>6. Environment
  <2>1. master = [r \in scenario.slaves \cup {First} |-> IF r = First THEN None ELSE First]
    BY DEF Init
  <2>2. dead \subseteq {First} /\ faults = 0
    BY DEF Init
  <2> QED BY <1>1, <2>1, <2>2 DEF Environment
<1>7. net = {} /\ votes = {} /\ elected = {}
  BY DEF Init
<1> QED BY <1>5, <1>6, <1>7 DEF IndInv, Witnessed, Ballots, VoteOnce, Elections

LEMMA NextInv == IndInv /\ [Next]_vars => IndInv'
<1> SUFFICES ASSUME IndInv, [Next]_vars PROVE IndInv'
  OBVIOUS
<1>1. CASE UNCHANGED vars
  BY <1>1 DEF vars, IndInv, Machines, Environment, Witnessed, Ballots, VoteOnce, Elections
<1>2. ASSUME NEW s \in DOMAIN st,
             \/ HandleMaster(s) \/ InfoFromMaster(s) \/ Reset(s) \/ ForceFailover(s)
             \/ Remonitor(s) \/ Tilt(s) \/ Restart(s)
      PROVE  IndInv'
  BY <1>2, HandleMasterStep, InfoFromMasterStep, ResetStep, ForceFailoverStep,
     RemonitorStep, TiltStep, RestartStep
<1>3. ASSUME NEW s \in DOMAIN st, NEW r \in DOMAIN master,
             HandleSlave(s, r) \/ InfoFromMasterSlave(s, r) \/ InfoFromSlave(s, r)
      PROVE  IndInv'
  BY <1>3, HandleSlaveStep, InfoFromMasterSlaveStep, InfoFromSlaveStep
<1>4. ASSUME NEW s \in DOMAIN st, NEW t \in DOMAIN st,
             SendHello(s, t) \/ AskMasterState(s, t) \/ Forget(s, t)
      PROVE  IndInv'
  BY <1>4, SendHelloStep, AskMasterStateStep, ForgetStep
<1>5. ASSUME NEW a \in net, ReceiveLateReply(a) PROVE IndInv'
  BY <1>5, ReceiveLateReplyStep
<1>6. ASSUME NEW r \in DOMAIN master, Die(r) \/ Revive(r) PROVE IndInv'
  BY <1>6, RedisStep
<1> QED BY <1>1, <1>2, <1>3, <1>4, <1>5, <1>6 DEF Next

LEMMA Inductive == Spec => []IndInv
BY InitInv, NextInv, PTL DEF Spec

----------------------------------------------------------------------------
(* The theorems.                                                           *)

\* Every variable keeps a value of its kind: no epoch of a sentinel is newer
\* than its current one, and no failover is left between its end and the
\* switch of the master's address (sentinelHandleDictOfRedisInstances).
THEOREM Typing == Spec => []TypeOK
<1>1. IndInv => TypeOK
  <2> SUFFICES ASSUME IndInv PROVE TypeOK
    OBVIOUS
  <2>1. ASSUME NEW s \in DOMAIN st
        PROVE  /\ st[s].state \in FailoverStates \ {"UPDATE_CONFIG"}
               /\ st[s].flags \subseteq MasterFlags
               /\ st[s].epoch \in 0..MaxEpoch /\ st[s].failover_epoch \in 0..st[s].epoch
               /\ st[s].leader_epoch \in 0..st[s].epoch
               /\ DOMAIN st[s].slaves \subseteq Redis
               /\ DOMAIN st[s].sentinels \subseteq Sentinels \ {s}
    <3> DEFINE x == st[s]
    <3>1. /\ Sound(scenario, s, x) /\ x.state # "UPDATE_CONFIG" /\ x \in States
          /\ scenario.maxEpoch \in Nat /\ scenario.sentinels \subseteq Sentinels
      BY StateOf
    <3> HIDE DEF x
    <3>2. /\ x.state \in FailoverStates /\ x.flags \subseteq MasterFlags
          /\ x.epoch \in Nat /\ x.failover_epoch \in Nat /\ x.leader_epoch \in Nat
      BY <3>1 DEF States
    <3>3. DOMAIN x.slaves \subseteq Redis
      BY <3>1, InTables DEF States
    <3>4. x.epoch \in 0..MaxEpoch /\ x.failover_epoch \in 0..x.epoch /\ x.leader_epoch \in 0..x.epoch
      BY <3>1, <3>2 DEF Sound, Epochs, MaxEpoch
    <3>5. DOMAIN x.sentinels \subseteq Sentinels \ {s}
      BY <3>1 DEF Sound, Peered
    <3> QED BY <3>1, <3>2, <3>3, <3>4, <3>5 DEF x
  <2>2. /\ \A r \in DOMAIN master : master[r] \in Redis \cup {None}
        /\ dead \subseteq DOMAIN master /\ faults \in 0..scenario.maxFaults
    BY DEF IndInv, Environment
  <2> QED BY <2>1, <2>2 DEF TypeOK
<1> QED BY <1>1, Inductive, PTL

\* The promoted slave is one of the slaves, it alone is marked, and it is
\* there in every state whose handler follows the pointer
\* (sentinelFailoverSendSlaveOfNoOne, sentinelFailoverDetectEnd,
\* sentinelRefreshInstanceInfo): no reset, hello or abort leaves it dangling.
THEOREM PromotedSlave == Spec => []PromotedIsValid
<1>1. IndInv => PromotedIsValid
  <2> SUFFICES ASSUME IndInv, NEW s \in DOMAIN st
               PROVE  LET x == st[s]
                          marked == {r \in DOMAIN x.slaves : "PROMOTED" \in x.slaves[r]}
                      IN /\ marked = {x.promoted} \ {None}
                         /\ x.state \in {"SEND_SLAVEOF_NOONE", "WAIT_PROMOTION", "RECONF_SLAVES"}
                              => x.promoted # None
                         /\ (\E r \in DOMAIN x.slaves : x.slaves[r] \cap {"SENT", "INPROG"} # {})
                              => x.state = "RECONF_SLAVES"
                         /\ x.state # "NONE" <=> "FAILOVER" \in x.flags
    BY DEF PromotedIsValid
  <2> DEFINE x == st[s]
  <2>1. Valid(x) /\ x.state # "UPDATE_CONFIG" /\ DOMAIN x.slaves \subseteq Redis
    BY StateOf, InTables DEF Sound, States
  <2>2. \A r \in DOMAIN x.slaves : r # None
    BY <2>1, ConstantsAssumption
  <2> HIDE DEF x
  <2>3. {r \in DOMAIN x.slaves : "PROMOTED" \in x.slaves[r]} = {x.promoted} \ {None}
    BY <2>1, <2>2 DEF Valid
  <2> QED BY <2>1, <2>3 DEF Valid, x
<1> QED BY <1>1, Inductive, PTL

\* sentinelVoteLeader: one vote for each epoch, as long as nobody removes the
\* master and monitors it again (which loses the epoch of the vote); neither
\* restarts, resets, late answers nor newer epochs bring a second one.
THEOREM OneVote == Spec => []("monitor" \notin scenario.faults => VoteOnce)
<1>1. IndInv => ("monitor" \notin scenario.faults => VoteOnce)
  BY DEF IndInv, Ballots
<1> QED BY <1>1, Inductive, PTL

\* sentinelGetLeader: one leader for each epoch, when the quorum is a majority
\* of the sentinels or everybody counts all the sentinels there are.
THEOREM OneLeader ==
  Spec => []("monitor" \notin scenario.faults /\ Majorities(scenario) => OneLeaderPerEpoch)
<1>1. IndInv => ("monitor" \notin scenario.faults /\ Majorities(scenario) => OneLeaderPerEpoch)
  <2> SUFFICES ASSUME IndInv, "monitor" \notin scenario.faults, Majorities(scenario),
                      NEW e \in elected, NEW g \in elected,
                      e.epoch = g.epoch, e.now = e.epoch, g.now = g.epoch
               PROVE  e.leader = g.leader
    BY DEF OneLeaderPerEpoch
  <2> DEFINE S == scenario.sentinels
  <2>1. IsFiniteSet(S) /\ Cardinality(S) \in Nat
    BY ScenarioFacts DEF IndInv, Machines
  <2>2. Won(scenario, e, votes) /\ Won(scenario, g, votes) /\ VoteOnce
    BY DEF IndInv, Elections, Ballots
  <2>3. PICK Q \in SUBSET S : /\ 2 * Cardinality(Q) > Cardinality(S)
                             /\ \A v \in Q : Vote(v, e.epoch, e.leader) \in votes
    BY <2>2 DEF Won
  <2>4. PICK R \in SUBSET S : /\ 2 * Cardinality(R) > Cardinality(S)
                             /\ \A v \in R : Vote(v, g.epoch, g.leader) \in votes
    BY <2>2 DEF Won
  <2> HIDE DEF S
  <2>5. Cardinality(Q) \in Nat /\ Cardinality(R) \in Nat
    BY <2>1, <2>3, <2>4, FS_Subset, FS_CardinalityType
  <2>6. Cardinality(Q) + Cardinality(R) > Cardinality(S)
    BY <2>1, <2>3, <2>4, <2>5
  <2>7. PICK v : v \in Q /\ v \in R
    BY <2>1, <2>6, FS_MajoritiesIntersect
  <2>8. Vote(v, e.epoch, e.leader) \in votes /\ Vote(v, e.epoch, g.leader) \in votes
    BY <2>3, <2>4, <2>7
  <2> QED BY <2>2, <2>8 DEF VoteOnce, Vote
<1> QED BY <1>1, Inductive, PTL

=============================================================================
