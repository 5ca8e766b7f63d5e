------------------------------ MODULE Sentinel ------------------------------
(***************************************************************************)
(* Redis Sentinel (sentinel.c): several sentinels monitor one master and   *)
(* its slaves, agree that it is down, elect one of them by votes that      *)
(* carry an epoch, and the winner promotes a slave and moves the others to *)
(* it.  The configuration with the highest epoch spreads by hello          *)
(* messages.                                                               *)
(*                                                                         *)
(* A Redis instance is its address.  Time is a choice: wherever the code   *)
(* compares a time with a period both answers are possible, except that an *)
(* instance is found down, disconnected or silent only if it is dead (any  *)
(* instance, when "slow" is among the faults); a dead one is not at once.  *)
(* A hello and a question are processed when they are sent; an answer may  *)
(* come late, or be lost.                                                  *)
(***************************************************************************)
EXTENDS Integers, FiniteSets

CONSTANTS Sentinels, Redis, None,
          First,          \* the address of "sentinel monitor"
          Rank,           \* the order of compareSlavesForPromotion, a number
                          \* for each instance, 0 for slave_priority 0
          Scenarios       \* the set a behaviour draws its scenario from:
                          \*   sentinels, slaves  those there are
                          \*   known     whether the sentinels know each other
                          \*   quorum    of "sentinel monitor"
                          \*   parallelSyncs  parallel-syncs
                          \*   maxEpoch  bound: no failover starts at it
                          \*   faults    the disturbances and commands
                          \*   maxFaults bound: how many of them

ASSUME ConstantsAssumption ==
  /\ IsFiniteSet(Sentinels) /\ First \in Redis
  /\ None \notin Redis \cup (Sentinels \X Nat)
  /\ \A c \in Scenarios :
       /\ c.sentinels \subseteq Sentinels /\ c.slaves \subseteq Redis \ {First}
       /\ c.known \in BOOLEAN /\ {c.quorum, c.parallelSyncs, c.maxEpoch, c.maxFaults} \subseteq Nat

VARIABLES scenario,
          st,      \* the state of each sentinel, its file included
          master,  \* the master each Redis instance replicates from, or None
          dead,    \* the Redis instances that do not answer
          net,     \* the answers on their way between sentinels
          faults,  \* disturbances so far
          votes,   \* history: every vote cast
          elected  \* history: every election won

vars == <<scenario, st, master, dead, net, faults, votes, elected>>

Empty == [r \in {} |-> {}]

\* What the known instances of createSentinelRedisInstance start with: the
\* answers of a sentinel, and the flags of a slave.
NewPeer(runid) == [runid |-> runid, down |-> FALSE, leader |-> None,
                   leader_epoch |-> 0]
NewSlaves(S)   == [r \in S |-> {}]

MasterFlags == {"S_DOWN", "O_DOWN", "FAILOVER", "FORCE"}
SlaveFlags  == {"S_DOWN", "PROMOTED", "SENT", "INPROG", "DONE"}
FailoverStates == {"NONE", "WAIT_START", "SELECT_SLAVE", "SEND_SLAVEOF_NOONE",
                   "WAIT_PROMOTION", "RECONF_SLAVES", "UPDATE_CONFIG"}

\* The master as createSentinelRedisInstance makes it, on a sentinel.
NewMaster(addr) ==
  [addr |-> addr, flags |-> {}, role |-> "master", config_epoch |-> 0,
   leader |-> None, leader_epoch |-> 0, state |-> "NONE", failover_epoch |-> 0,
   promoted |-> None, slaves |-> Empty, sentinels |-> Empty]

\* sentinelGetCurrentMasterAddress
CurrentAddr(x) ==
  IF "FAILOVER" \in x.flags /\ x.promoted # None
     /\ x.state \in {"RECONF_SLAVES", "UPDATE_CONFIG"}
  THEN x.promoted ELSE x.addr

\* rewriteConfigSentinelOption: the known slaves are written with their own
\* addresses, the promoted one too.
Saved(x) ==
  [addr |-> CurrentAddr(x), config_epoch |-> x.config_epoch,
   leader_epoch |-> x.leader_epoch, epoch |-> x.epoch,
   slaves |-> DOMAIN x.slaves,
   sentinels |-> [t \in DOMAIN x.sentinels |-> x.sentinels[t].runid]]

\* sentinelFlushConfig
FlushConfig(x) == [x EXCEPT !.disk = Saved(x)]

\* A sentinel started with the master m, at an epoch, in its nth life.
Started(m, epoch, run, disk) ==
  [epoch |-> epoch, tilt |-> FALSE, run |-> run, disk |-> disk,
   addr |-> m.addr, flags |-> m.flags, role |-> m.role,
   config_epoch |-> m.config_epoch, leader |-> m.leader,
   leader_epoch |-> m.leader_epoch, state |-> m.state,
   failover_epoch |-> m.failover_epoch, promoted |-> m.promoted,
   slaves |-> m.slaves, sentinels |-> m.sentinels]

\* sentinelHandleConfiguration, on the lines of the file.
Loaded(d, run) ==
  Started([NewMaster(d.addr) EXCEPT
             !.config_epoch = d.config_epoch,
             !.leader_epoch = d.leader_epoch,
             !.slaves = NewSlaves(d.slaves),
             !.sentinels = [t \in DOMAIN d.sentinels |->
                              NewPeer(d.sentinels[t])]],
          IF d.config_epoch > d.epoch THEN d.config_epoch ELSE d.epoch, run, d)

\* server.runid is new in every life.
Runid(s) == <<s, st[s].run>>

Quorum        == scenario.quorum
ParallelSyncs == scenario.parallelSyncs
MaxEpoch      == scenario.maxEpoch

\* The sets of instances a sentinel may have lost: those that have not answered
\* for long enough to be SRI_DISCONNECTED or to have an old INFO.
Gone == SUBSET (IF "slow" \in scenario.faults THEN DOMAIN master ELSE dead)

\* A disturbance, one of the first maxFaults.
Fault(f) ==
  f \in scenario.faults /\ faults < scenario.maxFaults /\ faults' = faults + 1

-----------------------------------------------------------------------------
(* Resetting the state of the master.                                      *)

\* Mutant of ResetMaster: the failover goes on.
ResetMasterOnly(x, sentinels) ==
  [x EXCEPT !.slaves = Empty, !.sentinels = sentinels, !.leader = None,
            !.promoted = None, !.role = "master"]

\* sentinelResetMaster
ResetMaster(x, sentinels) ==
  [x EXCEPT !.slaves = Empty, !.sentinels = sentinels, !.flags = {},
            !.leader = None, !.state = "NONE", !.promoted = None,
            !.role = "master"]

\* sentinelResetMasterAndChangeAddress
ChangeAddress(x, addr) ==
  LET slaves == (DOMAIN x.slaves \cup {x.addr}) \ {addr} IN
  FlushConfig([ResetMaster(x, x.sentinels) EXCEPT
                 !.addr = addr, !.slaves = NewSlaves(slaves)])

\* Mutant of AbortFailover: the slave stays marked.
AbortFailoverMarked(x) ==
  [x EXCEPT !.flags = @ \ {"FAILOVER", "FORCE"}, !.state = "NONE",
            !.promoted = None]

\* sentinelAbortFailover
AbortFailover(x) ==
  [x EXCEPT !.flags = @ \ {"FAILOVER", "FORCE"}, !.state = "NONE",
            !.promoted = None,
            !.slaves = [r \in DOMAIN @ |-> @[r] \ {"PROMOTED"}]]

-----------------------------------------------------------------------------
(* Down states.                                                            *)

\* sentinelCheckSubjectivelyDown: what it may conclude of an instance, ...
Verdicts(r, flags) ==
  {down \in BOOLEAN : IF down THEN r \in dead \/ "slow" \in scenario.faults
                       ELSE r \notin dead \/ "S_DOWN" \notin flags}

\* ... and of a master that reports to be a slave.
MasterVerdicts(x) ==
  Verdicts(x.addr, x.flags) \cup (IF x.role = "slave" THEN {TRUE} ELSE {})

CheckSubjectivelyDown(x, down) ==
  [x EXCEPT !.flags = IF down THEN @ \cup {"S_DOWN"} ELSE @ \ {"S_DOWN"}]

\* sentinelCheckObjectivelyDown
CheckObjectivelyDown(x) ==
  LET agree == Cardinality({t \in DOMAIN x.sentinels : x.sentinels[t].down}) IN
  [x EXCEPT !.flags = IF "S_DOWN" \in @ /\ 1 + agree >= Quorum
                      THEN @ \cup {"O_DOWN"} ELSE @ \ {"O_DOWN"}]

-----------------------------------------------------------------------------
(* Elections.                                                              *)

\* Mutant of VoteLeader: a second vote in the same epoch.
VoteLeaderAgain(x, req_epoch, req_runid) ==
  LET y == IF req_epoch > x.epoch
           THEN FlushConfig([x EXCEPT !.epoch = req_epoch]) ELSE x
  IN IF y.leader_epoch <= req_epoch /\ y.epoch <= req_epoch
     THEN FlushConfig([y EXCEPT !.leader = req_runid, !.leader_epoch = y.epoch])
     ELSE y

\* sentinelVoteLeader: the caller reads the leader and its epoch.
VoteLeader(x, req_epoch, req_runid) ==
  LET y == IF req_epoch > x.epoch
           THEN FlushConfig([x EXCEPT !.epoch = req_epoch]) ELSE x
  IN IF y.leader_epoch < req_epoch /\ y.epoch <= req_epoch
     THEN FlushConfig([y EXCEPT !.leader = req_runid, !.leader_epoch = y.epoch])
     ELSE y

\* The vote cast between two states of s, if any.
Cast(s, x, y) ==
  IF y.leader # None /\ <<y.leader, y.leader_epoch>> # <<x.leader, x.leader_epoch>>
  THEN {[voter |-> s, epoch |-> y.leader_epoch, leader |-> y.leader]} ELSE {}

\* sentinelGetLeader: the votes of the other sentinels, by the epoch this
\* one has now; ...
Votes(x, runid) ==
  Cardinality({t \in DOMAIN x.sentinels :
                 /\ x.sentinels[t].leader = runid
                 /\ x.sentinels[t].leader_epoch = x.epoch})

MostVoted(x) ==
  LET named == {x.sentinels[t].leader : t \in DOMAIN x.sentinels}
      voted == {n \in named \ {None} : Votes(x, n) > 0}
  IN {n \in voted : \A o \in voted : Votes(x, n) >= Votes(x, o)}

\* ... its own vote, for the most voted one or for itself; ...
OwnVotes(s, x) ==
  {VoteLeader(x, x.failover_epoch, n) :
     n \in IF MostVoted(x) = {} THEN {<<s, x.run>>} ELSE MostVoted(x)}

\* Mutant of IsLeader: the majority rounded down.
IsLeaderByHalf(s, x, y) ==
  LET me == <<s, x.run>>
      own == IF y.leader = me /\ y.leader_epoch = x.failover_epoch THEN 1 ELSE 0
      mine == Votes(x, me) + own
      voters == Cardinality(DOMAIN x.sentinels) + 1
  IN mine >= voters \div 2

\* ... and whether this sentinel then has the majority and the quorum, in
\* the state y after its own vote.
IsLeader(s, x, y) ==
  LET me == <<s, x.run>>
      own == IF y.leader = me /\ y.leader_epoch = x.failover_epoch THEN 1 ELSE 0
      mine == Votes(x, me) + own
      voters == Cardinality(DOMAIN x.sentinels) + 1
  IN /\ \A n \in MostVoted(x) : mine >= Votes(x, n)
     /\ mine >= voters \div 2 + 1 /\ mine >= Quorum

\* sentinelStartFailover: the new epoch is not written to the file.
StartFailover(x) ==
  [x EXCEPT !.state = "WAIT_START", !.flags = @ \cup {"FAILOVER"},
            !.epoch = @ + 1, !.failover_epoch = x.epoch + 1]

\* sentinelStartFailoverIfNeeded; "may" tells that the last attempt is older
\* than twice the failover timeout.
StartsFailover(x, may) ==
  may /\ "O_DOWN" \in x.flags /\ "FAILOVER" \notin x.flags /\ x.epoch < MaxEpoch

-----------------------------------------------------------------------------
(* The failover state machine.  Each state maps a sentinel to its possible *)
(* outcomes: its next state and the SLAVEOF commands it sends.             *)

Outcome(x, slaveof) == [x |-> x, slaveof |-> slaveof]
Quiet(X) == {Outcome(x, {}) : x \in X}

\* sentinelFailoverWaitStart
WaitStart(s, x) ==
  Quiet(UNION {IF IsLeader(s, x, y) \/ "FORCE" \in x.flags
               THEN {[y EXCEPT !.state = "SELECT_SLAVE"]}
               ELSE {y, AbortFailover(y)} : y \in OwnVotes(s, x)})

\* sentinelSelectSlave
GoodSlaves(x, gone) ==
  {r \in DOMAIN x.slaves \ gone : "S_DOWN" \notin x.slaves[r] /\ Rank[r] # 0}
BestSlaves(x, gone) ==
  {r \in GoodSlaves(x, gone) : \A q \in GoodSlaves(x, gone) : Rank[r] <= Rank[q]}

\* sentinelFailoverSelectSlave
SelectSlave(x, gone) ==
  Quiet(IF GoodSlaves(x, gone) = {} THEN {AbortFailover(x)}
        ELSE {[x EXCEPT !.slaves[r] = @ \cup {"PROMOTED"}, !.promoted = r,
                        !.state = "SEND_SLAVEOF_NOONE"] : r \in BestSlaves(x, gone)})

\* sentinelFailoverSendSlaveOfNoOne
SendSlaveOfNoOne(x, gone) ==
  IF x.promoted \in gone THEN Quiet({x, AbortFailover(x)})
  ELSE {Outcome([x EXCEPT !.state = "WAIT_PROMOTION"], {<<x.promoted, None>>})}

\* sentinelFailoverWaitPromotion
WaitPromotion(x) == Quiet({x, AbortFailover(x)})

\* sentinelFailoverDetectEnd: the best effort SLAVEOF of a failover that
\* ends by timeout.
DetectEnd(x, timeout, gone) ==
  LET waiting == {r \in DOMAIN x.slaves :
                    x.slaves[r] \cap {"PROMOTED", "DONE", "S_DOWN"} = {}}
      rest == {r \in DOMAIN x.slaves \ gone :
                 x.slaves[r] \cap {"DONE", "SENT"} = {}}
  IN IF x.promoted = None \/ "S_DOWN" \in x.slaves[x.promoted]
     THEN Outcome(x, {})
     ELSE IF timeout
     THEN Outcome([x EXCEPT !.state = "UPDATE_CONFIG",
                            !.slaves = [r \in DOMAIN @ |->
                               IF r \in rest THEN @[r] \cup {"SENT"} ELSE @[r]]],
                  {<<r, x.promoted>> : r \in rest})
     ELSE Outcome([x EXCEPT !.state = IF waiting = {} THEN "UPDATE_CONFIG" ELSE @],
                  {})

\* sentinelFailoverReconfNextSlave, in some order of the slaves, until as many
\* as parallel-syncs are being reconfigured: S are the next ones, L those whose
\* time is over.  These are done, and are sent the command a second time, which
\* counts and marks them as sent again.
ReconfNextSlave(x, gone) ==
  LET busy == {r \in DOMAIN x.slaves : x.slaves[r] \cap {"SENT", "INPROG"} # {}}
      room == ParallelSyncs - Cardinality(busy)
      late == {r \in busy : /\ "SENT" \in x.slaves[r]
                            /\ x.slaves[r] \cap {"PROMOTED", "DONE"} = {}}
      next == {r \in DOMAIN x.slaves \ gone :
                 x.slaves[r] \cap {"PROMOTED", "DONE", "SENT", "INPROG"} = {}}
      full(S, L) == Cardinality(S) + Cardinality(L \ gone)
      visited == {v \in (SUBSET next) \X (SUBSET late) :
                    \/ full(v[1], v[2]) = room
                    \/ v[1] = next /\ full(v[1], v[2]) < room}
      sent(S, L) == {<<r, x.promoted>> : r \in S \cup (L \ gone)}
      after(S, L) ==
        [x EXCEPT !.slaves = [r \in DOMAIN @ |->
           (IF r \in L THEN (@[r] \ {"SENT"}) \cup {"DONE"} ELSE @[r])
             \cup (IF r \in S \cup (L \ gone) THEN {"SENT"} ELSE {})]]
  IN IF room <= 0 THEN {DetectEnd(x, t, gone) : t \in BOOLEAN}
     ELSE {LET d == DetectEnd(after(v[1], v[2]), t, gone)
           IN Outcome(d.x, d.slaveof \cup sent(v[1], v[2])) :
             v \in visited, t \in BOOLEAN}

\* sentinelFailoverStateMachine
StateMachine(s, x) ==
  IF "FAILOVER" \notin x.flags THEN Quiet({x}) ELSE
  CASE x.state = "WAIT_START"         -> WaitStart(s, x)
    [] x.state = "SELECT_SLAVE"       -> UNION {SelectSlave(x, gone) : gone \in Gone}
    [] x.state = "SEND_SLAVEOF_NOONE" -> UNION {SendSlaveOfNoOne(x, gone) : gone \in Gone}
    [] x.state = "WAIT_PROMOTION"     -> WaitPromotion(x)
    [] x.state = "RECONF_SLAVES"      -> UNION {ReconfNextSlave(x, gone) : gone \in Gone}
    [] OTHER                          -> Quiet({x})

\* sentinelSendSlaveOf: of the commands sent, some arrive at a living instance.
SlaveofArrive(sent) ==
  \E arrived \in SUBSET {c \in sent : c[1] \notin dead} :
    master' = [r \in DOMAIN master |-> IF \E c \in arrived : c[1] = r
                               THEN (CHOOSE c \in arrived : c[1] = r)[2]
                               ELSE master[r]]

-----------------------------------------------------------------------------
(* sentinelTimer.                                                          *)

\* sentinelHandleRedisInstance on the master, and the switch that
\* sentinelHandleDictOfRedisInstances does after a failover.  It is the timer
\* that leaves TILT; until then it does not act.
HandleMaster(s) ==
  \E down \in MasterVerdicts(st[s]), may \in BOOLEAN :
    LET x == CheckObjectivelyDown(
               CheckSubjectivelyDown([st[s] EXCEPT !.tilt = FALSE], down))
        y == IF StartsFailover(x, may) THEN StartFailover(x) ELSE x
    IN \E o \in StateMachine(s, y) :
       /\ st' = [st EXCEPT ![s] = IF o.x.state = "UPDATE_CONFIG"
                                  THEN ChangeAddress(o.x, o.x.promoted) ELSE o.x]
       /\ SlaveofArrive(o.slaveof)
       /\ votes' = votes \cup Cast(s, y, o.x)
       /\ elected' = IF /\ y.state = "WAIT_START" /\ o.x.state = "SELECT_SLAVE"
                        /\ IsLeader(s, y, o.x)
            THEN elected \cup {[epoch |-> y.failover_epoch, now |-> y.epoch,
                                leader |-> <<s, y.run>>]} ELSE elected
       /\ UNCHANGED <<scenario, dead, net, faults>>

\* sentinelHandleRedisInstance on a slave.
HandleSlave(s, r) ==
  /\ ~st[s].tilt /\ r \in DOMAIN st[s].slaves
  /\ \E down \in Verdicts(r, st[s].slaves[r]) :
       st' = [st EXCEPT ![s].slaves[r] =
                IF down THEN @ \cup {"S_DOWN"} ELSE @ \ {"S_DOWN"}]
  /\ UNCHANGED <<scenario, master, dead, net, faults, votes, elected>>

-----------------------------------------------------------------------------
(* Questions and answers.                                                  *)

\* sentinelReceiveIsMasterDownReply
ReceiveReply(x, a) ==
  IF a.from \notin DOMAIN x.sentinels THEN x
  ELSE [x EXCEPT !.sentinels[a.from] =
          IF a.leader = None THEN [@ EXCEPT !.down = a.down]
          ELSE [@ EXCEPT !.down = a.down, !.leader = a.leader,
                         !.leader_epoch = a.leader_epoch]]

\* "SENTINEL is-master-down-by-addr" (sentinelCommand): t, in state y before
\* and z after its vote, answers s about the master at addr.
IsMasterDown(s, t, addr, vote, y, z) ==
  [from |-> t, to |-> s,
   down |-> y.addr = addr /\ ~y.tilt /\ "S_DOWN" \in y.flags,
   leader |-> IF vote THEN z.leader ELSE None,
   leader_epoch |-> IF vote THEN z.leader_epoch ELSE 0]

\* sentinelAskMasterStateToOtherSentinels asks t, with a request for its vote
\* during a failover.  The answer comes at once, later, or never.
AskMasterState(s, t) ==
  LET x == st[s]
      y == st[t]
      vote == y.addr = x.addr /\ x.state # "NONE"
      z == IF vote THEN VoteLeader(y, x.epoch, Runid(s)) ELSE y
      a == IsMasterDown(s, t, x.addr, vote, y, z)
  IN /\ "S_DOWN" \in x.flags /\ ~x.tilt /\ t \in DOMAIN x.sentinels
     /\ \/ /\ st' = [st EXCEPT ![t] = z, ![s] = ReceiveReply(x, a)]
           /\ UNCHANGED <<net, faults>>
        \/ /\ Fault("late") /\ net' = net \cup {a}
           /\ st' = [st EXCEPT ![t] = z]
        \/ /\ Fault("loss") /\ st' = [st EXCEPT ![t] = z] /\ UNCHANGED net
     /\ votes' = votes \cup Cast(t, y, z)
     /\ UNCHANGED <<scenario, master, dead, elected>>

\* An answer that was late.
ReceiveLateReply(a) ==
  /\ net' = net \ {a}
  /\ st' = [st EXCEPT ![a.to] = ReceiveReply(@, a)]
  /\ UNCHANGED <<scenario, master, dead, faults, votes, elected>>

-----------------------------------------------------------------------------
(* Hello messages.                                                         *)

\* Mutants of ProcessHello: the address is kept; the configuration is ignored.
ProcessHelloSameAddress(x, t, hello) ==
  [x EXCEPT !.config_epoch = IF @ < hello.config_epoch
                             THEN hello.config_epoch ELSE @]
ProcessHelloEpochOnly(x, t, hello) ==
  IF hello.epoch > x.epoch
  THEN FlushConfig([x EXCEPT !.epoch = hello.epoch]) ELSE x

\* sentinelProcessHelloMessage: the sender is known by its address and run
\* id, the epochs only grow, a newer configuration replaces the own one.
ProcessHello(x, t, hello) ==
  LET a == IF t \in DOMAIN x.sentinels /\ x.sentinels[t].runid = hello.runid
           THEN x
           ELSE FlushConfig([x EXCEPT !.sentinels =
                  [u \in DOMAIN @ \cup {t} |->
                     IF u = t THEN NewPeer(hello.runid) ELSE @[u]]])
      b == IF hello.epoch > a.epoch
           THEN FlushConfig([a EXCEPT !.epoch = hello.epoch]) ELSE a
      c == [b EXCEPT !.config_epoch = hello.config_epoch]
  IN IF b.config_epoch >= hello.config_epoch THEN b
     ELSE IF hello.addr # b.addr THEN ChangeAddress(c, hello.addr) ELSE c

\* sentinelSendHello: what a sentinel announces.
Hello(s) ==
  [runid |-> Runid(s), epoch |-> st[s].epoch, addr |-> CurrentAddr(st[s]),
   config_epoch |-> st[s].config_epoch]

\* sentinelReconnectInstance: the instances a sentinel has its links to.
Linked(x) == (DOMAIN x.slaves \cup {x.addr}) \ dead

\* sentinelReceiveHelloMessages, through an instance both sentinels monitor,
\* or sentinelPublishCommand, from one sentinel to another.
SendHello(s, t) ==
  /\ s # t
  /\ \/ Linked(st[s]) \cap Linked(st[t]) # {}
     \/ t \in DOMAIN st[s].sentinels
  /\ st' = [st EXCEPT ![t] = ProcessHello(@, s, Hello(s))]
  /\ UNCHANGED <<scenario, master, dead, net, faults, votes, elected>>

-----------------------------------------------------------------------------
(* The replies to INFO: sentinelRefreshInstanceInfo.                       *)

\* From the master: its role, and the slaves it lists.
InfoFromMaster(s) ==
  LET x == st[s]
      listed == {r \in DOMAIN master \ dead : master[r] = x.addr}
  IN /\ x.addr \notin dead
     /\ st' = [st EXCEPT
          ![s].role = IF master[x.addr] = None THEN "master" ELSE "slave",
          ![s].slaves = [r \in DOMAIN @ \cup listed |->
                           IF r \in DOMAIN @ THEN @[r] ELSE {}]]
     /\ UNCHANGED <<scenario, master, dead, net, faults, votes, elected>>

\* sentinelMasterLooksSane, but for the age of the last INFO: when it is too
\* old no SLAVEOF is sent, like one that does not arrive.
MasterLooksSane(x) ==
  x.role = "master" /\ x.flags \cap {"S_DOWN", "O_DOWN"} = {}

\* A slave that reports to be a master: the promoted one, which ends the
\* wait for the promotion, or one to be turned into a slave again.
Promoted(x, r) ==
  "PROMOTED" \in x.slaves[r] /\ "FAILOVER" \in x.flags /\ x.state = "WAIT_PROMOTION"
InfoFromMasterSlave(s, r) ==
  LET x == st[s] IN
  /\ r \in DOMAIN x.slaves \ dead /\ ~x.tilt /\ master[r] = None
  /\ IF Promoted(x, r)
     THEN /\ st' = [st EXCEPT ![s] = FlushConfig([x EXCEPT
                      !.config_epoch = x.failover_epoch,
                      !.state = "RECONF_SLAVES"])]
          /\ UNCHANGED master
     ELSE /\ "PROMOTED" \notin x.slaves[r] /\ MasterLooksSane(x)
          /\ "S_DOWN" \notin x.slaves[r]
          /\ SlaveofArrive({<<r, x.addr>>})
          /\ UNCHANGED st
  /\ UNCHANGED <<scenario, dead, net, faults, votes, elected>>

\* A slave that reports to be one: moved to the current master if it has
\* another one, and followed through its reconfiguration.
InfoFromSlave(s, r) ==
  LET x == st[s]
      f == x.slaves[r]
      g == IF "SENT" \in f /\ master[r] = x.promoted
           THEN (f \ {"SENT"}) \cup {"INPROG"} ELSE f
  IN /\ r \in DOMAIN x.slaves \ dead /\ ~x.tilt /\ master[r] # None
     /\ SlaveofArrive(IF /\ master[r] # x.addr /\ MasterLooksSane(x)
                         /\ "S_DOWN" \notin f
                      THEN {<<r, x.addr>>} ELSE {})
     /\ \E h \in {g} \cup (IF "INPROG" \in g
                           THEN {(g \ {"INPROG"}) \cup {"DONE"}} ELSE {}) :
          st' = [st EXCEPT ![s].slaves[r] = h]
     /\ UNCHANGED <<scenario, dead, net, faults, votes, elected>>

-----------------------------------------------------------------------------
(* Commands and disturbances.                                              *)

\* SENTINEL RESET: the sentinels are forgotten, the epochs are not.
Reset(s) ==
  /\ Fault("reset")
  /\ st' = [st EXCEPT ![s] = ResetMaster(@, Empty)]
  /\ UNCHANGED <<scenario, master, dead, net, votes, elected>>

\* SENTINEL FAILOVER
ForceFailover(s) ==
  /\ Fault("failover")
  /\ "FAILOVER" \notin st[s].flags /\ (\E gone \in Gone : GoodSlaves(st[s], gone) # {})
  /\ st[s].epoch < MaxEpoch
  /\ LET x == StartFailover(st[s])
     IN st' = [st EXCEPT ![s] = [x EXCEPT !.flags = @ \cup {"FORCE"}]]
  /\ UNCHANGED <<scenario, master, dead, net, votes, elected>>

\* SENTINEL REMOVE and SENTINEL MONITOR: the epochs of the master are lost.
Remonitor(s) ==
  /\ Fault("monitor")
  /\ st' = [st EXCEPT ![s] =
              FlushConfig(Started(NewMaster(@.addr), @.epoch, @.run, @.disk))]
  /\ UNCHANGED <<scenario, master, dead, net, votes, elected>>

\* sentinelCheckTiltCondition
Tilt(s) ==
  /\ Fault("tilt") /\ ~st[s].tilt
  /\ st' = [st EXCEPT ![s].tilt = TRUE]
  /\ UNCHANGED <<scenario, master, dead, net, votes, elected>>

\* A sentinel is started again from its file; its connections are lost.
Restart(s) ==
  /\ Fault("restart")
  /\ st' = [st EXCEPT ![s] = Loaded(@.disk, @.run + 1)]
  /\ net' = {a \in net : s \notin {a.from, a.to}}
  /\ UNCHANGED <<scenario, master, dead, votes, elected>>

\* The answer of t is older than five periods and is forgotten
\* (sentinelAskMasterStateToOtherSentinels).
Forget(s, t) ==
  /\ Fault("silence") /\ t \in DOMAIN st[s].sentinels
  /\ st' = [st EXCEPT ![s].sentinels[t] =
              [@ EXCEPT !.down = FALSE, !.leader = None]]
  /\ UNCHANGED <<scenario, master, dead, net, votes, elected>>

\* A Redis instance stops and comes back, with the role it had.
Die(r) ==
  /\ Fault("die") /\ r \notin dead /\ dead' = dead \cup {r}
  /\ UNCHANGED <<scenario, st, master, net, votes, elected>>
Revive(r) ==
  /\ r \in dead /\ "revive" \in scenario.faults /\ dead' = dead \ {r}
  /\ UNCHANGED <<scenario, st, master, net, faults, votes, elected>>

-----------------------------------------------------------------------------
Init ==
  /\ scenario \in Scenarios
  /\ LET others == scenario.sentinels
         slaves == scenario.slaves
         m(s) == [NewMaster(First) EXCEPT
                    !.slaves = NewSlaves(IF scenario.known THEN slaves ELSE {}),
                    !.sentinels = [t \in IF scenario.known THEN others \ {s} ELSE {}
                                     |-> NewPeer(<<t, 0>>)]]
     IN /\ st = [s \in others |-> FlushConfig(Started(m(s), 0, 0, None))]
        /\ master = [r \in slaves \cup {First} |-> IF r = First THEN None ELSE First]
  /\ dead = (IF "die" \in scenario.faults THEN {} ELSE {First})
  /\ net = {} /\ faults = 0 /\ votes = {} /\ elected = {}

Next ==
  \/ \E s \in DOMAIN st :
       \/ HandleMaster(s) \/ InfoFromMaster(s)
       \/ Reset(s) \/ ForceFailover(s) \/ Remonitor(s) \/ Tilt(s) \/ Restart(s)
       \/ \E r \in DOMAIN master : \/ HandleSlave(s, r) \/ InfoFromMasterSlave(s, r)
                                   \/ InfoFromSlave(s, r)
       \/ \E t \in DOMAIN st : SendHello(s, t) \/ AskMasterState(s, t) \/ Forget(s, t)
  \/ \E a \in net : ReceiveLateReply(a)
  \/ \E r \in DOMAIN master : Die(r) \/ Revive(r)

Spec == Init /\ [][Next]_vars

\* Hellos are sent for ever (sentinelSendPeriodicCommands).
SomeSentinels == UNION {c.sentinels : c \in Scenarios}
FairSpec ==
  /\ Spec
  /\ \A s \in SomeSentinels :
       WF_vars(s \in DOMAIN st /\ \E t \in DOMAIN st : SendHello(s, t))

-----------------------------------------------------------------------------
(* Properties.                                                             *)

\* Every variable holds a value of its kind.
TypeOK ==
  /\ \A s \in DOMAIN st :
       /\ st[s].state \in FailoverStates \ {"UPDATE_CONFIG"}
       /\ st[s].flags \subseteq MasterFlags
       /\ st[s].epoch \in 0..MaxEpoch /\ st[s].failover_epoch \in 0..st[s].epoch
       /\ st[s].leader_epoch \in 0..st[s].epoch
       /\ DOMAIN st[s].slaves \subseteq Redis
       /\ DOMAIN st[s].sentinels \subseteq Sentinels \ {s}
  /\ \A r \in DOMAIN master : master[r] \in Redis \cup {None}
  /\ dead \subseteq DOMAIN master /\ faults \in 0..scenario.maxFaults

\* sentinelVoteLeader: in one epoch a sentinel votes for one run id only,
\* whatever it forgets, however often it is reset or restarted.
VoteOnce ==
  \A v, w \in votes :
    v.voter = w.voter /\ v.epoch = w.epoch => v.leader = w.leader

\* sentinelGetLeader: of the sentinels elected before they learned of a newer
\* epoch no two are elected for the same one.
OneLeaderPerEpoch ==
  \A e, f \in elected :
    e.epoch = f.epoch /\ e.now = e.epoch /\ f.now = f.epoch => e.leader = f.leader

\* The promoted slave is one of the slaves, it alone is marked, and it is
\* there in every state whose handler follows the pointer, and while a slave
\* is being reconfigured (sentinelRefreshInstanceInfo follows it too).
PromotedIsValid ==
  \A s \in DOMAIN st :
    LET x == st[s]
        marked == {r \in DOMAIN x.slaves : "PROMOTED" \in x.slaves[r]}
    IN /\ marked = {x.promoted} \ {None}
       /\ x.state \in {"SEND_SLAVEOF_NOONE", "WAIT_PROMOTION", "RECONF_SLAVES"}
            => x.promoted # None
       /\ (\E r \in DOMAIN x.slaves : x.slaves[r] \cap {"SENT", "INPROG"} # {})
            => x.state = "RECONF_SLAVES"
       /\ x.state # "NONE" <=> "FAILOVER" \in x.flags

\* sentinelGetCurrentMasterAddress: two sentinels with the configuration of
\* the same epoch name the same master.
ConfigEpochsAgree ==
  \A s, t \in DOMAIN st :
    st[s].config_epoch = st[t].config_epoch =>
      CurrentAddr(st[s]) = CurrentAddr(st[t])

\* sentinelProcessHelloMessage: the newest configuration reaches every
\* sentinel.
ConfigSpreads ==
  <>[](\A s, t \in DOMAIN st : /\ st[s].config_epoch = st[t].config_epoch
                               /\ CurrentAddr(st[s]) = CurrentAddr(st[t]))
=============================================================================
