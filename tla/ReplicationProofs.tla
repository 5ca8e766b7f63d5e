------------------------- MODULE ReplicationProofs -------------------------
(***************************************************************************)
(* The safety of module Replication, for any topology, any faults and any  *)
(* bounds.  The invariants are in layers, each one resting on those before *)
(* it: Type; Connections, who is connected with whom and the order of the  *)
(* lines in flight; Offsets, the position of a slave and its master's.     *)
(***************************************************************************)
EXTENDS Replication, SequenceTheorems, TLAPS

----------------------------------------------------------------------------
(* The types, and the records with one field changed.                      *)

Requests == [name : {"SYNC", "PSYNC"}, run : Runs, off : Int]
States   == {"NONE", "WAIT_BGSAVE_START", "WAIT_BGSAVE_END", "SEND_BULK", "ONLINE"}
Conns    == [to : Servers \cup {None}, up : BOOLEAN, cmds : Seq(Requests), in : Seq(Lines),
             replstate : States, obuf : Seq(Writes), snap : Seq(Writes)]
Positions == [run : Runs, off : Int, pre : BOOLEAN]

Attached(c) == c.replstate # "NONE"
Fed(c)      == c.replstate \in {"WAIT_BGSAVE_END", "SEND_BULK"}
Online(c)   == c.replstate = "ONLINE"

LEMMA SetupTypes ==
  ASSUME setup \in Setups
  PROVE  /\ None \notin Servers /\ InitialMaster \in [Servers -> Servers \cup {None}]
         /\ BacklogSize \in Nat \ {0} /\ MaxWrites \in Nat /\ MaxFaults \in Nat
         /\ SlaveofCommands \subseteq Servers \X (Servers \cup {None}) /\ OverlapBgsave \in BOOLEAN
BY ConstantsAssumption DEF Servers, InitialMaster, BacklogSize, MaxWrites, MaxFaults, SlaveofCommands, OverlapBgsave

LEMMA SameSetup ==
  ASSUME setup' = setup
  PROVE  /\ Servers' = Servers /\ Writes' = Writes /\ Runs' = Runs /\ Lines' = Lines /\ Conns' = Conns
         /\ Positions' = Positions /\ BacklogSize' = BacklogSize /\ OverlapBgsave' = OverlapBgsave
         /\ MaxWrites' = MaxWrites /\ MaxFaults' = MaxFaults /\ InitialMaster' = InitialMaster
BY DEF Servers, Writes, Runs, Lines, Conns, Positions, Requests, States, BacklogSize, OverlapBgsave, MaxWrites,
       MaxFaults, InitialMaster

----------------------------------------------------------------------------
(* One field of a connection changes.                                      *)

LEMMA SetCmds ==
  ASSUME NEW c \in Conns, NEW v \in Seq(Requests)
  PROVE  LET d == [c EXCEPT !.cmds = v]
         IN  d \in Conns /\ d.to = c.to /\ d.up = c.up /\ d.cmds = v /\ d.in = c.in
             /\ d.replstate = c.replstate /\ d.obuf = c.obuf /\ d.snap = c.snap
BY DEF Conns

LEMMA SetIn ==
  ASSUME NEW c \in Conns, NEW v \in Seq(Lines)
  PROVE  LET d == [c EXCEPT !.in = v]
         IN  d \in Conns /\ d.to = c.to /\ d.up = c.up /\ d.cmds = c.cmds /\ d.in = v
             /\ d.replstate = c.replstate /\ d.obuf = c.obuf /\ d.snap = c.snap
BY DEF Conns

LEMMA SetUp ==
  ASSUME NEW c \in Conns, NEW v \in BOOLEAN
  PROVE  LET d == [c EXCEPT !.up = v]
         IN  d \in Conns /\ d.to = c.to /\ d.up = v /\ d.cmds = c.cmds /\ d.in = c.in
             /\ d.replstate = c.replstate /\ d.obuf = c.obuf /\ d.snap = c.snap
BY DEF Conns

LEMMA SetReplstate ==
  ASSUME NEW c \in Conns, NEW v \in States
  PROVE  LET d == [c EXCEPT !.replstate = v]
         IN  d \in Conns /\ d.to = c.to /\ d.up = c.up /\ d.cmds = c.cmds /\ d.in = c.in
             /\ d.replstate = v /\ d.obuf = c.obuf /\ d.snap = c.snap
BY DEF Conns

LEMMA SetObuf ==
  ASSUME NEW c \in Conns, NEW v \in Seq(Writes)
  PROVE  LET d == [c EXCEPT !.obuf = v]
         IN  d \in Conns /\ d.to = c.to /\ d.up = c.up /\ d.cmds = c.cmds /\ d.in = c.in
             /\ d.replstate = c.replstate /\ d.obuf = v /\ d.snap = c.snap
BY DEF Conns

LEMMA SetSnap ==
  ASSUME NEW c \in Conns, NEW v \in Seq(Writes)
  PROVE  LET d == [c EXCEPT !.snap = v]
         IN  d \in Conns /\ d.to = c.to /\ d.up = c.up /\ d.cmds = c.cmds /\ d.in = c.in
             /\ d.replstate = c.replstate /\ d.obuf = c.obuf /\ d.snap = v
BY DEF Conns

LEMMA NoConnType ==
  /\ NoConn \in Conns /\ NoConn.to = None /\ NoConn.cmds = <<>> /\ NoConn.in = <<>>
  /\ NoConn.replstate = "NONE" /\ NoConn.up = FALSE
BY DEF NoConn, Conns, States

\* The lines a master sends.
LEMMA LineTypes ==
  ASSUME setup \in Setups
  PROVE  /\ \A t \in {"CONTINUE", "ERR"} : Line(t) \in Lines /\ Line(t).t = t
         /\ \A r \in Runs, o \in Int : FullLine(r, o) \in Lines /\ FullLine(r, o).t = "FULLRESYNC"
                                       /\ FullLine(r, o).run = r /\ FullLine(r, o).off = o
         /\ \A d \in Seq(Writes) : Bulk(d) \in Lines /\ Bulk(d).t = "bulk" /\ Bulk(d).data = d
         /\ \A w \in Writes : Unit(w) \in Lines /\ Unit(w).t = "unit" /\ Unit(w).off = w
<1>0. NoRun \in Runs /\ <<>> \in Seq(Writes) /\ Writes \subseteq Int
  BY DEF Runs, Writes
<1>1. \A t \in {"FULLRESYNC", "CONTINUE", "ERR", "bulk", "unit"} : Line(t) \in Lines /\ Line(t).t = t
  BY <1>0 DEF Line, Lines
<1>2. \A d \in Seq(Writes) : Bulk(d) \in Lines /\ Bulk(d).t = "bulk" /\ Bulk(d).data = d
  BY <1>0 DEF Line, Lines, Bulk
<1>3. \A w \in Writes : Unit(w) \in Lines /\ Unit(w).t = "unit" /\ Unit(w).off = w
  BY <1>0 DEF Line, Lines, Unit
<1>4. ASSUME NEW r \in Runs, NEW o \in Int
      PROVE  FullLine(r, o) \in Lines /\ FullLine(r, o).t = "FULLRESYNC"
             /\ FullLine(r, o).run = r /\ FullLine(r, o).off = o
  <2> DEFINE l == Line("FULLRESYNC")
             a == [l EXCEPT !.run = r]
             b == [a EXCEPT !.off = o]
  <2>0. l \in Lines /\ l.t = "FULLRESYNC"
    BY <1>1
  <2>2. FullLine(r, o) = b
    BY DEF FullLine
  <2> HIDE DEF l
  <2>1. a \in Lines /\ a.t = "FULLRESYNC" /\ a.run = r
    BY <2>0 DEF Lines
  <2> HIDE DEF a
  <2>3. b \in Lines /\ b.t = "FULLRESYNC" /\ b.run = r /\ b.off = o
    BY <2>1 DEF Lines
  <2> QED BY <2>2, <2>3
<1> QED BY <1>1, <1>2, <1>3, <1>4

\* replicationFeedSlaves, connection by connection.
LEMMA FedFields ==
  ASSUME setup \in Setups, NEW cn \in [Servers -> Conns], NEW m \in Servers, NEW w \in Writes
  PROVE  /\ FedConns(cn, m, w) \in [Servers -> Conns]
         /\ \A x \in Servers :
              LET c == cn[x]  d == FedConns(cn, m, w)[x]
              IN  /\ d.to = c.to /\ d.up = c.up /\ d.cmds = c.cmds /\ d.replstate = c.replstate /\ d.snap = c.snap
                  /\ d.obuf = IF c.to = m /\ Fed(c) THEN Append(c.obuf, w) ELSE c.obuf
                  /\ d.in = IF c.to = m /\ Online(c) THEN Append(c.in, Unit(w)) ELSE c.in
<1> DEFINE f == FedConns(cn, m, w)
<1>1. ASSUME NEW x \in Servers
      PROVE  LET c == cn[x]  d == f[x]
             IN  /\ d \in Conns
                 /\ d.to = c.to /\ d.up = c.up /\ d.cmds = c.cmds /\ d.replstate = c.replstate /\ d.snap = c.snap
                 /\ d.obuf = IF c.to = m /\ Fed(c) THEN Append(c.obuf, w) ELSE c.obuf
                 /\ d.in = IF c.to = m /\ Online(c) THEN Append(c.in, Unit(w)) ELSE c.in
  <2> DEFINE c == cn[x]
  <2>0. /\ c \in Conns /\ Append(c.obuf, w) \in Seq(Writes) /\ Append(c.in, Unit(w)) \in Seq(Lines)
    <3>1. c.obuf \in Seq(Writes) /\ c.in \in Seq(Lines)
      BY DEF Conns
    <3> QED BY <3>1, LineTypes
  <2>1. CASE c.to = m /\ c.replstate \in {"WAIT_BGSAVE_END", "SEND_BULK"}
    <3> DEFINE d == [c EXCEPT !.obuf = Append(c.obuf, w)]
    <3>1. f[x] = d
      BY <2>1 DEF FedConns
    <3> HIDE DEF f, c
    <3>2. /\ d \in Conns /\ d.to = c.to /\ d.up = c.up /\ d.cmds = c.cmds /\ d.in = c.in
          /\ d.replstate = c.replstate /\ d.obuf = Append(c.obuf, w) /\ d.snap = c.snap
      BY <2>0, SetObuf
    <3>3. Fed(c) /\ ~Online(c)
      BY <2>1 DEF Fed, Online
    <3> HIDE DEF d
    <3> QED BY <2>1, <3>1, <3>2, <3>3 DEF c
  <2>2. CASE c.to = m /\ c.replstate = "ONLINE"
    <3> DEFINE d == [c EXCEPT !.in = Append(c.in, Unit(w))]
    <3>1. f[x] = d
      BY <2>2 DEF FedConns
    <3> HIDE DEF f, c
    <3>2. /\ d \in Conns /\ d.to = c.to /\ d.up = c.up /\ d.cmds = c.cmds /\ d.in = Append(c.in, Unit(w))
          /\ d.replstate = c.replstate /\ d.obuf = c.obuf /\ d.snap = c.snap
      BY <2>0, SetIn
    <3>3. ~Fed(c) /\ Online(c)
      BY <2>2 DEF Fed, Online
    <3> HIDE DEF d
    <3> QED BY <2>2, <3>1, <3>2, <3>3 DEF c
  <2>3. CASE ~(c.to = m /\ c.replstate \in {"WAIT_BGSAVE_END", "SEND_BULK", "ONLINE"})
    <3>1. f[x] = c
      BY <2>3 DEF FedConns
    <3> HIDE DEF f
    <3> QED BY <2>0, <2>3, <3>1 DEF Fed, Online
  <2> QED BY <2>1, <2>2, <2>3
<1>2. DOMAIN f = Servers /\ f = [x \in Servers |-> f[x]]
  BY DEF FedConns
<1> HIDE DEF f
<1>3. f \in [Servers -> Conns]
  BY <1>1, <1>2
<1> QED BY <1>1, <1>3 DEF f

\* freeClient, at the master's end, of the slaves in S.
LEMMA ClosedFields ==
  ASSUME NEW cn \in [Servers -> Conns], NEW S
  PROVE  /\ ClosedByMaster(cn, S) \in [Servers -> Conns]
         /\ \A x \in Servers :
              LET c == cn[x]  d == ClosedByMaster(cn, S)[x]
              IN  /\ x \in S => d.to = c.to /\ d.up = FALSE /\ d.cmds = <<>> /\ d.replstate = "NONE" /\ d.in = c.in
                  /\ x \notin S => d = c
<1> DEFINE f == ClosedByMaster(cn, S)
<1>1. ASSUME NEW x \in Servers
      PROVE  LET c == cn[x]  d == f[x]
             IN  /\ d \in Conns
                 /\ x \in S => d.to = c.to /\ d.up = FALSE /\ d.cmds = <<>> /\ d.replstate = "NONE" /\ d.in = c.in
                 /\ x \notin S => d = c
  <2> DEFINE c == cn[x]
             d1 == [c EXCEPT !.up = FALSE]
             d2 == [d1 EXCEPT !.cmds = <<>>]
             d3 == [d2 EXCEPT !.replstate = "NONE"]
             d4 == [d3 EXCEPT !.obuf = <<>>]
             d5 == [d4 EXCEPT !.snap = <<>>]
  <2>0. c \in Conns /\ <<>> \in Seq(Writes) /\ <<>> \in Seq(Requests) /\ "NONE" \in States
    BY DEF States
  <2>1. CASE x \notin S
    BY <2>0, <2>1 DEF ClosedByMaster
  <2>2. CASE x \in S
    <3>1. f[x] = d5
      BY <2>2 DEF ClosedByMaster
    <3> HIDE DEF f, c
    <3>2. d1 \in Conns /\ d1.to = c.to /\ d1.up = FALSE /\ d1.in = c.in
      BY <2>0, SetUp
    <3> HIDE DEF d1
    <3>3. d2 \in Conns /\ d2.to = c.to /\ d2.up = FALSE /\ d2.in = c.in /\ d2.cmds = <<>>
      BY <2>0, <3>2, SetCmds
    <3> HIDE DEF d2
    <3>4. /\ d3 \in Conns /\ d3.to = c.to /\ d3.up = FALSE /\ d3.in = c.in /\ d3.cmds = <<>>
          /\ d3.replstate = "NONE"
      BY <2>0, <3>3, SetReplstate
    <3> HIDE DEF d3
    <3>5. /\ d4 \in Conns /\ d4.to = c.to /\ d4.up = FALSE /\ d4.in = c.in /\ d4.cmds = <<>>
          /\ d4.replstate = "NONE"
      BY <2>0, <3>4, SetObuf
    <3> HIDE DEF d4
    <3>6. /\ d5 \in Conns /\ d5.to = c.to /\ d5.up = FALSE /\ d5.in = c.in /\ d5.cmds = <<>>
          /\ d5.replstate = "NONE"
      BY <2>0, <3>5, SetSnap
    <3> HIDE DEF d5
    <3> QED BY <2>2, <3>1, <3>6 DEF c
  <2> QED BY <2>1, <2>2
<1>2. DOMAIN f = Servers /\ f = [x \in Servers |-> f[x]]
  BY DEF ClosedByMaster
<1> HIDE DEF f
<1>3. f \in [Servers -> Conns]
  BY <1>1, <1>2
<1> QED BY <1>1, <1>3 DEF f

\* updateSlavesWaitingBgsave makes d of the connection c.
BgsaveEnded(m, c, ok, file, d) ==
  /\ d \in Conns /\ d.to = c.to /\ d.cmds = c.cmds /\ d.in = c.in
  /\ c.to # m \/ c.replstate \in {"NONE", "SEND_BULK", "ONLINE"} => d = c
  /\ c.to = m /\ c.replstate = "WAIT_BGSAVE_START"
       => d.replstate = "WAIT_BGSAVE_END" /\ d.up = c.up /\ d.obuf = c.obuf
  /\ c.to = m /\ c.replstate = "WAIT_BGSAVE_END" /\ ok
       => d.replstate = "SEND_BULK" /\ d.up = c.up /\ d.obuf = c.obuf /\ d.snap = file
  /\ c.to = m /\ c.replstate = "WAIT_BGSAVE_END" /\ ~ok
       => d.replstate = "NONE" /\ d.up = FALSE

LEMMA AfterBgsaveFields ==
  ASSUME NEW m \in Servers, NEW c \in Conns, NEW ok \in BOOLEAN, NEW file \in Seq(Writes)
  PROVE  BgsaveEnded(m, c, ok, file, AfterBgsave(m, c, ok, file))
<1> USE DEF BgsaveEnded
<1>1. CASE c.to # m \/ c.replstate \in {"NONE", "SEND_BULK", "ONLINE"}
  BY <1>1 DEF AfterBgsave
<1>2. CASE c.to = m /\ c.replstate = "WAIT_BGSAVE_START"
  <2> DEFINE b == [c EXCEPT !.replstate = "WAIT_BGSAVE_END"]
  <2>1. AfterBgsave(m, c, ok, file) = b
    BY <1>2 DEF AfterBgsave
  <2>2. /\ b \in Conns /\ b.to = c.to /\ b.cmds = c.cmds /\ b.in = c.in /\ b.up = c.up /\ b.obuf = c.obuf
        /\ b.replstate = "WAIT_BGSAVE_END"
    BY SetReplstate DEF States
  <2> HIDE DEF b
  <2> QED BY <1>2, <2>1, <2>2
<1>3. CASE c.to = m /\ c.replstate = "WAIT_BGSAVE_END" /\ ok
  <2> DEFINE a == [c EXCEPT !.replstate = "SEND_BULK"]
             b == [a EXCEPT !.snap = file]
  <2>1. AfterBgsave(m, c, ok, file) = b
    BY <1>3 DEF AfterBgsave
  <2>2. /\ a \in Conns /\ a.to = c.to /\ a.cmds = c.cmds /\ a.in = c.in /\ a.up = c.up /\ a.obuf = c.obuf
        /\ a.replstate = "SEND_BULK"
    BY SetReplstate DEF States
  <2> HIDE DEF a
  <2>3. /\ b \in Conns /\ b.to = c.to /\ b.cmds = c.cmds /\ b.in = c.in /\ b.up = c.up /\ b.obuf = c.obuf
        /\ b.replstate = "SEND_BULK" /\ b.snap = file
    BY <2>2, SetSnap
  <2> QED BY <1>3, <2>1, <2>3
<1>4. CASE c.to = m /\ c.replstate = "WAIT_BGSAVE_END" /\ ~ok
  <2> DEFINE a == [c EXCEPT !.replstate = "NONE"]
             b == [a EXCEPT !.up = FALSE]
             e == [b EXCEPT !.obuf = <<>>]
  <2>0. <<>> \in Seq(Writes)
    OBVIOUS
  <2>1. AfterBgsave(m, c, ok, file) = e
    BY <1>4 DEF AfterBgsave
  <2>2. a \in Conns /\ a.to = c.to /\ a.cmds = c.cmds /\ a.in = c.in /\ a.replstate = "NONE"
    BY SetReplstate DEF States
  <2> HIDE DEF a
  <2>3. b \in Conns /\ b.to = c.to /\ b.cmds = c.cmds /\ b.in = c.in /\ b.replstate = "NONE" /\ b.up = FALSE
    BY <2>2, SetUp
  <2> HIDE DEF b
  <2>4. e \in Conns /\ e.to = c.to /\ e.cmds = c.cmds /\ e.in = c.in /\ e.replstate = "NONE" /\ e.up = FALSE
    BY <2>0, <2>3, SetObuf
  <2> QED BY <1>4, <2>1, <2>4
<1> QED BY <1>1, <1>2, <1>3, <1>4 DEF Conns, States
----------------------------------------------------------------------------
(* What each action makes of the connections.                              *)

\* Only the connection of s changes.
OnlyConn(s) == conn' \in [Servers -> Conns] /\ \A x \in Servers \ {s} : conn'[x] = conn[x]

LEMMA OneConn ==
  ASSUME conn \in [Servers -> Conns], NEW s \in Servers, NEW e \in Conns, conn' = [conn EXCEPT ![s] = e]
  PROVE  OnlyConn(s) /\ conn'[s] = e
BY DEF OnlyConn

LEMMA ConnTypes ==
  ASSUME TypeOK, NEW s \in Servers
  PROVE  LET c == conn[s]
         IN  /\ conn \in [Servers -> Conns] /\ c \in Conns /\ c.to \in Servers \cup {None} /\ c.up \in BOOLEAN
             /\ c.cmds \in Seq(Requests) /\ c.in \in Seq(Lines) /\ c.replstate \in States
             /\ c.obuf \in Seq(Writes) /\ c.snap \in Seq(Writes)
<1>1. conn \in [Servers -> Conns]
  BY DEF TypeOK, Conns, Requests, States
<1> QED BY <1>1 DEF Conns

LEMMA SyncIgnoredEffect ==
  ASSUME TypeOK, NEW m \in Servers, NEW s \in Servers, SyncIgnored(m, s)
  PROVE  LET c == conn[s]  d == conn'[s]
         IN  /\ OnlyConn(s) /\ d.to = c.to /\ d.up = c.up /\ d.cmds = Tail(c.cmds) /\ d.in = c.in
             /\ d.replstate = c.replstate /\ d.obuf = c.obuf /\ d.snap = c.snap
<1> DEFINE c == conn[s]
           e == [c EXCEPT !.cmds = Tail(c.cmds)]
<1>1. c \in Conns /\ Tail(c.cmds) \in Seq(Requests)
  BY ConnTypes DEF SyncIgnored, SyncRequest
<1>2. conn' = [conn EXCEPT ![s] = e]
  BY DEF SyncIgnored
<1> HIDE DEF c
<1>3. /\ e \in Conns /\ e.to = c.to /\ e.up = c.up /\ e.cmds = Tail(c.cmds) /\ e.in = c.in
      /\ e.replstate = c.replstate /\ e.obuf = c.obuf /\ e.snap = c.snap
  BY <1>1, SetCmds
<1> HIDE DEF e
<1>4. OnlyConn(s) /\ conn'[s] = e
  BY <1>2, <1>3, OneConn, ConnTypes
<1> QED BY <1>3, <1>4 DEF c

\* Answers: the request is consumed, lines are sent, the sender may become a slave.
Answered(c, v, ls)           == [[c EXCEPT !.cmds = v] EXCEPT !.in = ls]
AnsweredAs(c, v, st, ls)     == [[[c EXCEPT !.cmds = v] EXCEPT !.replstate = st] EXCEPT !.in = ls]
Enslaved(c, v, st, ob, ls)   == [[[[c EXCEPT !.cmds = v] EXCEPT !.replstate = st] EXCEPT !.obuf = ob] EXCEPT !.in = ls]

LEMMA AnswerFields ==
  ASSUME NEW c \in Conns, NEW v \in Seq(Requests), NEW ls \in Seq(Lines)
  PROVE  LET a == Answered(c, v, ls)
         IN  /\ a \in Conns /\ a.to = c.to /\ a.up = c.up /\ a.cmds = v /\ a.in = ls
             /\ a.replstate = c.replstate /\ a.obuf = c.obuf /\ a.snap = c.snap
<1> DEFINE p == [c EXCEPT !.cmds = v]
           a == [p EXCEPT !.in = ls]
<1>1. /\ p \in Conns /\ p.to = c.to /\ p.up = c.up /\ p.cmds = v /\ p.in = c.in
      /\ p.replstate = c.replstate /\ p.obuf = c.obuf /\ p.snap = c.snap
  BY SetCmds
<1>2. a = Answered(c, v, ls)
  BY DEF Answered
<1> HIDE DEF p
<1>3. /\ a \in Conns /\ a.to = c.to /\ a.up = c.up /\ a.cmds = v /\ a.in = ls
      /\ a.replstate = c.replstate /\ a.obuf = c.obuf /\ a.snap = c.snap
  BY <1>1, SetIn
<1> HIDE DEF a
<1> QED BY <1>2, <1>3

LEMMA AnswerAsFields ==
  ASSUME NEW c \in Conns, NEW v \in Seq(Requests), NEW ls \in Seq(Lines), NEW st \in States
  PROVE  LET b == AnsweredAs(c, v, st, ls)
         IN  /\ b \in Conns /\ b.to = c.to /\ b.up = c.up /\ b.cmds = v /\ b.in = ls
             /\ b.replstate = st /\ b.obuf = c.obuf /\ b.snap = c.snap
<1> DEFINE p == [c EXCEPT !.cmds = v]
           q == [p EXCEPT !.replstate = st]
           b == [q EXCEPT !.in = ls]
<1>1. /\ p \in Conns /\ p.to = c.to /\ p.up = c.up /\ p.cmds = v /\ p.in = c.in
      /\ p.replstate = c.replstate /\ p.obuf = c.obuf /\ p.snap = c.snap
  BY SetCmds
<1>0. b = AnsweredAs(c, v, st, ls)
  BY DEF AnsweredAs
<1> HIDE DEF p
<1>2. /\ q \in Conns /\ q.to = c.to /\ q.up = c.up /\ q.cmds = v /\ q.in = c.in
      /\ q.replstate = st /\ q.obuf = c.obuf /\ q.snap = c.snap
  BY <1>1, SetReplstate
<1> HIDE DEF q
<1>5. /\ b \in Conns /\ b.to = c.to /\ b.up = c.up /\ b.cmds = v /\ b.in = ls
      /\ b.replstate = st /\ b.obuf = c.obuf /\ b.snap = c.snap
  BY <1>2, SetIn
<1> HIDE DEF b
<1> QED BY <1>0, <1>5

LEMMA EnslavedFields ==
  ASSUME NEW c \in Conns, NEW v \in Seq(Requests), NEW ls \in Seq(Lines), NEW st \in States, NEW ob \in Seq(Writes)
  PROVE  LET d == Enslaved(c, v, st, ob, ls)
         IN  /\ d \in Conns /\ d.to = c.to /\ d.up = c.up /\ d.cmds = v /\ d.in = ls
             /\ d.replstate = st /\ d.obuf = ob /\ d.snap = c.snap
<1> DEFINE p == [c EXCEPT !.cmds = v]
           q == [p EXCEPT !.replstate = st]
           r == [q EXCEPT !.obuf = ob]
           d == [r EXCEPT !.in = ls]
<1>1. /\ p \in Conns /\ p.to = c.to /\ p.up = c.up /\ p.cmds = v /\ p.in = c.in
      /\ p.replstate = c.replstate /\ p.obuf = c.obuf /\ p.snap = c.snap
  BY SetCmds
<1>0. d = Enslaved(c, v, st, ob, ls)
  BY DEF Enslaved
<1> HIDE DEF p
<1>2. /\ q \in Conns /\ q.to = c.to /\ q.up = c.up /\ q.cmds = v /\ q.in = c.in
      /\ q.replstate = st /\ q.obuf = c.obuf /\ q.snap = c.snap
  BY <1>1, SetReplstate
<1> HIDE DEF q
<1>3. /\ r \in Conns /\ r.to = c.to /\ r.up = c.up /\ r.cmds = v /\ r.in = c.in
      /\ r.replstate = st /\ r.obuf = ob /\ r.snap = c.snap
  BY <1>2, SetObuf
<1> HIDE DEF r
<1>6. /\ d \in Conns /\ d.to = c.to /\ d.up = c.up /\ d.cmds = v /\ d.in = ls
      /\ d.replstate = st /\ d.obuf = ob /\ d.snap = c.snap
  BY <1>3, SetIn
<1> HIDE DEF d
<1> QED BY <1>0, <1>6

LEMMA SyncRefusedEffect ==
  ASSUME TypeOK, NEW m \in Servers, NEW s \in Servers, SyncRefused(m, s)
  PROVE  LET c == conn[s]  d == conn'[s]
         IN  /\ OnlyConn(s) /\ d.to = c.to /\ d.up = c.up /\ d.cmds = Tail(c.cmds)
             /\ d.in = Append(c.in, Line("ERR"))
             /\ d.replstate = c.replstate /\ d.obuf = c.obuf /\ d.snap = c.snap
<1> DEFINE c == conn[s]
           v == Tail(c.cmds)
           ls == Append(c.in, Line("ERR"))
           e == Answered(c, v, ls)
<1>0. setup \in Setups /\ c.cmds # <<>>
  BY DEF TypeOK, SyncRefused, SyncRequest
<1>1. c \in Conns /\ v \in Seq(Requests) /\ ls \in Seq(Lines)
  BY <1>0, ConnTypes, LineTypes, HeadTailProperties, AppendProperties
<1>2. conn' = [conn EXCEPT ![s] = e]
  BY DEF SyncRefused, Answered
<1> HIDE DEF c, v, ls
<1>3. /\ e \in Conns /\ e.to = c.to /\ e.up = c.up /\ e.cmds = v /\ e.in = ls
      /\ e.replstate = c.replstate /\ e.obuf = c.obuf /\ e.snap = c.snap
  BY <1>1, AnswerFields
<1> HIDE DEF e
<1>4. OnlyConn(s) /\ conn'[s] = e
  BY <1>2, <1>3, OneConn, ConnTypes
<1> QED BY <1>3, <1>4 DEF c, v, ls

LEMMA BacklogFromType ==
  ASSUME TypeOK, NEW m \in Servers, NEW s \in Servers, conn[s].cmds # <<>>, PsyncAccepted(m, s)
  PROVE  LET o == Cmd(s).off  b == BacklogFrom(m, o)
             n == mro[m] - o + 1
         IN  /\ o \in Int /\ mro[m] \in Int /\ backlog[m] \in Seq(Writes)
             /\ n \in 0 .. Len(backlog[m]) /\ b \in Seq(Lines) /\ Len(b) = n
             /\ \A i \in 1 .. n : b[i] = Unit(backlog[m][Len(backlog[m]) - n + i])
<1> DEFINE o == Cmd(s).off
           n == mro[m] - o + 1
           q == backlog[m]
           b == BacklogFrom(m, o)
<1>1. Cmd(s) \in Requests
  BY ConnTypes, HeadTailProperties DEF Cmd
<1>2. o \in Int /\ mro[m] \in Int /\ q \in Seq(Writes) /\ Len(q) \in Nat
  BY <1>1 DEF Requests, TypeOK, PsyncAccepted
<1>3. o >= mro[m] - Len(q) + 1 /\ o <= mro[m] - Len(q) + 1 + Len(q)
  BY DEF PsyncAccepted, BacklogOff
<1>4. n \in 0 .. Len(q)
  BY <1>2, <1>3
<1>5. \A i \in 1 .. n : o - BacklogOff(m) + i = Len(q) - n + i /\ Len(q) - n + i \in 1 .. Len(q)
  <2> DEFINE z == mro[m]
             l == Len(q)
             f == BacklogOff(m)
  <2>1. o \in Int /\ z \in Int /\ l \in Nat /\ f = z - l + 1 /\ n = z - o + 1 /\ n \in 0 .. l
    BY <1>2, <1>4 DEF BacklogOff
  <2> HIDE DEF z, l, f, n, o
  <2>2. \A i \in 1 .. n : o - f + i = l - n + i /\ l - n + i \in 1 .. l
    BY <2>1
  <2> QED BY <2>2 DEF l, f
<1>6. \A i \in 1 .. n : Unit(q[Len(q) - n + i]) \in Lines
  <2>1. \A i \in 1 .. n : q[Len(q) - n + i] \in Writes
    BY <1>2, <1>5, ElementOfSeq
  <2> QED BY <2>1, LineTypes DEF TypeOK
<1>7. b = [i \in 1 .. n |-> Unit(q[Len(q) - n + i])]
  <2> HIDE DEF n, q
  <2>1. b = [i \in 1 .. n |-> Unit(q[o - BacklogOff(m) + i])]
    BY DEF BacklogFrom, n, q
  <2> QED BY <2>1, <1>5
<1> HIDE DEF n, q, b, o
<1>8. b \in Seq(Lines) /\ Len(b) = n
  BY <1>2, <1>4, <1>6, <1>7, IsASeq
<1> QED BY <1>2, <1>4, <1>7, <1>8 DEF n, q, b, o

LEMMA SyncPartialEffect ==
  ASSUME TypeOK, NEW m \in Servers, NEW s \in Servers, SyncPartial(m, s)
  PROVE  LET c == conn[s]  d == conn'[s]
         IN  /\ OnlyConn(s) /\ d.to = c.to /\ d.up = c.up /\ d.cmds = Tail(c.cmds)
             /\ d.in = c.in \o <<Line("CONTINUE")>> \o BacklogFrom(m, Cmd(s).off)
             /\ d.replstate = "ONLINE" /\ d.obuf = c.obuf /\ d.snap = c.snap
<1> DEFINE c == conn[s]
           v == Tail(c.cmds)
           ls == c.in \o <<Line("CONTINUE")>> \o BacklogFrom(m, Cmd(s).off)
           e == AnsweredAs(c, v, "ONLINE", ls)
<1>0. setup \in Setups /\ c.cmds # <<>>
  BY DEF TypeOK, SyncPartial, SyncServed, SyncRequest
<1>1. c \in Conns /\ v \in Seq(Requests) /\ c.cmds # <<>> /\ c.in \in Seq(Lines) /\ c.obuf \in Seq(Writes)
  BY <1>0, ConnTypes, HeadTailProperties
<1>1a. ls \in Seq(Lines)
  <2>1. Line("CONTINUE") \in Lines
    BY <1>0, LineTypes
  <2>2. BacklogFrom(m, Cmd(s).off) \in Seq(Lines)
    BY <1>1, BacklogFromType DEF SyncPartial
  <2>3. <<Line("CONTINUE")>> \in Seq(Lines)
    BY <2>1
  <2> HIDE DEF c
  <2> QED BY <1>1, <2>2, <2>3
<1>2. conn' = [conn EXCEPT ![s] = e]
  BY DEF SyncPartial, AnsweredAs
<1> HIDE DEF c, v, ls
<1>3. /\ e \in Conns /\ e.to = c.to /\ e.up = c.up /\ e.cmds = v /\ e.in = ls
      /\ e.replstate = "ONLINE" /\ e.obuf = c.obuf /\ e.snap = c.snap
  BY <1>1, <1>1a, AnswerAsFields DEF States
<1> HIDE DEF e
<1>4. OnlyConn(s) /\ conn'[s] = e
  BY <1>2, <1>3, OneConn, ConnTypes
<1> QED BY <1>3, <1>4 DEF c, v, ls

LEMMA FullReplyType ==
  ASSUME TypeOK, NEW m \in Servers, NEW s \in Servers
  PROVE  /\ FullReply(m, s) \in Seq(Lines) /\ Run(m) \in Runs /\ FullOffset(m) \in Int
         /\ FullReply(m, s) = <<>> \/ (Cmd(s).name = "PSYNC" /\ FullReply(m, s) = <<FullLine(Run(m), FullOffset(m))>>)
<1>1. Run(m) \in Runs /\ FullOffset(m) \in Int
  BY DEF Run, Runs, FullOffset, TypeOK
<1>2. <<FullLine(Run(m), FullOffset(m))>> \in Seq(Lines)
  BY <1>1, LineTypes DEF TypeOK
<1> QED BY <1>1, <1>2 DEF FullReply

LEMMA SyncForkFailsEffect ==
  ASSUME TypeOK, NEW m \in Servers, NEW s \in Servers, SyncForkFails(m, s)
  PROVE  LET c == conn[s]  d == conn'[s]
         IN  /\ OnlyConn(s) /\ d.to = c.to /\ d.up = c.up /\ d.cmds = Tail(c.cmds)
             /\ d.in = c.in \o FullReply(m, s) \o <<Line("ERR")>>
             /\ d.replstate = c.replstate /\ d.obuf = c.obuf /\ d.snap = c.snap
<1> DEFINE c == conn[s]
           v == Tail(c.cmds)
           ls == c.in \o FullReply(m, s) \o <<Line("ERR")>>
           e == Answered(c, v, ls)
<1>0. setup \in Setups /\ c.cmds # <<>>
  BY DEF TypeOK, SyncForkFails, SyncServed, SyncRequest
<1>1. c \in Conns /\ v \in Seq(Requests) /\ c.in \in Seq(Lines) /\ c.obuf \in Seq(Writes)
  BY <1>0, ConnTypes, HeadTailProperties
<1>1a. ls \in Seq(Lines)
  <2>1. Line("ERR") \in Lines
    BY <1>0, LineTypes
  <2>2. FullReply(m, s) \in Seq(Lines)
    BY FullReplyType
  <2>3. <<Line("ERR")>> \in Seq(Lines)
    BY <2>1
  <2> HIDE DEF c
  <2> QED BY <1>1, <2>2, <2>3
<1>2. conn' = [conn EXCEPT ![s] = e]
  BY DEF SyncForkFails, Answered
<1> HIDE DEF c, v, ls
<1>3. /\ e \in Conns /\ e.to = c.to /\ e.up = c.up /\ e.cmds = v /\ e.in = ls
      /\ e.replstate = c.replstate /\ e.obuf = c.obuf /\ e.snap = c.snap
  BY <1>1, <1>1a, AnswerFields
<1> HIDE DEF e
<1>4. OnlyConn(s) /\ conn'[s] = e
  BY <1>2, <1>3, OneConn, ConnTypes
<1> QED BY <1>3, <1>4 DEF c, v, ls

LEMMA AttachSlaveEffect ==
  ASSUME TypeOK, NEW m \in Servers, NEW s \in Servers, SyncRequest(m, s), NEW st \in States,
         NEW ob \in Seq(Writes), AttachSlave(m, s, st, ob)
  PROVE  LET c == conn[s]  d == conn'[s]
         IN  /\ OnlyConn(s) /\ d.to = c.to /\ d.up = c.up /\ d.cmds = Tail(c.cmds)
             /\ d.in = c.in \o FullReply(m, s)
             /\ d.replstate = st /\ d.obuf = ob /\ d.snap = c.snap
<1> DEFINE c == conn[s]
           v == Tail(c.cmds)
           ls == c.in \o FullReply(m, s)
           e == Enslaved(c, v, st, ob, ls)
<1>1. c \in Conns /\ v \in Seq(Requests) /\ c.in \in Seq(Lines)
  BY ConnTypes, HeadTailProperties DEF SyncRequest
<1>1a. ls \in Seq(Lines)
  <2>1. FullReply(m, s) \in Seq(Lines)
    BY FullReplyType
  <2> HIDE DEF c
  <2> QED BY <1>1, <2>1
<1>2. conn' = [conn EXCEPT ![s] = e]
  BY DEF AttachSlave, Enslaved
<1> HIDE DEF c, v, ls
<1>3. /\ e \in Conns /\ e.to = c.to /\ e.up = c.up /\ e.cmds = v /\ e.in = ls
      /\ e.replstate = st /\ e.obuf = ob /\ e.snap = c.snap
  BY <1>1, <1>1a, EnslavedFields
<1> HIDE DEF e
<1>4. OnlyConn(s) /\ conn'[s] = e
  BY <1>2, <1>3, OneConn, ConnTypes
<1> QED BY <1>3, <1>4 DEF c, v, ls

\* sendBulkToSlave: the snapshot, and the units registered behind it.
Sent(c, ls) == [[[[c EXCEPT !.replstate = "ONLINE"] EXCEPT !.obuf = <<>>] EXCEPT !.snap = <<>>] EXCEPT !.in = ls]

LEMMA SentFields ==
  ASSUME NEW c \in Conns, NEW ls \in Seq(Lines)
  PROVE  LET d == Sent(c, ls)
         IN  d \in Conns /\ d.to = c.to /\ d.up = c.up /\ d.cmds = c.cmds /\ d.in = ls /\ d.replstate = "ONLINE"
<1> DEFINE p == [c EXCEPT !.replstate = "ONLINE"]
           q == [p EXCEPT !.obuf = <<>>]
           r == [q EXCEPT !.snap = <<>>]
           d == [r EXCEPT !.in = ls]
<1>0. "ONLINE" \in States /\ <<>> \in Seq(Writes)
  BY DEF States
<1>1. p \in Conns /\ p.to = c.to /\ p.up = c.up /\ p.cmds = c.cmds /\ p.replstate = "ONLINE"
  BY <1>0, SetReplstate
<1>5. d = Sent(c, ls)
  BY DEF Sent
<1> HIDE DEF p
<1>2. q \in Conns /\ q.to = c.to /\ q.up = c.up /\ q.cmds = c.cmds /\ q.replstate = "ONLINE"
  BY <1>0, <1>1, SetObuf
<1> HIDE DEF q
<1>3. r \in Conns /\ r.to = c.to /\ r.up = c.up /\ r.cmds = c.cmds /\ r.replstate = "ONLINE"
  BY <1>0, <1>2, SetSnap
<1> HIDE DEF r
<1>4. d \in Conns /\ d.to = c.to /\ d.up = c.up /\ d.cmds = c.cmds /\ d.in = ls /\ d.replstate = "ONLINE"
  BY <1>3, SetIn
<1> HIDE DEF d
<1> QED BY <1>4, <1>5

LEMMA SendBulkEffect ==
  ASSUME TypeOK, NEW m \in Servers, NEW s \in Servers, SendBulk(m, s)
  PROVE  LET c == conn[s]  d == conn'[s]  us == [i \in DOMAIN c.obuf |-> Unit(c.obuf[i])]
         IN  /\ OnlyConn(s) /\ d.to = c.to /\ d.up = c.up /\ d.cmds = c.cmds
             /\ d.in = c.in \o <<Bulk(c.snap)>> \o us /\ d.replstate = "ONLINE"
             /\ us \in Seq(Lines) /\ Len(us) = Len(c.obuf)
<1> DEFINE c == conn[s]
           us == [i \in DOMAIN c.obuf |-> Unit(c.obuf[i])]
           ls == c.in \o <<Bulk(c.snap)>> \o us
           e == Sent(c, ls)
<1>0. setup \in Setups
  BY DEF TypeOK
<1>1. c \in Conns /\ c.in \in Seq(Lines) /\ c.obuf \in Seq(Writes) /\ c.snap \in Seq(Writes)
  BY ConnTypes
<1>2. conn' = [conn EXCEPT ![s] = e]
  BY DEF SendBulk, Sent
<1> HIDE DEF c
<1>3. us \in Seq(Lines) /\ Len(us) = Len(c.obuf)
  <2>1. Len(c.obuf) \in Nat /\ us = [i \in 1 .. Len(c.obuf) |-> Unit(c.obuf[i])]
    BY <1>1
  <2>2. \A i \in 1 .. Len(c.obuf) : Unit(c.obuf[i]) \in Lines
    BY <1>0, <1>1, LineTypes, ElementOfSeq
  <2> HIDE DEF us
  <2> QED BY <2>1, <2>2, IsASeq
<1> HIDE DEF us
<1>4. ls \in Seq(Lines)
  <2>1. Bulk(c.snap) \in Lines
    BY <1>0, <1>1, LineTypes
  <2>2. <<Bulk(c.snap)>> \in Seq(Lines)
    BY <2>1
  <2> QED BY <1>1, <1>3, <2>2
<1> HIDE DEF ls
<1>5. e \in Conns /\ e.to = c.to /\ e.up = c.up /\ e.cmds = c.cmds /\ e.in = ls /\ e.replstate = "ONLINE"
  BY <1>1, <1>4, SentFields
<1> HIDE DEF e
<1>6. OnlyConn(s) /\ conn'[s] = e
  BY <1>2, <1>5, OneConn, ConnTypes
<1> QED BY <1>3, <1>5, <1>6 DEF c, us, ls

\* The slave reads a line.
LEMMA TailEffect ==
  ASSUME TypeOK, NEW s \in Servers, conn[s].in # <<>>, conn' = [conn EXCEPT ![s].in = Tail(@)]
  PROVE  LET c == conn[s]  d == conn'[s]
         IN  /\ OnlyConn(s) /\ d.to = c.to /\ d.up = c.up /\ d.cmds = c.cmds /\ d.in = Tail(c.in)
             /\ d.replstate = c.replstate /\ d.obuf = c.obuf /\ d.snap = c.snap
<1> DEFINE c == conn[s]
           v == Tail(c.in)
           e == [c EXCEPT !.in = v]
<1>1. c \in Conns /\ v \in Seq(Lines)
  BY ConnTypes, HeadTailProperties
<1>2. conn' = [conn EXCEPT ![s] = e]
  OBVIOUS
<1> HIDE DEF c, v
<1>3. /\ e \in Conns /\ e.to = c.to /\ e.up = c.up /\ e.cmds = c.cmds /\ e.in = v
      /\ e.replstate = c.replstate /\ e.obuf = c.obuf /\ e.snap = c.snap
  BY <1>1, SetIn
<1> HIDE DEF e
<1>4. OnlyConn(s) /\ conn'[s] = e
  BY <1>2, <1>3, OneConn, ConnTypes
<1> QED BY <1>3, <1>4 DEF c, v

\* The slave sends a command.
LEMMA AskEffect ==
  ASSUME TypeOK, NEW s \in Servers, NEW r \in Requests, conn' = [conn EXCEPT ![s].cmds = Append(@, r)]
  PROVE  LET c == conn[s]  d == conn'[s]
         IN  /\ OnlyConn(s) /\ d.to = c.to /\ d.up = c.up /\ d.cmds = Append(c.cmds, r) /\ d.in = c.in
             /\ d.replstate = c.replstate /\ d.obuf = c.obuf /\ d.snap = c.snap
<1> DEFINE c == conn[s]
           v == Append(c.cmds, r)
           e == [c EXCEPT !.cmds = v]
<1>1. c \in Conns /\ v \in Seq(Requests)
  BY ConnTypes, AppendProperties
<1>2. conn' = [conn EXCEPT ![s] = e]
  OBVIOUS
<1> HIDE DEF c, v
<1>3. /\ e \in Conns /\ e.to = c.to /\ e.up = c.up /\ e.cmds = v /\ e.in = c.in
      /\ e.replstate = c.replstate /\ e.obuf = c.obuf /\ e.snap = c.snap
  BY <1>1, SetCmds
<1> HIDE DEF e
<1>4. OnlyConn(s) /\ conn'[s] = e
  BY <1>2, <1>3, OneConn, ConnTypes
<1> QED BY <1>3, <1>4 DEF c, v

\* What the slave sends.
LEMMA RequestTypes ==
  ASSUME TypeOK
  PROVE  Sync \in Requests /\ \A s \in Servers : Psync(master[s]) \in Requests
<1>1. master \in [Servers -> [run : Runs, off : Int, pre : BOOLEAN]] /\ NoRun \in Runs
  BY DEF TypeOK, Runs
<1> QED BY <1>1 DEF Sync, Psync, Requests

LEMMA FallBackEffect ==
  ASSUME TypeOK, NEW s \in Servers, FallBackToSync(s)
  PROVE  LET c == conn[s]  d == conn'[s]
         IN  /\ OnlyConn(s) /\ d.to = c.to /\ d.up = c.up /\ d.cmds = Append(c.cmds, Sync) /\ d.in = Tail(c.in)
             /\ d.replstate = c.replstate /\ d.obuf = c.obuf /\ d.snap = c.snap
<1> DEFINE c == conn[s]
           v == Append(c.cmds, Sync)
           ls == Tail(c.in)
           e == [[c EXCEPT !.in = ls] EXCEPT !.cmds = v]
<1>1. c \in Conns /\ v \in Seq(Requests) /\ ls \in Seq(Lines)
  BY ConnTypes, RequestTypes, AppendProperties, HeadTailProperties DEF FallBackToSync
<1>2. conn' = [conn EXCEPT ![s] = e]
  BY DEF FallBackToSync
<1> HIDE DEF c, v, ls
<1> DEFINE p == [c EXCEPT !.in = ls]
           d == [p EXCEPT !.cmds = v]
<1>3. /\ p \in Conns /\ p.to = c.to /\ p.up = c.up /\ p.cmds = c.cmds /\ p.in = ls
      /\ p.replstate = c.replstate /\ p.obuf = c.obuf /\ p.snap = c.snap
  BY <1>1, SetIn
<1>5. d = e
  OBVIOUS
<1> HIDE DEF p, e
<1>4. /\ d \in Conns /\ d.to = c.to /\ d.up = c.up /\ d.cmds = v /\ d.in = ls
      /\ d.replstate = c.replstate /\ d.obuf = c.obuf /\ d.snap = c.snap
  BY <1>1, <1>3, SetCmds
<1> HIDE DEF d
<1>6. OnlyConn(s) /\ conn'[s] = e
  BY <1>2, <1>4, <1>5, OneConn, ConnTypes
<1> QED BY <1>4, <1>5, <1>6 DEF c, v, ls

\* s starts a connection with its master.
LEMMA ConnectEffect ==
  ASSUME TypeOK, NEW s \in Servers, ConnectWithMaster(s)
  PROVE  LET d == conn'[s]
         IN  /\ OnlyConn(s) /\ d.to = masterhost[s] /\ d.up /\ d.cmds = <<>> /\ d.in = <<>> /\ d.replstate = "NONE"
<1> DEFINE h == masterhost[s]
           n == NoConn
           p == [n EXCEPT !.to = h]
           e == [p EXCEPT !.up = TRUE]
<1>0. h \in Servers \cup {None} /\ conn' = [conn EXCEPT ![s] = e]
  BY DEF TypeOK, ConnectWithMaster
<1>1. n \in Conns /\ n.cmds = <<>> /\ n.in = <<>> /\ n.replstate = "NONE"
  BY NoConnType
<1> HIDE DEF n, h
<1>2. p \in Conns /\ p.to = h /\ p.cmds = <<>> /\ p.in = <<>> /\ p.replstate = "NONE"
  BY <1>0, <1>1 DEF Conns
<1> HIDE DEF p
<1>3. e \in Conns /\ e.to = h /\ e.up /\ e.cmds = <<>> /\ e.in = <<>> /\ e.replstate = "NONE"
  BY <1>2, SetUp
<1> HIDE DEF e
<1>4. OnlyConn(s) /\ conn'[s] = e
  BY <1>0, <1>3, OneConn, ConnTypes
<1> QED BY <1>3, <1>4 DEF h

\* The master's ends of the connections of S are closed.
Closed(c, d) == d.to = c.to /\ d.up = FALSE /\ d.cmds = <<>> /\ d.replstate = "NONE" /\ d.in = c.in

\* s drops its own connection, and the slaves S.
Cut(s, S) ==
  /\ conn' \in [Servers -> Conns] /\ conn'[s] = NoConn
  /\ \A x \in Servers \ {s} : /\ x \in S => Closed(conn[x], conn'[x])
                              /\ x \notin S => conn'[x] = conn[x]

LEMMA CutEffect ==
  ASSUME TypeOK, NEW s \in Servers, NEW S
  PROVE  /\ conn' = [ClosedByMaster(conn, S) EXCEPT ![s] = NoConn] => Cut(s, S)
         /\ conn' = [conn EXCEPT ![s] = NoConn] => Cut(s, {})
<1>0. conn \in [Servers -> Conns] /\ NoConn \in Conns
  BY ConnTypes, NoConnType
<1>1. ASSUME conn' = [ClosedByMaster(conn, S) EXCEPT ![s] = NoConn]  PROVE Cut(s, S)
  <2> DEFINE f == ClosedByMaster(conn, S)
  <2>1. f \in [Servers -> Conns] /\ \A x \in Servers : /\ x \in S => Closed(conn[x], f[x])
                                                       /\ x \notin S => f[x] = conn[x]
    BY <1>0, ClosedFields DEF Closed
  <2>2. conn' = [f EXCEPT ![s] = NoConn]
    BY <1>1
  <2> HIDE DEF f
  <2> QED BY <1>0, <2>1, <2>2 DEF Cut
<1>2. ASSUME conn' = [conn EXCEPT ![s] = NoConn]  PROVE Cut(s, {})
  BY <1>0, <1>2 DEF Cut
<1> QED BY <1>1, <1>2

LEMMA CloseLinkEffect ==
  ASSUME TypeOK, NEW s \in Servers, CloseLink(s)
  PROVE  Cut(s, IF repl_state[s] = "CONNECTED" THEN Slaves(s) ELSE {})
<1>1. CASE repl_state[s] = "CONNECTED"
  <2>1. conn' = [ClosedByMaster(conn, Slaves(s)) EXCEPT ![s] = NoConn]
    BY <1>1 DEF CloseLink
  <2> QED BY <1>1, <2>1, CutEffect
<1>2. CASE repl_state[s] # "CONNECTED"
  <2>1. conn' = [conn EXCEPT ![s] = NoConn]
    BY <1>2 DEF CloseLink
  <2> QED BY <1>2, <2>1, CutEffect
<1> QED BY <1>1, <1>2

LEMMA DropEffect ==
  ASSUME TypeOK, NEW m \in Servers, NEW s \in Servers, DropSlave(m, s)
  PROVE  OnlyConn(s) /\ Closed(conn[s], conn'[s])
<1> DEFINE f == ClosedByMaster(conn, {s})
<1>1. conn' = f /\ conn \in [Servers -> Conns]
  BY ConnTypes DEF DropSlave
<1>2. f \in [Servers -> Conns] /\ \A x \in Servers : /\ x \in {s} => Closed(conn[x], f[x])
                                                     /\ x \notin {s} => f[x] = conn[x]
  BY <1>1, ClosedFields DEF Closed
<1> HIDE DEF f
<1> QED BY <1>1, <1>2 DEF OnlyConn

\* FedConns on connections that are as conn', or as conn but for one line read.
Feeds(cn, m, w) ==
  /\ conn' \in [Servers -> Conns]
  /\ \A x \in Servers :
       LET c == cn[x]  d == conn'[x]
       IN  /\ d.to = c.to /\ d.up = c.up /\ d.cmds = c.cmds /\ d.replstate = c.replstate /\ d.snap = c.snap
           /\ d.obuf = IF c.to = m /\ Fed(c) THEN Append(c.obuf, w) ELSE c.obuf
           /\ d.in = IF c.to = m /\ Online(c) THEN Append(c.in, Unit(w)) ELSE c.in

LEMMA WriteEffect ==
  ASSUME TypeOK, NEW m \in Servers, Write(m)
  PROVE  writes' \in Writes /\ Feeds(conn, m, writes')
<1>1. writes' \in Writes /\ conn' = FedConns(conn, m, writes')
  BY SetupTypes DEF Write, TypeOK, Writes
<1>2. setup \in Setups /\ conn \in [Servers -> Conns]
  BY ConnTypes DEF TypeOK
<1> QED BY <1>1, <1>2, FedFields DEF Feeds

LEMMA ReadUnitEffect ==
  ASSUME TypeOK, NEW s \in Servers, ReadUnit(s)
  PROVE  LET w == Head(conn[s].in).off  cn == [conn EXCEPT ![s].in = Tail(@)]
         IN  /\ Head(conn[s].in) \in Lines /\ cn \in [Servers -> Conns] /\ (w \in Writes => Feeds(cn, s, w))
             /\ \A x \in Servers :
                  /\ cn[x].to = conn[x].to /\ cn[x].up = conn[x].up /\ cn[x].cmds = conn[x].cmds
                  /\ cn[x].replstate = conn[x].replstate /\ cn[x].obuf = conn[x].obuf /\ cn[x].snap = conn[x].snap
                  /\ cn[x].in = IF x = s THEN Tail(conn[s].in) ELSE conn[x].in
<1> DEFINE w == Head(conn[s].in).off
           c == conn[s]
           e == [c EXCEPT !.in = Tail(c.in)]
           cn == [conn EXCEPT ![s] = e]
<1>0. setup \in Setups /\ conn[s].in # <<>>
  BY DEF TypeOK, ReadUnit
<1>1. conn \in [Servers -> Conns] /\ c \in Conns /\ Head(c.in) \in Lines /\ Tail(c.in) \in Seq(Lines)
  BY <1>0, ConnTypes, HeadTailProperties
<1>2. /\ e \in Conns /\ e.to = c.to /\ e.up = c.up /\ e.cmds = c.cmds /\ e.in = Tail(c.in)
      /\ e.replstate = c.replstate /\ e.obuf = c.obuf /\ e.snap = c.snap
  BY <1>1, SetIn
<1>3. conn' = FedConns(cn, s, w) /\ cn = [conn EXCEPT ![s].in = Tail(@)]
  BY DEF ReadUnit
<1> HIDE DEF e
<1>4. cn \in [Servers -> Conns] /\ cn[s] = e /\ \A x \in Servers \ {s} : cn[x] = conn[x]
  BY <1>1, <1>2
<1> HIDE DEF cn, w
<1> HIDE DEF c
<1>5. ASSUME w \in Writes  PROVE Feeds(cn, s, w)
  <2> DEFINE f == FedConns(cn, s, w)
  <2>1. /\ f \in [Servers -> Conns]
        /\ \A x \in Servers :
             /\ f[x].to = cn[x].to /\ f[x].up = cn[x].up /\ f[x].cmds = cn[x].cmds
             /\ f[x].replstate = cn[x].replstate /\ f[x].snap = cn[x].snap
             /\ f[x].obuf = IF cn[x].to = s /\ Fed(cn[x]) THEN Append(cn[x].obuf, w) ELSE cn[x].obuf
             /\ f[x].in = IF cn[x].to = s /\ Online(cn[x]) THEN Append(cn[x].in, Unit(w)) ELSE cn[x].in
    BY <1>0, <1>4, <1>5, FedFields
  <2>2. conn' = f
    BY <1>3
  <2> HIDE DEF f
  <2> QED BY <2>1, <2>2 DEF Feeds
<1>6. \A x \in Servers :
        /\ cn[x].to = conn[x].to /\ cn[x].up = conn[x].up /\ cn[x].cmds = conn[x].cmds
        /\ cn[x].replstate = conn[x].replstate /\ cn[x].obuf = conn[x].obuf /\ cn[x].snap = conn[x].snap
        /\ cn[x].in = IF x = s THEN Tail(conn[s].in) ELSE conn[x].in
  BY <1>2, <1>4 DEF c
<1> QED BY <1>1, <1>3, <1>4, <1>5, <1>6 DEF w, c

----------------------------------------------------------------------------
(* Types.                                                                  *)

Carries(q) == \A i \in DOMAIN q : q[i].t = "unit" => q[i].off \in Writes

ServerTypes ==
  /\ setup \in Setups /\ writes \in 0 .. MaxWrites /\ faults \in 0 .. MaxFaults
  /\ data \in [Servers -> Seq(Writes)] /\ rdbfile \in [Servers -> Seq(Writes)]
  /\ DOMAIN child = Servers /\ \A s \in Servers : child[s] = NoChild \/ child[s] \in Seq(Writes)
  /\ runid \in [Servers -> Nat] /\ mro \in [Servers -> Int]
  /\ DOMAIN backlog = Servers
  /\ \A s \in Servers : HasBacklog(s) => backlog[s] \in Seq(Writes) /\ Len(backlog[s]) <= BacklogSize

SlaveTypes ==
  /\ masterhost \in [Servers -> Servers \cup {None}]
  /\ repl_state \in [Servers -> {"NONE", "CONNECT", "CONNECTING", "RECEIVE_PONG", "PSYNC", "TRANSFER", "CONNECTED"}]
  /\ master \in [Servers -> Positions] /\ full \in [Servers -> [run : Runs, off : Int]]

\* TypeOK, and: the units in flight are writes.
Type == ServerTypes /\ SlaveTypes /\ conn \in [Servers -> Conns] /\ \A s \in Servers : Carries(conn[s].in)

LEMMA TypeParts == Type => TypeOK
BY DEF Type, TypeOK, ServerTypes, SlaveTypes, Positions, Conns, Requests, States

LEMMA FaultType ==
  ASSUME Type, NEW k, Fault(k)
  PROVE  faults' \in 0 .. MaxFaults
BY SetupTypes DEF Type, ServerTypes, Fault

\* A sequence of writes is not NoBacklog, nor NoChild.
LEMMA NotNo ==
  ASSUME NEW q \in Seq(Writes)
  PROVE  q # NoBacklog /\ q # NoChild
<1>1. q # << 0 >>
  <2> SUFFICES ASSUME q = << 0 >> PROVE FALSE
    OBVIOUS
  <2>1. q[1] \in Writes /\ q[1] = 0
    BY ElementOfSeq
  <2> QED BY <2>1 DEF Writes
<1> QED BY <1>1 DEF NoBacklog, NoChild

\* feedReplicationBacklog.
LEMMA FeedEffect ==
  ASSUME Type, NEW m \in Servers, NEW w \in Writes, FeedBacklog(m, w)
  PROVE  /\ mro' \in [Servers -> Int] /\ DOMAIN backlog' = Servers
         /\ \A x \in Servers : (HasBacklog(x))' = HasBacklog(x)
         /\ \A x \in Servers \ {m} : mro'[x] = mro[x] /\ backlog'[x] = backlog[x]
         /\ ~HasBacklog(m) => mro' = mro /\ backlog' = backlog
         /\ HasBacklog(m) => LET q == Append(backlog[m], w)  b == backlog'[m]
                             IN  /\ mro'[m] = mro[m] + 1 /\ b \in Seq(Writes) /\ q \in Seq(Writes)
                                 /\ Len(b) <= BacklogSize /\ Len(b) <= Len(q) /\ Len(q) = Len(backlog[m]) + 1
                                 /\ b = SubSeq(q, Len(q) - Len(b) + 1, Len(q))
<1>0. /\ BacklogSize \in Nat \ {0} /\ mro \in [Servers -> Int] /\ DOMAIN backlog = Servers
      /\ HasBacklog(m) => backlog[m] \in Seq(Writes)
  BY SetupTypes DEF Type, ServerTypes
<1>1. CASE ~HasBacklog(m)
  BY <1>0, <1>1 DEF FeedBacklog, HasBacklog
<1>2. CASE HasBacklog(m)
  <2> DEFINE q == Append(backlog[m], w)
             k == IF Len(q) > BacklogSize THEN Len(q) - BacklogSize + 1 ELSE 1
             b == SubSeq(q, k, Len(q))
  <2>1. mro' = [mro EXCEPT ![m] = @ + 1] /\ backlog' = [backlog EXCEPT ![m] = b]
    BY <1>2 DEF FeedBacklog, LastUnits
  <2>2. q \in Seq(Writes) /\ Len(q) = Len(backlog[m]) + 1 /\ Len(q) \in Nat
    BY <1>0, <1>2, AppendProperties
  <2> HIDE DEF q
  <2>3. k \in 1 .. Len(q) /\ Len(q) - k + 1 <= BacklogSize
    BY <1>0, <2>2, LenProperties
  <2> HIDE DEF k
  <2>4. b \in Seq(Writes) /\ Len(b) = Len(q) - k + 1
    BY <2>2, <2>3, SubSeqProperties
  <2>5. k = Len(q) - Len(b) + 1
    BY <2>2, <2>3, <2>4
  <2>6. b = SubSeq(q, Len(q) - Len(b) + 1, Len(q))
    BY <2>5
  <2> HIDE DEF b
  <2>7. backlog'[m] = b /\ mro'[m] = mro[m] + 1 /\ DOMAIN backlog' = Servers /\ mro' \in [Servers -> Int]
        /\ \A x \in Servers \ {m} : mro'[x] = mro[x] /\ backlog'[x] = backlog[x]
    BY <1>0, <2>1
  <2>8. \A x \in Servers : (HasBacklog(x))' = HasBacklog(x)
    <3>1. (HasBacklog(m))'
      BY <2>4, <2>7, NotNo DEF HasBacklog
    <3> QED BY <1>2, <2>7, <3>1 DEF HasBacklog
  <2>9. Len(b) <= BacklogSize /\ Len(b) <= Len(q)
    BY <2>2, <2>3, <2>4
  <2> QED BY <1>2, <2>2, <2>4, <2>6, <2>7, <2>8, <2>9 DEF q
<1> QED BY <1>1, <1>2

\* createReplicationBacklog.
LEMMA CreateEffect ==
  ASSUME Type, NEW m \in Servers, CreateBacklog(m)
  PROVE  /\ mro' \in [Servers -> Int] /\ DOMAIN backlog' = Servers
         /\ \A x \in Servers \ {m} : mro'[x] = mro[x] /\ backlog'[x] = backlog[x]
         /\ HasBacklog(m) \/ Slaves(m) # {} => mro' = mro /\ backlog' = backlog
         /\ ~HasBacklog(m) /\ Slaves(m) = {} => mro'[m] = mro[m] + 1 /\ backlog'[m] = <<>> /\ (HasBacklog(m))'
<1>0. mro \in [Servers -> Int] /\ DOMAIN backlog = Servers
  BY DEF Type, ServerTypes
<1>1. CASE HasBacklog(m) \/ Slaves(m) # {}
  BY <1>0, <1>1 DEF CreateBacklog
<1>2. CASE ~HasBacklog(m) /\ Slaves(m) = {}
  <2>1. mro' = [mro EXCEPT ![m] = @ + 1] /\ backlog' = [backlog EXCEPT ![m] = <<>>]
    BY <1>2 DEF CreateBacklog
  <2>2. (HasBacklog(m))'
    <3>0. <<>> \in Seq(Writes)
      OBVIOUS
    <3>1. <<>> # NoBacklog
      BY <3>0, NotNo
    <3> QED BY <1>0, <2>1, <3>1 DEF HasBacklog
  <2> QED BY <1>0, <1>2, <2>1, <2>2
<1> QED BY <1>1, <1>2

\* The next unit to read is a write.
LEMMA NextUnit ==
  ASSUME Type, NEW s \in Servers, ReadUnit(s)
  PROVE  Head(conn[s].in).off \in Writes
<1>1. conn[s].in # <<>> /\ conn[s].in \in Seq(Lines) /\ Head(conn[s].in).t = "unit" /\ Carries(conn[s].in)
  BY ConnTypes, TypeParts DEF Type, ReadUnit
<1>2. Head(conn[s].in) = conn[s].in[1] /\ 1 \in DOMAIN conn[s].in
  BY <1>1
<1> QED BY <1>1, <1>2 DEF Carries

LEMMA FirstLine ==
  ASSUME Type, NEW s \in Servers, conn[s].in # <<>>
  PROVE  LET l == Head(conn[s].in)
         IN  l \in Lines /\ l.run \in Runs /\ l.off \in Int /\ l.data \in Seq(Writes)
<1>1. Head(conn[s].in) \in Lines
  BY ConnTypes, TypeParts, HeadTailProperties
<1> QED BY <1>1 DEF Lines

LEMMA InitType == Init => Type
<1> SUFFICES ASSUME Init PROVE Type
  OBVIOUS
<1>0. /\ setup \in Setups /\ InitialMaster \in [Servers -> Servers \cup {None}]
      /\ MaxWrites \in Nat /\ MaxFaults \in Nat
  BY SetupTypes DEF Init
<1>1. ServerTypes
  <2>1. <<>> \in Seq(Writes) /\ 0 \in Int /\ 1 \in Nat
    OBVIOUS
  <2>2. /\ data = [s \in Servers |-> <<>>] /\ rdbfile = [s \in Servers |-> <<>>]
        /\ child = [s \in Servers |-> NoChild] /\ runid = [s \in Servers |-> 1]
        /\ mro = [s \in Servers |-> 0] /\ backlog = [s \in Servers |-> NoBacklog]
        /\ writes = 0 /\ faults = 0
    BY DEF Init
  <2>3. /\ data \in [Servers -> Seq(Writes)] /\ rdbfile \in [Servers -> Seq(Writes)]
        /\ runid \in [Servers -> Nat] /\ mro \in [Servers -> Int]
    BY <2>1, <2>2
  <2>4. DOMAIN child = Servers /\ DOMAIN backlog = Servers /\ \A s \in Servers : child[s] = NoChild /\ ~HasBacklog(s)
    BY <2>2 DEF HasBacklog
  <2> QED BY <1>0, <2>2, <2>3, <2>4 DEF ServerTypes
<1>2. SlaveTypes
  <2>1. NoRun \in Runs /\ -2 \in Int /\ NoMaster \in Positions /\ NoFull \in [run : Runs, off : Int]
    BY DEF Runs, NoMaster, NoFull, Positions
  <2>2. /\ masterhost = InitialMaster /\ master = [s \in Servers |-> NoMaster] /\ full = [s \in Servers |-> NoFull]
        /\ repl_state = [s \in Servers |-> IF InitialMaster[s] = None THEN "NONE" ELSE "CONNECT"]
    BY DEF Init
  <2> QED BY <1>0, <2>1, <2>2 DEF SlaveTypes
<1>3. conn \in [Servers -> Conns] /\ \A s \in Servers : Carries(conn[s].in)
  <2>1. conn = [s \in Servers |-> NoConn]
    BY DEF Init
  <2> QED BY <2>1, NoConnType DEF Carries
<1> QED BY <1>1, <1>2, <1>3 DEF Type

\* The actions that concern only the slave side or the connections.
LEMMA QuietServers ==
  ASSUME Type, UNCHANGED <<setup, writes, serverVars>>, faults' = faults \/ \E k : Fault(k)
  PROVE  ServerTypes'
<1>1. faults' \in 0 .. MaxFaults
  BY FaultType DEF Type, ServerTypes
<1>2. /\ setup' = setup /\ writes' = writes /\ data' = data /\ rdbfile' = rdbfile /\ child' = child /\ runid' = runid
      /\ mro' = mro /\ backlog' = backlog
  BY DEF serverVars
<1>3. \A s \in Servers : (HasBacklog(s))' = HasBacklog(s)
  BY <1>2 DEF HasBacklog
<1> QED BY <1>1, <1>2, <1>3, SameSetup DEF Type, ServerTypes

LEMMA ServersTyped ==
  ASSUME Type, Step, UNCHANGED setup
  PROVE  ServerTypes'
<1>0. /\ setup \in Setups /\ writes \in 0 .. MaxWrites /\ faults \in 0 .. MaxFaults /\ MaxFaults \in Nat /\ MaxWrites \in Nat
      /\ data \in [Servers -> Seq(Writes)] /\ rdbfile \in [Servers -> Seq(Writes)]
      /\ DOMAIN child = Servers /\ (\A s \in Servers : child[s] = NoChild \/ child[s] \in Seq(Writes))
      /\ runid \in [Servers -> Nat] /\ mro \in [Servers -> Int] /\ DOMAIN backlog = Servers
      /\ \A s \in Servers : HasBacklog(s) => backlog[s] \in Seq(Writes) /\ Len(backlog[s]) <= BacklogSize
      /\ BacklogSize \in Nat \ {0}
  BY SetupTypes DEF Type, ServerTypes
<1>q. ASSUME UNCHANGED <<writes, serverVars>>, faults' = faults \/ \E k : Fault(k)
      PROVE  ServerTypes'
  BY <1>q, QuietServers
\* What is left to show when the backlogs stay, and when they do not.
<1>b. backlog' = backlog => DOMAIN backlog' = Servers
                            /\ \A s \in Servers : (HasBacklog(s))' => backlog'[s] \in Seq(Writes) /\ Len(backlog'[s]) <= BacklogSize
  BY <1>0 DEF HasBacklog
<1>t. ASSUME writes' \in 0 .. MaxWrites, faults' \in 0 .. MaxFaults,
             data' \in [Servers -> Seq(Writes)], rdbfile' \in [Servers -> Seq(Writes)],
             DOMAIN child' = Servers, \A s \in Servers : child'[s] = NoChild \/ child'[s] \in Seq(Writes),
             runid' \in [Servers -> Nat], mro' \in [Servers -> Int], DOMAIN backlog' = Servers,
             \A s \in Servers : (HasBacklog(s))' => backlog'[s] \in Seq(Writes) /\ Len(backlog'[s]) <= BacklogSize
      PROVE  ServerTypes'
  BY <1>0, <1>t, SameSetup DEF ServerTypes
<1>f. \A m \in Servers, w \in Writes : FeedBacklog(m, w) =>
         /\ mro' \in [Servers -> Int] /\ DOMAIN backlog' = Servers
         /\ \A s \in Servers : (HasBacklog(s))' => backlog'[s] \in Seq(Writes) /\ Len(backlog'[s]) <= BacklogSize
  <2> SUFFICES ASSUME NEW m \in Servers, NEW w \in Writes, FeedBacklog(m, w)
               PROVE  /\ mro' \in [Servers -> Int] /\ DOMAIN backlog' = Servers
                      /\ \A s \in Servers : (HasBacklog(s))' => backlog'[s] \in Seq(Writes) /\ Len(backlog'[s]) <= BacklogSize
    OBVIOUS
  <2>1. /\ mro' \in [Servers -> Int] /\ DOMAIN backlog' = Servers
        /\ \A x \in Servers : (HasBacklog(x))' = HasBacklog(x)
        /\ \A x \in Servers \ {m} : backlog'[x] = backlog[x]
        /\ ~HasBacklog(m) => backlog' = backlog
        /\ HasBacklog(m) => backlog'[m] \in Seq(Writes) /\ Len(backlog'[m]) <= BacklogSize
    BY FeedEffect
  <2> QED BY <1>0, <2>1
<1>c. \A m \in Servers : CreateBacklog(m) =>
         /\ mro' \in [Servers -> Int] /\ DOMAIN backlog' = Servers
         /\ \A s \in Servers : (HasBacklog(s))' => backlog'[s] \in Seq(Writes) /\ Len(backlog'[s]) <= BacklogSize
  <2> SUFFICES ASSUME NEW m \in Servers, CreateBacklog(m)
               PROVE  /\ mro' \in [Servers -> Int] /\ DOMAIN backlog' = Servers
                      /\ \A s \in Servers : (HasBacklog(s))' => backlog'[s] \in Seq(Writes) /\ Len(backlog'[s]) <= BacklogSize
    OBVIOUS
  <2>1. /\ mro' \in [Servers -> Int] /\ DOMAIN backlog' = Servers
        /\ \A x \in Servers \ {m} : backlog'[x] = backlog[x]
        /\ backlog' = backlog \/ backlog'[m] = <<>>
    BY CreateEffect
  <2>2. <<>> \in Seq(Writes) /\ Len(<<>>) <= BacklogSize
    BY <1>0
  <2> QED BY <1>0, <1>b, <2>1, <2>2 DEF HasBacklog
<1>1. ASSUME NEW m \in Servers, Write(m)  PROVE ServerTypes'
  <2>1. /\ writes' \in Writes /\ FeedBacklog(m, writes') /\ data' = [data EXCEPT ![m] = Append(@, writes')]
        /\ faults' = faults /\ rdbfile' = rdbfile /\ child' = child /\ runid' = runid
    BY <1>1, WriteEffect, TypeParts DEF Write
  <2>2. data' \in [Servers -> Seq(Writes)] /\ writes' \in 0 .. MaxWrites
    BY <1>0, <2>1 DEF Writes
  <2> QED BY <1>0, <1>f, <1>t, <2>1, <2>2
<1>2. ASSUME NEW s \in Servers, ReadUnit(s)  PROVE ServerTypes'
  <2> DEFINE w == Head(conn[s].in).off
  <2>1. /\ w \in Writes /\ FeedBacklog(s, w) /\ data' = [data EXCEPT ![s] = Append(@, w)]
        /\ writes' = writes /\ faults' = faults /\ rdbfile' = rdbfile /\ child' = child /\ runid' = runid
    BY <1>2, NextUnit DEF ReadUnit
  <2> HIDE DEF w
  <2>2. data' \in [Servers -> Seq(Writes)]
    BY <1>0, <2>1
  <2> QED BY <1>0, <1>f, <1>t, <2>1, <2>2
<1>3. ASSUME NEW s \in Servers, ReadBulk(s)  PROVE ServerTypes'
  <2>1. /\ data' = [data EXCEPT ![s] = Head(conn[s].in).data] /\ rdbfile' = [rdbfile EXCEPT ![s] = Head(conn[s].in).data]
        /\ writes' = writes /\ faults' = faults /\ child' = child /\ runid' = runid /\ mro' = mro /\ backlog' = backlog
    BY <1>3 DEF ReadBulk
  <2>2. Head(conn[s].in).data \in Seq(Writes)
    BY <1>3, FirstLine DEF ReadBulk
  <2>3. data' \in [Servers -> Seq(Writes)] /\ rdbfile' \in [Servers -> Seq(Writes)]
    BY <1>0, <2>1, <2>2
  <2> QED BY <1>0, <1>b, <1>t, <2>1, <2>3
<1>4. ASSUME NEW m \in Servers, NEW s \in Servers, SyncDuringBgsave(m, s)  PROVE ServerTypes'
  <2>1. /\ CreateBacklog(m) /\ writes' = writes /\ faults' = faults /\ data' = data /\ rdbfile' = rdbfile
        /\ child' = child /\ runid' = runid
    BY <1>4 DEF SyncDuringBgsave, AttachSlave
  <2> QED BY <1>0, <1>c, <1>t, <2>1
<1>5. ASSUME NEW m \in Servers, NEW s \in Servers, SyncStartsBgsave(m, s)  PROVE ServerTypes'
  <2>1. /\ CreateBacklog(m) /\ writes' = writes /\ faults' = faults /\ data' = data /\ rdbfile' = rdbfile
        /\ child' = [child EXCEPT ![m] = data[m]] /\ runid' = runid
    BY <1>5 DEF SyncStartsBgsave, AttachSlave
  <2> QED BY <1>0, <1>c, <1>t, <2>1
<1>6. ASSUME NEW m \in Servers, Bgsave(m)  PROVE ServerTypes'
  <2>1. /\ child' = [child EXCEPT ![m] = data[m]] /\ runid' = runid /\ mro' = mro /\ backlog' = backlog
        /\ writes' = writes /\ faults' = faults /\ data' = data /\ rdbfile' = rdbfile
    BY <1>6 DEF Bgsave
  <2> QED BY <1>0, <1>b, <1>t, <2>1
<1>7. ASSUME NEW m \in Servers, NEW ok \in BOOLEAN, BgsaveDone(m, ok)  PROVE ServerTypes'
  <2>1. /\ runid' = runid /\ mro' = mro /\ backlog' = backlog /\ writes' = writes /\ data' = data
        /\ child[m] # NoChild /\ rdbfile' = IF ok THEN [rdbfile EXCEPT ![m] = child[m]] ELSE rdbfile
        /\ child' = [child EXCEPT ![m] = data[m]] \/ child' = [child EXCEPT ![m] = NoChild]
        /\ faults' = faults \/ \E k : Fault(k)
    BY <1>7 DEF BgsaveDone
  <2>2. faults' \in 0 .. MaxFaults
    BY <1>0, <2>1, FaultType
  <2>3. rdbfile' \in [Servers -> Seq(Writes)]
    BY <1>0, <2>1
  <2>4. DOMAIN child' = Servers /\ \A s \in Servers : child'[s] = NoChild \/ child'[s] \in Seq(Writes)
    BY <1>0, <2>1
  <2> QED BY <1>0, <1>b, <1>t, <2>1, <2>2, <2>3, <2>4
<1>8. ASSUME NEW m \in Servers, FreeBacklog(m)  PROVE ServerTypes'
  <2>1. /\ backlog' = [backlog EXCEPT ![m] = NoBacklog] /\ runid' = runid /\ mro' = mro
        /\ writes' = writes /\ faults' = faults /\ data' = data /\ rdbfile' = rdbfile /\ child' = child
    BY <1>8 DEF FreeBacklog
  <2>2. DOMAIN backlog' = Servers
        /\ \A s \in Servers : (HasBacklog(s))' => backlog'[s] \in Seq(Writes) /\ Len(backlog'[s]) <= BacklogSize
    BY <1>0, <2>1 DEF HasBacklog
  <2> QED BY <1>0, <1>t, <2>1, <2>2
<1>9. ASSUME NEW s \in Servers, NEW m \in Servers, ReplicationSetMaster(s, m)  PROVE ServerTypes'
  <2>1. /\ backlog' = [backlog EXCEPT ![s] = NoBacklog] /\ runid' = runid /\ mro' = [mro EXCEPT ![s] = 0]
        /\ writes' = writes /\ faults' = faults /\ data' = data /\ rdbfile' = rdbfile /\ child' = child
    BY <1>9 DEF ReplicationSetMaster
  <2>2. DOMAIN backlog' = Servers
        /\ \A x \in Servers : (HasBacklog(x))' => backlog'[x] \in Seq(Writes) /\ Len(backlog'[x]) <= BacklogSize
    BY <1>0, <2>1 DEF HasBacklog
  <2> QED BY <1>0, <1>t, <2>1, <2>2
<1>10. ASSUME NEW s \in Servers, ReplicationUnsetMaster(s)  PROVE ServerTypes'
  <2>1. /\ runid' = runid /\ writes' = writes /\ faults' = faults /\ data' = data /\ rdbfile' = rdbfile /\ child' = child
        /\ \/ backlog' = [backlog EXCEPT ![s] = NoBacklog] /\ mro' = [mro EXCEPT ![s] = master[s].off]
           \/ backlog' = backlog /\ mro' = mro
    BY <1>10 DEF ReplicationUnsetMaster
  <2>2. DOMAIN backlog' = Servers
        /\ \A x \in Servers : (HasBacklog(x))' => backlog'[x] \in Seq(Writes) /\ Len(backlog'[x]) <= BacklogSize
    BY <1>0, <2>1 DEF HasBacklog
  <2>3. mro' \in [Servers -> Int]
    <3>1. master[s].off \in Int
      BY DEF Type, SlaveTypes, Positions
    <3> QED BY <1>0, <2>1, <3>1
  <2> QED BY <1>0, <1>t, <2>1, <2>2, <2>3
<1>11. ASSUME NEW s \in Servers, Restart(s)  PROVE ServerTypes'
  <2>1. /\ backlog' = [backlog EXCEPT ![s] = NoBacklog] /\ runid' = [runid EXCEPT ![s] = @ + 1] /\ mro' = [mro EXCEPT ![s] = 0]
        /\ writes' = writes /\ data' = [data EXCEPT ![s] = rdbfile[s]] /\ rdbfile' = rdbfile
        /\ child' = [child EXCEPT ![s] = NoChild] /\ Fault("restart")
    BY <1>11 DEF Restart
  <2>2. DOMAIN backlog' = Servers
        /\ \A x \in Servers : (HasBacklog(x))' => backlog'[x] \in Seq(Writes) /\ Len(backlog'[x]) <= BacklogSize
    BY <1>0, <2>1 DEF HasBacklog
  <2>3. /\ mro' \in [Servers -> Int] /\ runid' \in [Servers -> Nat] /\ data' \in [Servers -> Seq(Writes)]
        /\ DOMAIN child' = Servers /\ \A x \in Servers : child'[x] = NoChild \/ child'[x] \in Seq(Writes)
    BY <1>0, <2>1
  <2>4. faults' \in 0 .. MaxFaults
    BY <2>1, FaultType
  <2> QED BY <1>0, <1>t, <2>1, <2>2, <2>3, <2>4
<1>12. ASSUME NEW m \in Servers, NEW s \in Servers,
              SyncIgnored(m, s) \/ SyncRefused(m, s) \/ SyncPartial(m, s) \/ SyncForkFails(m, s)
                \/ SendBulk(m, s) \/ DropSlave(m, s)
       PROVE  ServerTypes'
  <2>1. UNCHANGED <<writes, serverVars>> /\ (faults' = faults \/ \E k : Fault(k))
    BY <1>12 DEF SyncIgnored, SyncRefused, SyncPartial, SyncForkFails, SendBulk, DropSlave
  <2> QED BY <1>q, <2>1
<1>13. ASSUME NEW s \in Servers,
              ConnectWithMaster(s) \/ SendPing(s) \/ SendPsync(s) \/ ReplyFull(s) \/ ReplyContinue(s) \/ FallBackToSync(s)
                \/ PsyncTimeout(s) \/ LoseMaster(s) \/ AbortTransfer(s) \/ SeeClosed(s)
       PROVE  ServerTypes'
  <2>1. UNCHANGED <<writes, serverVars>> /\ (faults' = faults \/ \E k : Fault(k))
    BY <1>13 DEF ConnectWithMaster, SendPing, SendPsync, ReplyFull, ReplyContinue, FallBackToSync, PsyncTimeout,
                 LoseMaster, AbortTransfer, SeeClosed, CloseLink
  <2> QED BY <1>q, <2>1
<1> QED BY <1>1, <1>2, <1>3, <1>4, <1>5, <1>6, <1>7, <1>8, <1>9, <1>10, <1>11, <1>12, <1>13
        DEF Step, SlaveStep, SyncCommand

LEMMA SlavesTyped ==
  ASSUME Type, Step, UNCHANGED setup
  PROVE  SlaveTypes'
<1> DEFINE States2 == {"NONE", "CONNECT", "CONNECTING", "RECEIVE_PONG", "PSYNC", "TRANSFER", "CONNECTED"}
           Fulls == [run : Runs, off : Int]
<1>0. /\ masterhost \in [Servers -> Servers \cup {None}] /\ repl_state \in [Servers -> States2]
      /\ master \in [Servers -> Positions] /\ full \in [Servers -> Fulls]
      /\ NoMaster \in Positions /\ NoFull \in Fulls
  <2>1. NoRun \in Runs /\ -2 \in Int
    BY DEF Runs
  <2> QED BY <2>1 DEF Type, SlaveTypes, NoMaster, NoFull, Positions
<1>t. ASSUME masterhost' \in [Servers -> Servers \cup {None}], repl_state' \in [Servers -> States2],
             master' \in [Servers -> Positions], full' \in [Servers -> Fulls]
      PROVE  SlaveTypes'
  BY <1>t, SameSetup DEF SlaveTypes
<1>q. ASSUME UNCHANGED slaveVars  PROVE SlaveTypes'
  <2>1. masterhost' = masterhost /\ repl_state' = repl_state /\ master' = master /\ full' = full
    BY <1>q DEF slaveVars
  <2> QED BY <1>0, <1>t, <2>1
<1> HIDE DEF Fulls
<1>1. ASSUME NEW s \in Servers, ReadUnit(s)  PROVE SlaveTypes'
  <2> DEFINE p == [master[s] EXCEPT !.off = master[s].off + 1]
  <2>1. master' = [master EXCEPT ![s] = p] /\ masterhost' = masterhost /\ repl_state' = repl_state /\ full' = full
    BY <1>1 DEF ReadUnit
  <2>2. p \in Positions
    BY <1>0 DEF Positions
  <2> HIDE DEF p
  <2> QED BY <1>0, <1>t, <2>1, <2>2
<1>2. ASSUME NEW s \in Servers, ReadBulk(s)  PROVE SlaveTypes'
  <2> DEFINE p == [run |-> full[s].run, off |-> full[s].off, pre |-> full[s].off = -1]
  <2>1. /\ master' = [master EXCEPT ![s] = p] /\ masterhost' = masterhost
        /\ repl_state' = [repl_state EXCEPT ![s] = "CONNECTED"] /\ full' = full
    BY <1>2 DEF ReadBulk
  <2>2. p \in Positions
    BY <1>0 DEF Positions, Fulls
  <2> HIDE DEF p
  <2> QED BY <1>0, <1>t, <2>1, <2>2
<1>3. ASSUME NEW s \in Servers, ReplyFull(s)  PROVE SlaveTypes'
  <2> DEFINE p == [run |-> Head(conn[s].in).run, off |-> Head(conn[s].in).off]
  <2>1. /\ full' = [full EXCEPT ![s] = p] /\ masterhost' = masterhost /\ master' = [master EXCEPT ![s] = NoMaster]
        /\ repl_state' = [repl_state EXCEPT ![s] = "TRANSFER"]
    BY <1>3 DEF ReplyFull
  <2>2. p \in Fulls
    BY <1>3, FirstLine DEF Fulls, ReplyFull
  <2> HIDE DEF p
  <2> QED BY <1>0, <1>t, <2>1, <2>2
<1>4. ASSUME NEW s \in Servers, SendPsync(s)  PROVE SlaveTypes'
  <2> DEFINE p == [full[s] EXCEPT !.off = -1]
  <2>1. /\ full' = [full EXCEPT ![s] = p] /\ masterhost' = masterhost /\ master' = master
        /\ repl_state' = [repl_state EXCEPT ![s] = "PSYNC"]
    BY <1>4 DEF SendPsync
  <2>2. p \in Fulls
    BY <1>0 DEF Fulls
  <2> HIDE DEF p
  <2> QED BY <1>0, <1>t, <2>1, <2>2
<1>5. ASSUME NEW s \in Servers, ConnectWithMaster(s) \/ SendPing(s) \/ ReplyContinue(s)  PROVE SlaveTypes'
  <2>1. /\ masterhost' = masterhost /\ master' = master /\ full' = full
        /\ \E st \in States2 : repl_state' = [repl_state EXCEPT ![s] = st]
    BY <1>5 DEF ConnectWithMaster, SendPing, ReplyContinue
  <2> QED BY <1>0, <1>t, <2>1
<1>6. ASSUME NEW s \in Servers, FallBackToSync(s) \/ PsyncTimeout(s)  PROVE SlaveTypes'
  <2>1. /\ masterhost' = masterhost /\ master' = [master EXCEPT ![s] = NoMaster] /\ full' = full
        /\ repl_state' = [repl_state EXCEPT ![s] = "TRANSFER"]
    BY <1>6 DEF FallBackToSync, PsyncTimeout
  <2> QED BY <1>0, <1>t, <2>1
<1>7. ASSUME NEW s \in Servers, LoseMaster(s) \/ AbortTransfer(s) \/ SeeClosed(s)  PROVE SlaveTypes'
  <2>1. /\ masterhost' = masterhost /\ (master' = [master EXCEPT ![s] = NoMaster] \/ master' = master) /\ full' = full
        /\ repl_state' = [repl_state EXCEPT ![s] = "CONNECT"]
    BY <1>7 DEF LoseMaster, AbortTransfer, SeeClosed, CloseLink
  <2> QED BY <1>0, <1>t, <2>1
<1>8. ASSUME NEW s \in Servers, NEW m \in Servers, ReplicationSetMaster(s, m)  PROVE SlaveTypes'
  <2>1. /\ masterhost' = [masterhost EXCEPT ![s] = m] /\ master' = [master EXCEPT ![s] = NoMaster] /\ full' = full
        /\ repl_state' = [repl_state EXCEPT ![s] = "CONNECT"]
    BY <1>8 DEF ReplicationSetMaster
  <2> QED BY <1>0, <1>t, <2>1
<1>9. ASSUME NEW s \in Servers, ReplicationUnsetMaster(s)  PROVE SlaveTypes'
  <2>1. /\ masterhost' = [masterhost EXCEPT ![s] = None] /\ master' = [master EXCEPT ![s] = NoMaster] /\ full' = full
        /\ repl_state' = [repl_state EXCEPT ![s] = "NONE"]
    BY <1>9 DEF ReplicationUnsetMaster
  <2> QED BY <1>0, <1>t, <2>1
<1>10. ASSUME NEW s \in Servers, Restart(s)  PROVE SlaveTypes'
  <2>1. /\ masterhost' = masterhost /\ master' = [master EXCEPT ![s] = NoMaster] /\ full' = [full EXCEPT ![s] = NoFull]
        /\ \E st \in {"NONE", "CONNECT"} : repl_state' = [repl_state EXCEPT ![s] = st]
    BY <1>10 DEF Restart
  <2> QED BY <1>0, <1>t, <2>1
<1>11. ASSUME NEW m \in Servers,
              \/ Write(m) \/ Bgsave(m) \/ FreeBacklog(m) \/ (\E ok \in BOOLEAN : BgsaveDone(m, ok))
              \/ \E s \in Servers : SyncCommand(m, s) \/ SendBulk(m, s) \/ DropSlave(m, s)
       PROVE  SlaveTypes'
  <2>1. UNCHANGED slaveVars
    BY <1>11 DEF Write, Bgsave, FreeBacklog, BgsaveDone, SyncCommand, SendBulk, DropSlave, SyncIgnored, SyncRefused,
                 SyncPartial, SyncForkFails, SyncDuringBgsave, SyncStartsBgsave
  <2> QED BY <1>q, <2>1
<1> QED BY <1>1, <1>2, <1>3, <1>4, <1>5, <1>6, <1>7, <1>8, <1>9, <1>10, <1>11 DEF Step, SlaveStep

LEMMA CarriesTail ==
  ASSUME NEW q \in Seq(Lines), q # <<>>, Carries(q)
  PROVE  Carries(Tail(q))
<1>1. DOMAIN Tail(q) = 1 .. Len(q) - 1 /\ DOMAIN q = 1 .. Len(q) /\ Len(q) \in Nat
      /\ \A i \in 1 .. Len(q) - 1 : Tail(q)[i] = q[i + 1]
  BY HeadTailProperties, LenProperties
<1> QED BY <1>1 DEF Carries

LEMMA CarriesConcat ==
  ASSUME NEW q \in Seq(Lines), NEW r \in Seq(Lines), Carries(q), Carries(r)
  PROVE  Carries(q \o r)
<1>1. /\ DOMAIN q = 1 .. Len(q) /\ DOMAIN r = 1 .. Len(r) /\ Len(q) \in Nat /\ Len(r) \in Nat
      /\ DOMAIN (q \o r) = 1 .. Len(q) + Len(r)
      /\ \A i \in 1 .. Len(q) + Len(r) : (q \o r)[i] = IF i <= Len(q) THEN q[i] ELSE r[i - Len(q)]
  BY ConcatProperties, LenProperties
<1>2. ASSUME NEW i \in 1 .. Len(q) + Len(r), (q \o r)[i].t = "unit"  PROVE (q \o r)[i].off \in Writes
  <2>1. CASE i <= Len(q)
    BY <1>1, <1>2, <2>1 DEF Carries
  <2>2. CASE i > Len(q)
    <3>1. i - Len(q) \in 1 .. Len(r) /\ (q \o r)[i] = r[i - Len(q)]
      BY <1>1, <2>2
    <3> QED BY <1>1, <1>2, <3>1 DEF Carries
  <2> QED BY <1>1, <2>1, <2>2
<1> QED BY <1>1, <1>2 DEF Carries

LEMMA CarriesOne ==
  ASSUME NEW l \in Lines, l.t = "unit" => l.off \in Writes
  PROVE  <<l>> \in Seq(Lines) /\ Carries(<<l>>)
BY DEF Carries

LEMMA CarriesAppend ==
  ASSUME NEW q \in Seq(Lines), NEW w \in Writes, setup \in Setups, Carries(q)
  PROVE  Carries(Append(q, Unit(w)))
<1>1. Unit(w) \in Lines /\ Unit(w).off = w
  BY LineTypes
<1>2. Append(q, Unit(w)) = q \o <<Unit(w)>>
  BY <1>1, AppendIsConcat
<1> QED BY <1>1, <1>2, CarriesOne, CarriesConcat

\* Lines a master sends carry no unit, or one write each.
LEMMA CarriesUnits ==
  ASSUME NEW q \in Seq(Lines), \A i \in 1 .. Len(q) : \E w \in Writes : q[i] = Unit(w), setup \in Setups
  PROVE  Carries(q)
<1>1. DOMAIN q = 1 .. Len(q)
  BY LenProperties
<1> QED BY <1>1, LineTypes DEF Carries

LEMMA ConnsTyped ==
  ASSUME Type, Step, UNCHANGED setup
  PROVE  conn' \in [Servers -> Conns] /\ \A x \in Servers : Carries(conn'[x].in)
<1> DEFINE Goal == conn' \in [Servers -> Conns] /\ \A x \in Servers : Carries(conn'[x].in)
<1>0. TypeOK /\ setup \in Setups
  BY TypeParts DEF Type, ServerTypes
<1>1. /\ conn \in [Servers -> Conns]
      /\ \A x \in Servers : conn[x].in \in Seq(Lines) /\ Carries(conn[x].in) /\ conn[x].obuf \in Seq(Writes)
                            /\ conn[x].snap \in Seq(Writes)
  BY <1>0, ConnTypes DEF Type
<1>2. Carries(<<>>)
  BY DEF Carries
<1>o. ASSUME NEW s \in Servers, OnlyConn(s), Carries(conn'[s].in)  PROVE Goal
  BY <1>1, <1>o DEF OnlyConn
<1>u. ASSUME UNCHANGED conn  PROVE Goal
  BY <1>1, <1>u
<1>c. ASSUME NEW s \in Servers, NEW S, Cut(s, S)  PROVE Goal
  BY <1>1, <1>2, <1>c, NoConnType DEF Cut, Closed
<1>l. Line("ERR") \in Lines /\ <<Line("ERR")>> \in Seq(Lines) /\ Carries(<<Line("ERR")>>)
      /\ Line("CONTINUE") \in Lines /\ <<Line("CONTINUE")>> \in Seq(Lines) /\ Carries(<<Line("CONTINUE")>>)
  BY <1>0, LineTypes, CarriesOne
<1>f. \A m, s \in Servers : FullReply(m, s) \in Seq(Lines) /\ Carries(FullReply(m, s))
  <2> SUFFICES ASSUME NEW m \in Servers, NEW s \in Servers  PROVE FullReply(m, s) \in Seq(Lines) /\ Carries(FullReply(m, s))
    OBVIOUS
  <2>1. /\ Run(m) \in Runs /\ FullOffset(m) \in Int /\ FullReply(m, s) \in Seq(Lines)
        /\ FullReply(m, s) = <<>> \/ FullReply(m, s) = <<FullLine(Run(m), FullOffset(m))>>
    BY <1>0, FullReplyType
  <2>2. FullLine(Run(m), FullOffset(m)) \in Lines /\ FullLine(Run(m), FullOffset(m)).t = "FULLRESYNC"
    BY <1>0, <2>1, LineTypes
  <2> QED BY <1>2, <2>1, <2>2, CarriesOne
<1>d. ASSUME NEW cn \in [Servers -> Conns], NEW m \in Servers, NEW w \in Writes, Feeds(cn, m, w),
             \A x \in Servers : Carries(cn[x].in)
      PROVE  Goal
  <2>1. ASSUME NEW x \in Servers  PROVE Carries(conn'[x].in)
    <3>1. cn[x].in \in Seq(Lines) /\ Carries(cn[x].in)
      BY <1>d DEF Conns
    <3>2. conn'[x].in = cn[x].in \/ conn'[x].in = Append(cn[x].in, Unit(w))
      BY <1>d DEF Feeds
    <3> QED BY <1>0, <3>1, <3>2, CarriesAppend
  <2> QED BY <1>d, <2>1 DEF Feeds
<1> HIDE DEF Goal
<1>3. ASSUME NEW m \in Servers, Write(m)  PROVE Goal
  <2>1. writes' \in Writes /\ Feeds(conn, m, writes')
    BY <1>0, <1>3, WriteEffect
  <2> QED BY <1>1, <1>d, <2>1
<1>4. ASSUME NEW s \in Servers, ReadUnit(s)  PROVE Goal
  <2> DEFINE w == Head(conn[s].in).off
             cn == [conn EXCEPT ![s].in = Tail(@)]
  <2>1. w \in Writes
    BY <1>4, NextUnit
  <2>2. cn \in [Servers -> Conns] /\ Feeds(cn, s, w)
        /\ \A x \in Servers : cn[x].in = IF x = s THEN Tail(conn[s].in) ELSE conn[x].in
    BY <1>0, <1>4, <2>1, ReadUnitEffect
  <2> HIDE DEF cn, w
  <2>3. Carries(Tail(conn[s].in))
    BY <1>1, <1>4, CarriesTail DEF ReadUnit
  <2> QED BY <1>1, <1>d, <2>1, <2>2, <2>3
<1>5. ASSUME NEW m \in Servers, NEW s \in Servers, SyncIgnored(m, s)  PROVE Goal
  <2>1. OnlyConn(s) /\ conn'[s].in = conn[s].in
    BY <1>0, <1>5, SyncIgnoredEffect
  <2> QED BY <1>1, <1>o, <2>1
<1>6. ASSUME NEW m \in Servers, NEW s \in Servers, SyncRefused(m, s)  PROVE Goal
  <2>1. OnlyConn(s) /\ conn'[s].in = Append(conn[s].in, Line("ERR"))
    BY <1>0, <1>6, SyncRefusedEffect
  <2>2. Append(conn[s].in, Line("ERR")) = conn[s].in \o <<Line("ERR")>>
    BY <1>1, <1>l, AppendIsConcat
  <2>3. Carries(conn'[s].in)
    BY <1>1, <1>l, <2>1, <2>2, CarriesConcat
  <2> QED BY <1>o, <2>1, <2>3
<1>7. ASSUME NEW m \in Servers, NEW s \in Servers, SyncPartial(m, s)  PROVE Goal
  <2> DEFINE b == BacklogFrom(m, Cmd(s).off)
             a == conn[s].in \o <<Line("CONTINUE")>>
  <2>1. OnlyConn(s) /\ conn'[s].in = a \o b
    BY <1>0, <1>7, SyncPartialEffect
  <2>0. conn[s].cmds # <<>> /\ PsyncAccepted(m, s)
    BY <1>7 DEF SyncPartial, SyncServed, SyncRequest
  <2>2. /\ b \in Seq(Lines) /\ backlog[m] \in Seq(Writes)
        /\ \E n \in 0 .. Len(backlog[m]) : Len(b) = n /\ \A i \in 1 .. n : b[i] = Unit(backlog[m][Len(backlog[m]) - n + i])
    BY <1>0, <2>0, BacklogFromType
  <2> HIDE DEF b
  <2>3. \A i \in 1 .. Len(b) : \E w \in Writes : b[i] = Unit(w)
    <3>1. PICK n \in 0 .. Len(backlog[m]) : Len(b) = n /\ \A i \in 1 .. n : b[i] = Unit(backlog[m][Len(backlog[m]) - n + i])
      BY <2>2
    <3>2. \A i \in 1 .. n : Len(backlog[m]) - n + i \in 1 .. Len(backlog[m])
      BY <2>2
    <3>3. \A i \in 1 .. n : backlog[m][Len(backlog[m]) - n + i] \in Writes
      BY <2>2, <3>2, ElementOfSeq
    <3> QED BY <3>1, <3>3
  <2>4. Carries(b) /\ a \in Seq(Lines) /\ Carries(a)
    <3> DEFINE q == conn[s].in
               l == <<Line("CONTINUE")>>
    <3>1. q \in Seq(Lines) /\ Carries(q) /\ l \in Seq(Lines) /\ Carries(l) /\ a = q \o l
      BY <1>1, <1>l
    <3> HIDE DEF a, q, l
    <3>2. Carries(b)
      BY <1>0, <2>2, <2>3, CarriesUnits
    <3> QED BY <3>1, <3>2, CarriesConcat, ConcatProperties
  <2>5. Carries(a \o b)
    BY <2>2, <2>4, CarriesConcat
  <2> QED BY <1>o, <2>1, <2>5
<1>8. ASSUME NEW m \in Servers, NEW s \in Servers, NEW st \in States, NEW ob \in Seq(Writes),
             SyncRequest(m, s), AttachSlave(m, s, st, ob)
      PROVE  Goal
  <2>1. OnlyConn(s) /\ conn'[s].in = conn[s].in \o FullReply(m, s)
    BY <1>0, <1>8, AttachSlaveEffect
  <2>2. Carries(conn'[s].in)
    BY <1>1, <1>f, <2>1, CarriesConcat
  <2> QED BY <1>o, <2>1, <2>2
<1>9. ASSUME NEW m \in Servers, NEW s \in Servers, SyncDuringBgsave(m, s) \/ SyncStartsBgsave(m, s)  PROVE Goal
  <2>1. SyncRequest(m, s) /\ \E st \in States, ob \in Seq(Writes) : AttachSlave(m, s, st, ob)
    <3>1. <<>> \in Seq(Writes) /\ {"WAIT_BGSAVE_START", "WAIT_BGSAVE_END"} \subseteq States
      BY DEF States
    <3>2. CASE SyncStartsBgsave(m, s)
      BY <3>1, <3>2 DEF SyncStartsBgsave, SyncServed
    <3>3. CASE SyncDuringBgsave(m, s)
      <4>1. SyncRequest(m, s)
        BY <3>3 DEF SyncDuringBgsave, SyncServed
      <4>2. \/ \E x \in Servers : AttachSlave(m, s, "WAIT_BGSAVE_END", conn[x].obuf)
            \/ AttachSlave(m, s, "WAIT_BGSAVE_START", <<>>)
        BY <3>3 DEF SyncDuringBgsave, Slaves
      <4> QED BY <1>1, <3>1, <4>1, <4>2
    <3> QED BY <1>9, <3>2, <3>3
  <2> QED BY <1>8, <2>1
<1>10. ASSUME NEW m \in Servers, NEW s \in Servers, SyncForkFails(m, s)  PROVE Goal
  <2> DEFINE a == conn[s].in \o FullReply(m, s)
  <2>1. OnlyConn(s) /\ conn'[s].in = a \o <<Line("ERR")>>
    BY <1>0, <1>10, SyncForkFailsEffect
  <2>2. a \in Seq(Lines) /\ Carries(a)
    BY <1>1, <1>f, CarriesConcat
  <2>3. Carries(conn'[s].in)
    BY <1>l, <2>1, <2>2, CarriesConcat
  <2> QED BY <1>o, <2>1, <2>3
<1>11. ASSUME NEW m \in Servers, Bgsave(m) \/ FreeBacklog(m)  PROVE Goal
  BY <1>11, <1>u DEF Bgsave, FreeBacklog
<1>12. ASSUME NEW m \in Servers, NEW ok \in BOOLEAN, BgsaveDone(m, ok)  PROVE Goal
  <2>1. conn' = [x \in Servers |-> AfterBgsave(m, conn[x], ok, child[m])]
    BY <1>12 DEF BgsaveDone
  <2>2. child[m] \in Seq(Writes)
    BY <1>12 DEF BgsaveDone, Type, ServerTypes
  <2>3. ASSUME NEW x \in Servers
        PROVE  /\ AfterBgsave(m, conn[x], ok, child[m]) \in Conns
               /\ AfterBgsave(m, conn[x], ok, child[m]).in = conn[x].in
    <3> DEFINE c == conn[x]
               file == child[m]
               d == AfterBgsave(m, c, ok, file)
    <3>1. c \in Conns /\ file \in Seq(Writes)
      BY <1>1, <2>2
    <3> HIDE DEF c, file
    <3>2. BgsaveEnded(m, c, ok, file, d)
      BY <3>1, AfterBgsaveFields
    <3> HIDE DEF d
    <3> QED BY <3>2 DEF c, d, file, BgsaveEnded
  <2> QED BY <1>1, <2>1, <2>3 DEF Goal
<1>13. ASSUME NEW m \in Servers, NEW s \in Servers, SendBulk(m, s)  PROVE Goal
  <2> DEFINE us == [i \in DOMAIN conn[s].obuf |-> Unit(conn[s].obuf[i])]
             a == conn[s].in \o <<Bulk(conn[s].snap)>>
  <2>1. OnlyConn(s) /\ conn'[s].in = a \o us /\ us \in Seq(Lines) /\ Len(us) = Len(conn[s].obuf)
    BY <1>0, <1>13, SendBulkEffect
  <2>2. \A i \in 1 .. Len(us) : us[i] = Unit(conn[s].obuf[i]) /\ conn[s].obuf[i] \in Writes
    BY <1>1, <2>1, ElementOfSeq, LenProperties
  <2> HIDE DEF us
  <2>3. Carries(us)
    BY <1>0, <2>1, <2>2, CarriesUnits
  <2>4. Bulk(conn[s].snap) \in Lines /\ Bulk(conn[s].snap).t = "bulk"
    BY <1>0, <1>1, LineTypes
  <2>5. <<Bulk(conn[s].snap)>> \in Seq(Lines) /\ Carries(<<Bulk(conn[s].snap)>>)
    BY <2>4, CarriesOne
  <2>6. a \in Seq(Lines) /\ Carries(a)
    <3> DEFINE q == conn[s].in
               b == <<Bulk(conn[s].snap)>>
    <3>1. q \in Seq(Lines) /\ Carries(q) /\ b \in Seq(Lines) /\ Carries(b) /\ a = q \o b
      BY <1>1, <2>5
    <3> HIDE DEF a, q, b
    <3> QED BY <3>1, CarriesConcat, ConcatProperties
  <2> HIDE DEF a
  <2>7. Carries(a \o us)
    BY <2>1, <2>3, <2>6, CarriesConcat
  <2> QED BY <1>o, <2>1, <2>7
<1>14. ASSUME NEW m \in Servers, NEW s \in Servers, DropSlave(m, s)  PROVE Goal
  <2>1. OnlyConn(s) /\ conn'[s].in = conn[s].in
    BY <1>0, <1>14, DropEffect DEF Closed
  <2> QED BY <1>1, <1>o, <2>1
<1>15. ASSUME NEW s \in Servers, LoseMaster(s) \/ SeeClosed(s) \/ AbortTransfer(s)  PROVE Goal
  <2>1. CloseLink(s)
    BY <1>15 DEF LoseMaster, SeeClosed, AbortTransfer
  <2> QED BY <1>0, <1>c, <2>1, CloseLinkEffect
<1>16. ASSUME NEW s \in Servers, ConnectWithMaster(s)  PROVE Goal
  BY <1>0, <1>2, <1>16, <1>o, ConnectEffect
<1>17. ASSUME NEW s \in Servers, SendPing(s)  PROVE Goal
  BY <1>17, <1>u DEF SendPing
<1>18. ASSUME NEW s \in Servers, SendPsync(s) \/ PsyncTimeout(s)  PROVE Goal
  <2>1. PICK r \in Requests : conn' = [conn EXCEPT ![s].cmds = Append(@, r)]
    BY <1>0, <1>18, RequestTypes DEF SendPsync, PsyncTimeout
  <2>2. OnlyConn(s) /\ conn'[s].in = conn[s].in
    BY <1>0, <2>1, AskEffect
  <2> QED BY <1>1, <1>o, <2>2
<1>19. ASSUME NEW s \in Servers, ReplyFull(s) \/ ReplyContinue(s) \/ ReadBulk(s)  PROVE Goal
  <2>1. conn' = [conn EXCEPT ![s].in = Tail(@)] /\ conn[s].in # <<>>
    BY <1>19 DEF ReplyFull, ReplyContinue, ReadBulk
  <2>2. OnlyConn(s) /\ conn'[s].in = Tail(conn[s].in)
    BY <1>0, <2>1, TailEffect
  <2> QED BY <1>1, <1>o, <2>1, <2>2, CarriesTail
<1>20. ASSUME NEW s \in Servers, FallBackToSync(s)  PROVE Goal
  <2>1. OnlyConn(s) /\ conn'[s].in = Tail(conn[s].in) /\ conn[s].in # <<>>
    BY <1>0, <1>20, FallBackEffect DEF FallBackToSync
  <2> QED BY <1>1, <1>o, <2>1, CarriesTail
<1>21. ASSUME NEW s \in Servers, NEW m \in Servers, ReplicationSetMaster(s, m)  PROVE Goal
  <2>1. conn' = [ClosedByMaster(conn, Slaves(s)) EXCEPT ![s] = NoConn]
    BY <1>21 DEF ReplicationSetMaster
  <2> QED BY <1>0, <1>c, <2>1, CutEffect
<1>22. ASSUME NEW s \in Servers, ReplicationUnsetMaster(s)  PROVE Goal
  <2>1. conn' = [conn EXCEPT ![s] = NoConn]
    BY <1>22 DEF ReplicationUnsetMaster
  <2> QED BY <1>0, <1>c, <2>1, CutEffect
<1>23. ASSUME NEW s \in Servers, Restart(s)  PROVE Goal
  <2>1. conn' = [ClosedByMaster(conn, {x \in Servers : conn[x].to = s}) EXCEPT ![s] = NoConn]
    BY <1>23 DEF Restart
  <2> QED BY <1>0, <1>c, <2>1, CutEffect
<1> QED
  <2>1. Goal
    BY <1>3, <1>4, <1>5, <1>6, <1>7, <1>9, <1>10, <1>11, <1>12, <1>13, <1>14, <1>15, <1>16, <1>17, <1>18, <1>19, <1>20,
       <1>21, <1>22, <1>23 DEF Step, SlaveStep, SyncCommand
  <2> QED BY <2>1 DEF Goal

LEMMA TypeStep ==
  ASSUME Type, [Next]_vars
  PROVE  Type'
<1>1. CASE Next
  <2>1. Step /\ setup' = setup
    BY <1>1 DEF Next
  <2>2. ServerTypes' /\ SlaveTypes' /\ conn' \in [Servers -> Conns] /\ \A x \in Servers : Carries(conn'[x].in)
    BY <2>1, ServersTyped, SlavesTyped, ConnsTyped
  <2> QED BY <2>1, <2>2, SameSetup DEF Type, Carries
<1>2. CASE UNCHANGED vars
  BY <1>2 DEF vars, Type, ServerTypes, SlaveTypes, Servers, Writes, Runs, Lines, Conns, Positions, Requests, States,
              InitialMaster, MaxWrites, MaxFaults, BacklogSize, HasBacklog, Carries
<1> QED BY <1>1, <1>2

\* Every variable keeps its type; the least obvious part is that the backlog never
\* outgrows repl-backlog-size and that only writes travel as units.
THEOREM TypeCorrect == Spec => []TypeOK
<1>1. Spec => []Type
  BY InitType, TypeStep, PTL DEF Spec
<1> QED BY <1>1, TypeParts, PTL

----------------------------------------------------------------------------
(* Who is connected with whom, and in which order lines are sent.          *)

Control(s) ==
  LET c == conn[s]  st == repl_state[s]
  IN  /\ (masterhost[s] = None) <=> (st = "NONE")
      /\ c.to = None => ~Attached(c) /\ st \in {"NONE", "CONNECT"}
      /\ c.to # None => c.to = masterhost[s] /\ st \notin {"NONE", "CONNECT"}
      /\ Attached(c) => c.up
      /\ st \in {"CONNECTING", "RECEIVE_PONG"} => c.cmds = <<>> /\ c.in = <<>> /\ ~Attached(c)

\* Neither units nor a bulk; after the first of those, units only.
Quiet(q)   == \A i \in DOMAIN q : q[i].t \notin {"unit", "bulk"}
InOrder(q) == \A i, j \in DOMAIN q : i < j /\ q[i].t \in {"unit", "bulk"} => q[j].t = "unit"
Ordered(c) == InOrder(c.in) /\ (c.up /\ ~Online(c) => Quiet(c.in))

Ready(m)   == HasBacklog(m) /\ (masterhost[m] # None => repl_state[m] = "CONNECTED")
Waiting(c) == c.replstate \in {"WAIT_BGSAVE_START", "WAIT_BGSAVE_END"}

\* A slave's master has a backlog and its own link; the BGSAVE waited for is
\* running, unless the fork of one that other slaves wait for may fail.
Served(s)  == Attached(conn[s]) => Ready(conn[s].to)
Waits(s)   == ~(OverlapBgsave /\ "fork" \in Faults) /\ Waiting(conn[s]) => child[conn[s].to] # NoChild
Once(s)    == ~OverlapBgsave => conn[s].replstate # "WAIT_BGSAVE_START"

Ctl(s) == Control(s) /\ Ordered(conn[s]) /\ Served(s) /\ Waits(s) /\ Once(s)
Connections == \A s \in Servers : Ctl(s)

LEMMA OrderTail ==
  ASSUME NEW q \in Seq(Lines), q # <<>>
  PROVE  (InOrder(q) => InOrder(Tail(q))) /\ (Quiet(q) => Quiet(Tail(q)))
<1>1. DOMAIN Tail(q) = 1 .. Len(q) - 1 /\ DOMAIN q = 1 .. Len(q) /\ Len(q) \in Nat
      /\ \A i \in 1 .. Len(q) - 1 : Tail(q)[i] = q[i + 1]
  BY HeadTailProperties, LenProperties
<1> QED BY <1>1 DEF InOrder, Quiet

LEMMA OrderConcat ==
  ASSUME NEW q \in Seq(Lines), NEW r \in Seq(Lines), Quiet(q)
  PROVE  (InOrder(r) => InOrder(q \o r)) /\ (Quiet(r) => Quiet(q \o r))
<1>1. /\ DOMAIN q = 1 .. Len(q) /\ DOMAIN r = 1 .. Len(r) /\ Len(q) \in Nat /\ Len(r) \in Nat
      /\ DOMAIN (q \o r) = 1 .. Len(q) + Len(r)
      /\ \A i \in 1 .. Len(q) + Len(r) : (q \o r)[i] = IF i <= Len(q) THEN q[i] ELSE r[i - Len(q)]
  BY ConcatProperties, LenProperties
<1>2. \A i \in DOMAIN (q \o r) :
        (q \o r)[i].t \notin {"unit", "bulk"} \/ (i > Len(q) /\ i - Len(q) \in DOMAIN r /\ (q \o r)[i] = r[i - Len(q)])
  BY <1>1 DEF Quiet
<1>3. ASSUME InOrder(r)  PROVE InOrder(q \o r)
  <2> SUFFICES ASSUME NEW i \in DOMAIN (q \o r), NEW j \in DOMAIN (q \o r), i < j, (q \o r)[i].t \in {"unit", "bulk"}
               PROVE  (q \o r)[j].t = "unit"
    BY DEF InOrder
  <2>1. i > Len(q) /\ i - Len(q) \in DOMAIN r /\ (q \o r)[i] = r[i - Len(q)]
    BY <1>2
  <2>2. j > Len(q) /\ j - Len(q) \in DOMAIN r /\ (q \o r)[j] = r[j - Len(q)] /\ i - Len(q) < j - Len(q)
    BY <1>1, <2>1
  <2> QED BY <1>3, <2>1, <2>2 DEF InOrder
<1>4. ASSUME Quiet(r)  PROVE Quiet(q \o r)
  BY <1>2, <1>4 DEF Quiet
<1> QED BY <1>3, <1>4

LEMMA OrderUnit ==
  ASSUME NEW q \in Seq(Lines), NEW l \in Lines, l.t = "unit", InOrder(q)
  PROVE  InOrder(Append(q, l))
<1>1. /\ DOMAIN q = 1 .. Len(q) /\ Len(q) \in Nat /\ DOMAIN Append(q, l) = 1 .. Len(q) + 1
      /\ \A i \in 1 .. Len(q) : Append(q, l)[i] = q[i]
      /\ Append(q, l)[Len(q) + 1] = l
  BY AppendProperties, LenProperties
<1> QED BY <1>1 DEF InOrder

LEMMA OrderUnits ==
  ASSUME NEW q \in Seq(Lines), \A i \in 1 .. Len(q) : q[i].t = "unit"
  PROVE  InOrder(q)
<1>1. DOMAIN q = 1 .. Len(q)
  BY LenProperties
<1> QED BY <1>1 DEF InOrder

LEMMA OrderOne ==
  ASSUME NEW l \in Lines
  PROVE  <<l>> \in Seq(Lines) /\ InOrder(<<l>>) /\ (l.t \notin {"unit", "bulk"} => Quiet(<<l>>))
BY DEF InOrder, Quiet

LEMMA OrderEmpty == InOrder(<<>>) /\ Quiet(<<>>)
BY DEF InOrder, Quiet

\* What the masters of a connection must not lose.
Steady(m) == (Ready(m) => Ready(m)') /\ (child[m] # NoChild => child'[m] # NoChild)

\* Nothing but units from its master reaches x.
Untouched(x, w) ==
  /\ repl_state'[x] = repl_state[x] /\ masterhost'[x] = masterhost[x]
  /\ conn'[x].to = conn[x].to /\ conn'[x].up = conn[x].up /\ conn'[x].cmds = conn[x].cmds
  /\ conn'[x].replstate = conn[x].replstate
  /\ conn'[x].in = conn[x].in \/ (Online(conn[x]) /\ conn'[x].in = Append(conn[x].in, Unit(w)))

LEMMA CtlUntouched ==
  ASSUME Type, setup' = setup, NEW x \in Servers, Ctl(x), NEW w, Untouched(x, w),
         w \in Writes \/ conn'[x].in = conn[x].in,
         Attached(conn[x]) => Steady(conn[x].to)
  PROVE  Ctl(x)'
<1>1. Control(x)'
  BY DEF Ctl, Control, Untouched, Attached, Online
<1>2. Ordered(conn'[x])
  <2>1. conn[x].in \in Seq(Lines) /\ (w \in Writes => Unit(w) \in Lines /\ Unit(w).t = "unit")
    BY TypeParts, ConnTypes, LineTypes DEF Type, ServerTypes
  <2> QED BY <2>1, OrderUnit DEF Ctl, Ordered, Untouched, Online
<1>3. Served(x)' /\ Waits(x)' /\ Once(x)'
  <2>1. OverlapBgsave' = OverlapBgsave /\ Faults' = Faults
    BY DEF OverlapBgsave, Faults
  <2>2. Waiting(conn[x]) => Attached(conn[x])
    BY DEF Waiting, Attached
  <2> QED BY <2>1, <2>2 DEF Ctl, Served, Waits, Once, Untouched, Steady, Attached, Waiting
<1> QED BY <1>1, <1>2, <1>3 DEF Ctl

LEMMA CtlClosed ==
  ASSUME Type, setup' = setup, NEW x \in Servers, Ctl(x), Closed(conn[x], conn'[x]),
         repl_state'[x] = repl_state[x], masterhost'[x] = masterhost[x]
  PROVE  Ctl(x)'
<1>1. Control(x)'
  BY DEF Ctl, Control, Closed, Attached
<1>2. Ordered(conn'[x])
  BY DEF Ctl, Ordered, Closed
<1>3. Served(x)' /\ Waits(x)' /\ Once(x)'
  BY DEF Served, Waits, Once, Closed, Attached, Waiting
<1> QED BY <1>1, <1>2, <1>3 DEF Ctl

LEMMA CtlCut ==
  ASSUME Type, setup' = setup, NEW s \in Servers, conn'[s] = NoConn,
         repl_state'[s] = IF masterhost'[s] = None THEN "NONE" ELSE "CONNECT"
  PROVE  Ctl(s)'
<1>1. Control(s)'
  BY NoConnType DEF Control, Attached
<1>2. Ordered(conn'[s])
  BY NoConnType, OrderEmpty DEF Ordered
<1>3. Served(s)' /\ Waits(s)' /\ Once(s)'
  BY NoConnType DEF Served, Waits, Once, Attached, Waiting
<1> QED BY <1>1, <1>2, <1>3 DEF Ctl

LEMMA InitCtl == Init => Connections
<1> SUFFICES ASSUME Init, NEW s \in Servers PROVE Ctl(s)
  BY DEF Connections
<1>0. conn[s] = NoConn /\ masterhost = InitialMaster
      /\ repl_state[s] = IF InitialMaster[s] = None THEN "NONE" ELSE "CONNECT"
  BY DEF Init
<1>1. Control(s)
  BY <1>0, NoConnType DEF Control, Attached
<1>2. Ordered(conn[s])
  BY <1>0, NoConnType, OrderEmpty DEF Ordered
<1>3. Served(s) /\ Waits(s) /\ Once(s)
  BY <1>0, NoConnType DEF Served, Waits, Once, Attached, Waiting
<1> QED BY <1>1, <1>2, <1>3 DEF Ctl

LEMMA CtlSent ==
  ASSUME Type, setup' = setup, Connections, NEW s \in Servers, OnlyConn(s), conn'[s].to \in Servers,
         UNCHANGED <<masterhost, repl_state>>, \A m \in Servers : Steady(m), NEW ls \in Seq(Lines),
         conn'[s].to = conn[s].to, conn'[s].up, conn[s].up, ~Attached(conn[s]), conn[s].cmds # <<>>,
         conn'[s].in = conn[s].in \o ls, InOrder(ls), Online(conn'[s]) \/ Quiet(ls),
         Attached(conn'[s]) => (Ready(conn[s].to))', Waiting(conn'[s]) => child'[conn[s].to] # NoChild, (Once(s))'
  PROVE  Connections'
<1>1. Ctl(s) /\ conn[s].in \in Seq(Lines)
  BY TypeParts, ConnTypes DEF Connections
<1>2. Control(s)'
  <2>1. None \notin Servers /\ masterhost'[s] = masterhost[s] /\ repl_state'[s] = repl_state[s]
    BY SetupTypes DEF Type, ServerTypes
  <2> QED BY <1>1, <2>1 DEF Ctl, Control, Attached
<1>3. Ordered(conn'[s])
  <2>1. Quiet(conn[s].in)
    BY <1>1 DEF Ctl, Ordered, Attached, Online
  <2> QED BY <1>1, <2>1, OrderConcat DEF Ordered
<1>4. Ctl(s)'
  <2>1. Served(s)'
    BY DEF Served
  <2>2. Waits(s)'
    BY DEF Waits
  <2>3. Ordered(conn[s])'
    BY <1>3
  <2> QED BY <1>2, <2>1, <2>2, <2>3 DEF Ctl
<1>5. ASSUME NEW x \in Servers \ {s}  PROVE Ctl(x)'
  <2>1. Ctl(x) /\ Untouched(x, 0) /\ conn'[x].in = conn[x].in
    BY DEF Connections, OnlyConn, Untouched
  <2>2. Attached(conn[x]) => conn[x].to \in Servers
    BY <2>1, TypeParts, ConnTypes DEF Ctl, Control
  <2> QED BY <2>1, <2>2, CtlUntouched
<1> QED BY <1>4, <1>5, SameSetup DEF Connections

\* A step of s alone, which has no slaves unless it stays connected.
LEMMA CtlOwn ==
  ASSUME Type, setup' = setup, Connections, NEW s \in Servers, OnlyConn(s), (Ctl(s))',
         \A x \in Servers \ {s} : repl_state'[x] = repl_state[x] /\ masterhost'[x] = masterhost[x],
         \A x \in Servers : Attached(conn[x]) => Steady(conn[x].to)
  PROVE  Connections'
<1>5. ASSUME NEW x \in Servers \ {s}  PROVE Ctl(x)'
  <2>1. Ctl(x) /\ Untouched(x, 0) /\ conn'[x].in = conn[x].in
    BY DEF Connections, OnlyConn, Untouched
  <2> QED BY <2>1, CtlUntouched
<1> QED BY <1>5, SameSetup DEF Connections

LEMMA AttachedTo ==
  ASSUME Type, Connections, NEW x \in Servers, Attached(conn[x])
  PROVE  conn[x].to \in Servers /\ Ready(conn[x].to)
BY TypeParts, ConnTypes DEF Connections, Ctl, Control, Served

\* Nothing a slave relies on changes.
LEMMA SteadyQuiet ==
  ASSUME UNCHANGED <<masterhost, repl_state, backlog, child>>
  PROVE  \A m \in Servers : Steady(m)
BY DEF Steady, Ready, HasBacklog

\* s changes its state, and was not serving slaves or still is.
LEMMA SteadyState ==
  ASSUME Type, Connections, NEW s \in Servers, UNCHANGED <<masterhost, backlog, child>>,
         \A x \in Servers \ {s} : repl_state'[x] = repl_state[x],
         repl_state[s] # "NONE", repl_state[s] # "CONNECTED" \/ repl_state'[s] = "CONNECTED"
  PROVE  \A m \in Servers : Steady(m)
<1>1. masterhost[s] # None
  BY DEF Connections, Ctl, Control
<1>2. Ready(s) => Ready(s)'
  BY <1>1 DEF Ready, HasBacklog
<1>3. ASSUME NEW m \in Servers \ {s}  PROVE Ready(m) => Ready(m)'
  BY DEF Ready, HasBacklog
<1> QED BY <1>2, <1>3 DEF Steady

LEMMA CtlAnswer ==
  ASSUME Type, Connections, setup' = setup, NEW m \in Servers, NEW s \in Servers, SyncCommand(m, s)
  PROVE  Connections'
<1>0. TypeOK /\ setup \in Setups /\ Ctl(s)
  BY TypeParts DEF Type, ServerTypes, Connections
<1>r. /\ conn[s].to = m /\ conn[s].up /\ conn[s].cmds # <<>> /\ conn[s].in \in Seq(Lines)
      /\ masterhost' = masterhost /\ repl_state' = repl_state
      /\ conn[s].replstate \in States
  <2>1. SyncRequest(m, s) /\ UNCHANGED slaveVars
    BY DEF SyncCommand, SyncIgnored, SyncRefused, SyncPartial, SyncForkFails, SyncDuringBgsave, SyncStartsBgsave, SyncServed
  <2> QED BY <1>0, <2>1, ConnTypes DEF SyncRequest, slaveVars
<1>l. /\ <<Line("ERR")>> \in Seq(Lines) /\ InOrder(<<Line("ERR")>>) /\ Quiet(<<Line("ERR")>>)
      /\ <<Line("CONTINUE")>> \in Seq(Lines) /\ Quiet(<<Line("CONTINUE")>>)
      /\ \A q \in Seq(Lines) : Append(q, Line("ERR")) = q \o <<Line("ERR")>>
  <2>1. \A t \in {"CONTINUE", "ERR"} : Line(t) \in Lines /\ Line(t).t = t
    BY <1>0, LineTypes
  <2> QED BY <2>1, OrderOne, AppendIsConcat
<1>f. FullReply(m, s) \in Seq(Lines) /\ InOrder(FullReply(m, s)) /\ Quiet(FullReply(m, s))
  <2>1. /\ Run(m) \in Runs /\ FullOffset(m) \in Int
        /\ FullReply(m, s) = <<>> \/ FullReply(m, s) = <<FullLine(Run(m), FullOffset(m))>>
    BY <1>0, FullReplyType
  <2>2. FullLine(Run(m), FullOffset(m)) \in Lines /\ FullLine(Run(m), FullOffset(m)).t = "FULLRESYNC"
    BY <1>0, <2>1, LineTypes
  <2>3. <<>> \in Seq(Lines)
    OBVIOUS
  <2> QED BY <2>1, <2>2, <2>3, OrderOne, OrderEmpty
<1>n. conn[s].replstate = "NONE" => ~Attached(conn[s])
  BY DEF Attached
<1>1. CASE SyncIgnored(m, s)
  <2>1. /\ OnlyConn(s) /\ conn'[s].to = conn[s].to /\ conn'[s].up = conn[s].up /\ conn'[s].in = conn[s].in
        /\ conn'[s].replstate = conn[s].replstate
    BY <1>0, <1>1, SyncIgnoredEffect
  <2>2. /\ backlog' = backlog /\ child' = child /\ Attached(conn[s])
    BY <1>1 DEF SyncIgnored, serverVars, Attached
  <2>3. \A x \in Servers : Steady(x)
    BY <1>r, <2>2, SteadyQuiet
  <2>4. Control(s)'
    BY <1>0, <1>r, <2>1, <2>2 DEF Ctl, Control, Attached
  <2>5. Ordered(conn[s])'
    BY <1>0, <2>1 DEF Ctl, Ordered, Online
  <2>6. Served(s)' /\ Waits(s)' /\ Once(s)'
    <3>1. OverlapBgsave' = OverlapBgsave /\ Faults' = Faults
      BY DEF OverlapBgsave, Faults
    <3> QED BY <1>0, <1>r, <2>1, <2>2, <2>3, <3>1 DEF Ctl, Served, Waits, Once, Steady, Attached, Waiting
  <2>7. Ctl(s)'
    BY <2>4, <2>5, <2>6 DEF Ctl
  <2>8. \A x \in Servers : Attached(conn[x]) => Steady(conn[x].to)
    BY <2>3, AttachedTo
  <2> QED BY <1>r, <2>1, <2>7, <2>8, CtlOwn
<1>2. CASE SyncRefused(m, s)
  <2>1. /\ OnlyConn(s) /\ conn'[s].to = conn[s].to /\ conn'[s].up = conn[s].up
        /\ conn'[s].in = conn[s].in \o <<Line("ERR")>> /\ conn'[s].replstate = conn[s].replstate
    BY <1>0, <1>2, <1>l, <1>r, SyncRefusedEffect
  <2>2. /\ backlog' = backlog /\ child' = child /\ conn[s].replstate = "NONE"
    BY <1>2 DEF SyncRefused, serverVars
  <2>3. ~Attached(conn'[s]) /\ ~Waiting(conn'[s]) /\ Once(s)'
    BY <2>1, <2>2 DEF Attached, Waiting, Once
  <2> QED BY <1>l, <1>n, <1>r, <2>1, <2>2, <2>3, CtlSent, SteadyQuiet
<1>3. CASE SyncForkFails(m, s)
  <2> DEFINE ls == FullReply(m, s) \o <<Line("ERR")>>
  <2>1. /\ OnlyConn(s) /\ conn'[s].to = conn[s].to /\ conn'[s].up = conn[s].up
        /\ conn'[s].in = conn[s].in \o FullReply(m, s) \o <<Line("ERR")>> /\ conn'[s].replstate = conn[s].replstate
    BY <1>0, <1>3, SyncForkFailsEffect
  <2>2. /\ backlog' = backlog /\ child' = child /\ conn[s].replstate = "NONE"
    BY <1>3 DEF SyncForkFails, SyncServed, serverVars
  <2>3. ~Attached(conn'[s]) /\ ~Waiting(conn'[s]) /\ Once(s)'
    BY <2>1, <2>2 DEF Attached, Waiting, Once
  <2>4. ls \in Seq(Lines) /\ InOrder(ls) /\ Quiet(ls) /\ conn'[s].in = conn[s].in \o ls
    <3> DEFINE a == FullReply(m, s)
               b == <<Line("ERR")>>
               q == conn[s].in
    <3>1. /\ a \in Seq(Lines) /\ InOrder(a) /\ Quiet(a) /\ b \in Seq(Lines) /\ InOrder(b) /\ Quiet(b)
          /\ q \in Seq(Lines) /\ conn'[s].in = (q \o a) \o b /\ ls = a \o b
      BY <1>f, <1>l, <1>r, <2>1
    <3> HIDE DEF a, b, q, ls
    <3>2. ls \in Seq(Lines) /\ InOrder(ls) /\ Quiet(ls)
      BY <3>1, OrderConcat, ConcatProperties
    <3>3. (q \o a) \o b = q \o (a \o b)
      BY <3>1, ConcatAssociative
    <3> QED BY <3>1, <3>2, <3>3 DEF q
  <2> HIDE DEF ls
  <2> QED BY <1>n, <1>r, <2>1, <2>2, <2>3, <2>4, CtlSent, SteadyQuiet
<1>4. CASE SyncPartial(m, s)
  <2> DEFINE b == BacklogFrom(m, Cmd(s).off)
             l == <<Line("CONTINUE")>>
             ls == l \o b
             q == conn[s].in
  <2>1. /\ OnlyConn(s) /\ conn'[s].to = conn[s].to /\ conn'[s].up = conn[s].up
        /\ conn'[s].in = (q \o l) \o b /\ conn'[s].replstate = "ONLINE"
    BY <1>0, <1>4, SyncPartialEffect
  <2>2. /\ backlog' = backlog /\ child' = child /\ conn[s].replstate = "NONE" /\ PsyncAccepted(m, s)
        /\ masterhost[m] = None \/ repl_state[m] = "CONNECTED"
    BY <1>4 DEF SyncPartial, SyncServed, serverVars
  <2>3. /\ b \in Seq(Lines) /\ backlog[m] \in Seq(Writes)
        /\ \E n \in 0 .. Len(backlog[m]) : Len(b) = n /\ \A i \in 1 .. n : b[i] = Unit(backlog[m][Len(backlog[m]) - n + i])
    BY <1>0, <1>r, <2>2, BacklogFromType
  <2> HIDE DEF b
  <2>4. \A i \in 1 .. Len(b) : b[i].t = "unit"
    <3>1. PICK n \in 0 .. Len(backlog[m]) : Len(b) = n /\ \A i \in 1 .. n : b[i] = Unit(backlog[m][Len(backlog[m]) - n + i])
      BY <2>3
    <3>2. \A i \in 1 .. n : Len(backlog[m]) - n + i \in 1 .. Len(backlog[m])
      BY <2>3
    <3>3. \A i \in 1 .. n : backlog[m][Len(backlog[m]) - n + i] \in Writes
      BY <2>3, <3>2, ElementOfSeq
    <3> QED BY <1>0, <3>1, <3>3, LineTypes
  <2>5. ls \in Seq(Lines) /\ InOrder(ls) /\ conn'[s].in = q \o ls
    <3>1. l \in Seq(Lines) /\ Quiet(l) /\ q \in Seq(Lines)
      BY <1>l, <1>r
    <3> HIDE DEF l, q
    <3>2. InOrder(b)
      BY <2>3, <2>4, OrderUnits
    <3>3. ls \in Seq(Lines) /\ InOrder(ls)
      BY <2>3, <3>1, <3>2, OrderConcat, ConcatProperties
    <3> QED BY <2>1, <2>3, <3>1, <3>3, ConcatAssociative
  <2>6. Online(conn'[s]) /\ ~Waiting(conn'[s]) /\ Once(s)'
    BY <2>1 DEF Online, Waiting, Once
  <2>7. Ready(m)'
    BY <1>r, <2>2 DEF Ready, HasBacklog, PsyncAccepted
  <2>8. Attached(conn'[s]) => (Ready(conn[s].to))'
    BY <1>r, <2>1, <2>7
  <2> HIDE DEF ls
  <2> QED BY <1>n, <1>r, <2>1, <2>2, <2>5, <2>6, <2>8, CtlSent, SteadyQuiet
<1>a. ASSUME NEW st \in States, NEW ob \in Seq(Writes), AttachSlave(m, s, st, ob), SyncServed(m, s),
             \A x \in Servers : child[x] # NoChild => child'[x] # NoChild, child'[m] # NoChild,
             ~OverlapBgsave => st # "WAIT_BGSAVE_START"
      PROVE  Connections'
  <2>1. SyncRequest(m, s) /\ conn[s].replstate = "NONE" /\ (masterhost[m] = None \/ repl_state[m] = "CONNECTED")
        /\ CreateBacklog(m)
    BY <1>a DEF SyncServed, AttachSlave
  <2>2. /\ OnlyConn(s) /\ conn'[s].to = conn[s].to /\ conn'[s].up = conn[s].up
        /\ conn'[s].in = conn[s].in \o FullReply(m, s) /\ conn'[s].replstate = st
    BY <1>0, <1>a, <2>1, AttachSlaveEffect
  <2>3. \A x \in Servers \ {m} : backlog'[x] = backlog[x]
    BY <2>1, CreateEffect
  <2>4. (HasBacklog(m))'
    <3>1. CASE HasBacklog(m)
      BY <2>1, <3>1, CreateEffect DEF HasBacklog
    <3>2. CASE ~HasBacklog(m)
      <4>1. \A x \in Servers : ~(conn[x].to = m /\ Attached(conn[x]))
        BY <3>2, AttachedTo DEF Ready
      <4>2. Slaves(m) = {}
        BY <4>1 DEF Slaves, Attached
      <4> QED BY <2>1, <3>2, <4>2, CreateEffect
    <3> QED BY <3>1, <3>2
  <2>5. Ready(m)'
    BY <1>r, <2>1, <2>4 DEF Ready
  <2>6. \A x \in Servers : Steady(x)
    <3> SUFFICES ASSUME NEW x \in Servers, Ready(x)  PROVE Ready(x)'
      BY <1>a DEF Steady
    <3> QED BY <1>r, <2>3, <2>5 DEF Ready, HasBacklog
  <2>7. Attached(conn'[s]) => (Ready(conn[s].to))'
    BY <1>r, <2>2, <2>5
  <2>8. Once(s)'
    <3>1. OverlapBgsave' = OverlapBgsave
      BY DEF OverlapBgsave
    <3> QED BY <1>a, <2>2, <3>1 DEF Once
  <2> QED BY <1>a, <1>f, <1>n, <1>r, <2>1, <2>2, <2>6, <2>7, <2>8, CtlSent
<1>5. CASE SyncStartsBgsave(m, s)
  <2>1. AttachSlave(m, s, "WAIT_BGSAVE_END", <<>>) /\ SyncServed(m, s) /\ child' = [child EXCEPT ![m] = data[m]]
    BY <1>5 DEF SyncStartsBgsave
  <2>2. data[m] # NoChild /\ DOMAIN child = Servers
    BY NotNo DEF Type, ServerTypes
  <2>3. "WAIT_BGSAVE_END" \in States /\ <<>> \in Seq(Writes) /\ child'[m] # NoChild
        /\ \A x \in Servers : child[x] # NoChild => child'[x] # NoChild
    BY <2>1, <2>2 DEF States
  <2> QED BY <1>a, <2>1, <2>3
<1>6. CASE SyncDuringBgsave(m, s)
  <2>1. /\ SyncServed(m, s) /\ child' = child /\ child[m] # NoChild /\ OverlapBgsave
        /\ \/ \E x \in Servers : AttachSlave(m, s, "WAIT_BGSAVE_END", conn[x].obuf)
           \/ AttachSlave(m, s, "WAIT_BGSAVE_START", <<>>)
    BY <1>6 DEF SyncDuringBgsave, Slaves
  <2>2. /\ {"WAIT_BGSAVE_START", "WAIT_BGSAVE_END"} \subseteq States /\ <<>> \in Seq(Writes)
        /\ \A x \in Servers : conn[x].obuf \in Seq(Writes)
    BY <1>0, ConnTypes DEF States
  <2>3. PICK st \in States, ob \in Seq(Writes) : AttachSlave(m, s, st, ob)
    BY <2>1, <2>2
  <2> QED BY <1>a, <2>1, <2>3
<1> QED BY <1>1, <1>2, <1>3, <1>4, <1>5, <1>6 DEF SyncCommand

LEMMA FeedSteady ==
  ASSUME Type, NEW m \in Servers, NEW w \in Writes, FeedBacklog(m, w), UNCHANGED <<masterhost, repl_state, child>>
  PROVE  \A x \in Servers : Steady(x)
<1>1. \A x \in Servers : (HasBacklog(x))' = HasBacklog(x)
  BY FeedEffect
<1> QED BY <1>1 DEF Steady, Ready

LEMMA CtlMaster ==
  ASSUME Type, Connections, setup' = setup, NEW m \in Servers,
         \/ Write(m) \/ Bgsave(m) \/ FreeBacklog(m) \/ \E ok \in BOOLEAN : BgsaveDone(m, ok)
         \/ \E s \in Servers : SendBulk(m, s) \/ DropSlave(m, s)
  PROVE  Connections'
<1>0. /\ TypeOK /\ setup \in Setups /\ \A x \in Servers : Ctl(x)
      /\ Servers' = Servers /\ OverlapBgsave' = OverlapBgsave /\ Faults' = Faults
  BY TypeParts, SameSetup DEF Type, ServerTypes, Connections, OverlapBgsave, Faults
<1>1. CASE Write(m)
  <2>1. writes' \in Writes /\ Feeds(conn, m, writes') /\ FeedBacklog(m, writes')
        /\ UNCHANGED <<masterhost, repl_state, child>>
    BY <1>0, <1>1, WriteEffect DEF Write, slaveVars
  <2>2. \A x \in Servers : Untouched(x, writes')
    BY <2>1 DEF Untouched, Feeds
  <2>3. \A x \in Servers : Attached(conn[x]) => Steady(conn[x].to)
    BY <2>1, FeedSteady, AttachedTo
  <2> QED BY <1>0, <2>1, <2>2, <2>3, CtlUntouched DEF Connections
<1>2. CASE Bgsave(m)
  <2>1. /\ UNCHANGED <<masterhost, repl_state, backlog, conn>> /\ child' = [child EXCEPT ![m] = data[m]]
    BY <1>2 DEF Bgsave, slaveVars
  <2>2. data[m] # NoChild /\ DOMAIN child = Servers
    BY NotNo DEF Type, ServerTypes
  <2>3. \A x \in Servers : Steady(x)
    BY <2>1, <2>2 DEF Steady, Ready, HasBacklog
  <2>4. \A x \in Servers : Untouched(x, 0) /\ conn'[x].in = conn[x].in
    BY <2>1 DEF Untouched
  <2>5. \A x \in Servers : Attached(conn[x]) => Steady(conn[x].to)
    BY <2>3, AttachedTo
  <2> QED BY <1>0, <2>4, <2>5, CtlUntouched DEF Connections
<1>3. CASE FreeBacklog(m)
  <2>1. /\ UNCHANGED <<masterhost, repl_state, child, conn>> /\ Slaves(m) = {} /\ DOMAIN backlog = Servers
        /\ backlog' = [backlog EXCEPT ![m] = NoBacklog]
    BY <1>3 DEF FreeBacklog, slaveVars, Type, ServerTypes
  <2>2. \A x \in Servers : Attached(conn[x]) => conn[x].to # m
    BY <2>1 DEF Slaves, Attached
  <2>3. \A x \in Servers : Attached(conn[x]) => Steady(conn[x].to)
    BY <2>1, <2>2, AttachedTo DEF Steady, Ready, HasBacklog
  <2>4. \A x \in Servers : Untouched(x, 0) /\ conn'[x].in = conn[x].in
    BY <2>1 DEF Untouched
  <2> QED BY <1>0, <2>3, <2>4, CtlUntouched DEF Connections
<1>4. ASSUME NEW ok \in BOOLEAN, BgsaveDone(m, ok)  PROVE Connections'
  <2> SUFFICES ASSUME NEW x \in Servers  PROVE Ctl(x)'
    BY <1>0 DEF Connections
  <2>1. /\ UNCHANGED <<masterhost, repl_state, backlog>> /\ child[m] # NoChild
        /\ conn' = [y \in Servers |-> AfterBgsave(m, conn[y], ok, child[m])]
        /\ child' = [child EXCEPT ![m] = data[m]] \/ child' = [child EXCEPT ![m] = NoChild]
        /\ ~Startbgsave(m) \/ child' = [child EXCEPT ![m] = data[m]] \/ Fault("fork")
    BY <1>4 DEF BgsaveDone, slaveVars
  <2> DEFINE c == conn[x]
             file == child[m]
             d == AfterBgsave(m, c, ok, file)
  <2>2. c \in Conns /\ file \in Seq(Writes) /\ conn'[x] = d /\ c.replstate \in States
        /\ data[m] # NoChild /\ DOMAIN child = Servers
    BY <1>0, <2>1, ConnTypes, NotNo DEF Type, ServerTypes
  <2>3. Ctl(x)
    BY <1>0
  <2>r. \A y \in Servers : Ready(y)' = Ready(y)
    BY <2>1 DEF Ready, HasBacklog
  <2>o. \A y \in Servers \ {m} : child'[y] = child[y]
    BY <2>1, <2>2
  <2> HIDE DEF c, file
  <2>4. BgsaveEnded(m, c, ok, file, d)
    BY <2>2, AfterBgsaveFields
  <2> HIDE DEF d
  <2>5. d.to = c.to /\ d.in = c.in /\ d.cmds = c.cmds /\ (Attached(d) => Attached(c) /\ d.up = c.up)
        /\ (d.up = c.up \/ d.up = FALSE) /\ (Online(d) <=> Online(c))
    BY <2>2, <2>4 DEF BgsaveEnded, Attached, Online, States
  <2>6. Control(x)'
    BY <2>1, <2>2, <2>3, <2>5 DEF Ctl, Control, c
  <2>7. Ordered(conn'[x])
    BY <2>2, <2>3, <2>5 DEF Ctl, Ordered, c
  <2>8. Served(x)'
    <3>1. Attached(c) => c.to \in Servers /\ Ready(c.to)
      BY AttachedTo DEF c
    <3> QED BY <2>2, <2>5, <2>r, <3>1 DEF Served
  <2>9. Once(x)'
    <3>1. d.replstate = "WAIT_BGSAVE_START" => c.replstate = "WAIT_BGSAVE_START"
      BY <2>2, <2>4 DEF BgsaveEnded, States
    <3> QED BY <1>0, <2>2, <2>3, <3>1 DEF Ctl, Once, c
  <2>10. Waits(x)'
    <3> SUFFICES ASSUME ~(OverlapBgsave /\ "fork" \in Faults), Waiting(d)  PROVE child'[d.to] # NoChild
      BY <1>0, <2>2 DEF Waits
    <3>1. CASE c.to = m
      <4>1. c.replstate = "WAIT_BGSAVE_START"
        BY <2>2, <2>4, <3>1 DEF BgsaveEnded, States, Waiting
      <4>2. Startbgsave(m) /\ OverlapBgsave
        BY <2>3, <3>1, <4>1 DEF Ctl, Once, Startbgsave, Slaves, c
      <4>3. child' = [child EXCEPT ![m] = data[m]]
        BY <2>1, <4>2 DEF Fault
      <4> QED BY <2>2, <2>5, <3>1, <4>3
    <3>2. CASE c.to # m
      <4>1. d = c
        BY <2>4, <3>2 DEF BgsaveEnded
      <4>2. child[c.to] # NoChild /\ c.to \in Servers
        <5>1. Attached(c)
          BY <4>1 DEF Attached, Waiting
        <5> QED BY <2>3, <4>1, <5>1, AttachedTo DEF Ctl, Waits, c
      <4> QED BY <2>o, <3>2, <4>1, <4>2
    <3> QED BY <3>1, <3>2
  <2> QED BY <2>6, <2>7, <2>8, <2>9, <2>10 DEF Ctl
<1>5. ASSUME NEW s \in Servers, SendBulk(m, s)  PROVE Connections'
  <2> DEFINE us == [i \in DOMAIN conn[s].obuf |-> Unit(conn[s].obuf[i])]
             b == <<Bulk(conn[s].snap)>>
             q == conn[s].in
             ls == b \o us
  <2>1. /\ OnlyConn(s) /\ conn'[s].to = conn[s].to /\ conn'[s].up = conn[s].up /\ conn'[s].cmds = conn[s].cmds
        /\ conn'[s].in = (q \o b) \o us /\ conn'[s].replstate = "ONLINE"
        /\ us \in Seq(Lines) /\ Len(us) = Len(conn[s].obuf)
    BY <1>0, <1>5, SendBulkEffect
  <2>2. /\ backlog' = backlog /\ child' = child /\ conn[s].replstate = "SEND_BULK" /\ conn[s].to = m
        /\ UNCHANGED <<masterhost, repl_state>>
    BY <1>5 DEF SendBulk, serverVars, slaveVars
  <2>3. Ctl(s) /\ Attached(conn[s]) /\ ~Online(conn[s]) /\ q \in Seq(Lines) /\ conn[s].obuf \in Seq(Writes)
        /\ conn[s].snap \in Seq(Writes)
    BY <1>0, <2>2, ConnTypes DEF Attached, Online
  <2>4. \A i \in 1 .. Len(us) : us[i].t = "unit"
    <3>1. \A i \in 1 .. Len(us) : us[i] = Unit(conn[s].obuf[i]) /\ conn[s].obuf[i] \in Writes
      BY <2>1, <2>3, ElementOfSeq, LenProperties
    <3> QED BY <1>0, <3>1, LineTypes
  <2>5. b \in Seq(Lines) /\ b[1].t = "bulk" /\ Len(b) = 1
    <3>1. Bulk(conn[s].snap) \in Lines /\ Bulk(conn[s].snap).t = "bulk"
      BY <1>0, <2>3, LineTypes
    <3> QED BY <3>1
  <2> HIDE DEF us, b
  <2>6. ls \in Seq(Lines) /\ InOrder(ls)
    <3>1. /\ ls \in Seq(Lines) /\ Len(ls) = 1 + Len(us) /\ Len(us) \in Nat /\ DOMAIN ls = 1 .. Len(ls)
          /\ \A i \in 1 .. Len(ls) : ls[i] = IF i <= 1 THEN b[i] ELSE us[i - 1]
      <4>1. us \in Seq(Lines) /\ b \in Seq(Lines) /\ Len(b) = 1
        BY <2>1, <2>5
      <4>2. /\ ls \in Seq(Lines) /\ Len(ls) = Len(b) + Len(us)
            /\ \A i \in 1 .. Len(b) + Len(us) : ls[i] = IF i <= Len(b) THEN b[i] ELSE us[i - Len(b)]
        BY <4>1, ConcatProperties
      <4> HIDE DEF ls
      <4> QED BY <4>1, <4>2, LenProperties
    <3>2. \A i \in 2 .. Len(ls) : ls[i].t = "unit"
      BY <2>4, <3>1
    <3> QED BY <3>1, <3>2 DEF InOrder
  <2>7. conn[s].up /\ Quiet(q)
    BY <2>3 DEF Ctl, Control, Ordered
  <2>8. Control(s)'
    BY <2>1, <2>2, <2>3 DEF Ctl, Control, Attached
  <2>9. Ordered(conn'[s])
    <3>1. Online(conn'[s])
      BY <2>1 DEF Online
    <3>2. conn'[s].in = q \o ls
      <4> HIDE DEF q
      <4> QED BY <2>1, <2>3, <2>5, ConcatAssociative
    <3> HIDE DEF ls
    <3> QED BY <2>3, <2>6, <2>7, <3>1, <3>2, OrderConcat DEF Ordered
  <2>10. \A x \in Servers : Steady(x)
    BY <2>2, SteadyQuiet
  <2>11. Served(s)' /\ Waits(s)' /\ Once(s)'
    <3>1. conn[s].to \in Servers /\ Ready(m)' /\ conn[s].to = m
      BY <2>2, <2>3, <2>10, AttachedTo DEF Steady
    <3>2. Served(s)'
      BY <2>1, <3>1 DEF Served
    <3>3. ~Waiting(conn'[s]) /\ conn'[s].replstate # "WAIT_BGSAVE_START"
      BY <2>1 DEF Waiting
    <3> QED BY <3>2, <3>3 DEF Waits, Once
  <2>12. Ctl(s)'
    BY <2>8, <2>9, <2>11 DEF Ctl
  <2> QED BY <2>1, <2>2, <2>10, <2>12, AttachedTo, CtlOwn
<1>6. ASSUME NEW s \in Servers, DropSlave(m, s)  PROVE Connections'
  <2>1. OnlyConn(s) /\ Closed(conn[s], conn'[s]) /\ UNCHANGED <<masterhost, repl_state, backlog, child>>
    BY <1>0, <1>6, DropEffect DEF DropSlave, serverVars, slaveVars
  <2>2. Ctl(s)'
    BY <1>0, <2>1, CtlClosed
  <2> QED BY <2>1, <2>2, AttachedTo, SteadyQuiet, CtlOwn
<1> QED BY <1>1, <1>2, <1>3, <1>4, <1>5, <1>6

\* s is past the handshake, and does not change what its master knows of it.
LEMMA CtlPast ==
  ASSUME Type, Connections, setup' = setup, NEW s \in Servers, OnlyConn(s),
         UNCHANGED <<masterhost, backlog, child>>, \A x \in Servers \ {s} : repl_state'[x] = repl_state[x],
         repl_state[s] \notin {"NONE", "CONNECT"}, repl_state[s] # "CONNECTED" \/ repl_state'[s] = "CONNECTED",
         repl_state'[s] \in {"PSYNC", "TRANSFER", "CONNECTED"},
         conn'[s].to = conn[s].to, conn'[s].up = conn[s].up, conn'[s].replstate = conn[s].replstate,
         conn'[s].in = conn[s].in \/ (conn[s].in # <<>> /\ conn'[s].in = Tail(conn[s].in))
  PROVE  Connections'
<1>0. /\ Ctl(s) /\ conn[s].in \in Seq(Lines) /\ OverlapBgsave' = OverlapBgsave /\ Faults' = Faults
      /\ masterhost'[s] = masterhost[s]
  BY TypeParts, ConnTypes DEF Connections, OverlapBgsave, Faults
<1>1. \A m \in Servers : Steady(m)
  BY SteadyState
<1>2. Control(s)'
  BY <1>0 DEF Ctl, Control, Attached
<1>3. Ordered(conn'[s])
  BY <1>0, OrderTail DEF Ctl, Ordered, Online
<1>4. Served(s)'
  <2>1. Attached(conn'[s]) => Attached(conn[s])
    BY DEF Attached
  <2> QED BY <1>1, <2>1, AttachedTo DEF Served, Steady
<1>5. Waits(s)' /\ Once(s)'
  <2>1. child' = child
    OBVIOUS
  <2>2. Waits(s)'
    BY <1>0, <2>1 DEF Ctl, Waits, Waiting
  <2>3. Once(s)'
    BY <1>0 DEF Ctl, Once
  <2> QED BY <2>2, <2>3
<1>6. Ctl(s)'
  BY <1>2, <1>3, <1>4, <1>5 DEF Ctl
<1> QED BY <1>1, <1>6, AttachedTo, CtlOwn

\* s gives up its connection, and with it its slaves, if it had any.
LEMMA CtlGivesUp ==
  ASSUME Type, Connections, setup' = setup, NEW s \in Servers, NEW S, Cut(s, S),
         \A x \in Servers \ {s} : /\ repl_state'[x] = repl_state[x] /\ masterhost'[x] = masterhost[x]
                                  /\ backlog'[x] = backlog[x] /\ child'[x] = child[x],
         repl_state'[s] = IF masterhost'[s] = None THEN "NONE" ELSE "CONNECT",
         \A x \in Servers \ {s} : Attached(conn[x]) /\ conn[x].to = s => x \in S \/ Steady(s)
  PROVE  Connections'
<1>1. Ctl(s)'
  BY CtlCut DEF Cut
<1>2. ASSUME NEW x \in Servers \ {s}  PROVE Ctl(x)'
  <2>1. Ctl(x)
    BY DEF Connections
  <2>2. CASE x \in S
    BY <2>1, <2>2, CtlClosed DEF Cut
  <2>3. CASE x \notin S
    <3>1. Untouched(x, 0) /\ conn'[x].in = conn[x].in
      BY <2>3 DEF Untouched, Cut
    <3>2. Attached(conn[x]) => Steady(conn[x].to)
      <4>1. \A m \in Servers \ {s} : Steady(m)
        BY DEF Steady, Ready, HasBacklog
      <4> QED BY <2>3, <4>1, AttachedTo
    <3> QED BY <2>1, <3>1, <3>2, CtlUntouched
  <2> QED BY <2>2, <2>3
<1> QED BY <1>1, <1>2, SameSetup DEF Connections

LEMMA CtlCloseLink ==
  ASSUME Type, Connections, setup' = setup, NEW s \in Servers, CloseLink(s), conn[s].to # None
  PROVE  Connections'
<1>0. TypeOK /\ Ctl(s) /\ DOMAIN repl_state = Servers
  BY TypeParts DEF Connections, Type, SlaveTypes
<1>1. /\ repl_state' = [repl_state EXCEPT ![s] = "CONNECT"] /\ UNCHANGED <<masterhost, backlog, child>>
  BY DEF CloseLink, serverVars
<1>2. masterhost[s] # None
  BY <1>0 DEF Ctl, Control
<1> DEFINE S == IF repl_state[s] = "CONNECTED" THEN Slaves(s) ELSE {}
<1>3. Cut(s, S)
  BY <1>0, CloseLinkEffect
<1>4. \A x \in Servers : Attached(conn[x]) /\ conn[x].to = s => x \in S
  <2> SUFFICES ASSUME NEW x \in Servers, Attached(conn[x]), conn[x].to = s  PROVE x \in S
    OBVIOUS
  <2>1. repl_state[s] = "CONNECTED"
    BY <1>2, AttachedTo DEF Ready
  <2> QED BY <2>1 DEF Slaves, Attached
<1> HIDE DEF S
<1>5. repl_state'[s] = IF masterhost'[s] = None THEN "NONE" ELSE "CONNECT"
  BY <1>0, <1>1, <1>2
<1>6. \A x \in Servers \ {s} : /\ repl_state'[x] = repl_state[x] /\ masterhost'[x] = masterhost[x]
                               /\ backlog'[x] = backlog[x] /\ child'[x] = child[x]
  BY <1>0, <1>1
<1> QED BY <1>3, <1>4, <1>5, <1>6, CtlGivesUp

LEMMA CtlSlave ==
  ASSUME Type, Connections, setup' = setup, NEW s \in Servers,
         \/ SlaveStep(s) \/ LoseMaster(s) \/ PsyncTimeout(s) \/ ReplicationUnsetMaster(s) \/ Restart(s)
         \/ \E m \in Servers : ReplicationSetMaster(s, m)
  PROVE  Connections'
<1>0. /\ TypeOK /\ setup \in Setups /\ None \notin Servers /\ \A x \in Servers : Ctl(x)
      /\ Servers' = Servers /\ OverlapBgsave' = OverlapBgsave /\ Faults' = Faults
      /\ DOMAIN repl_state = Servers /\ masterhost \in [Servers -> Servers \cup {None}]
      /\ DOMAIN backlog = Servers /\ DOMAIN child = Servers /\ conn[s].in \in Seq(Lines)
  BY TypeParts, SetupTypes, SameSetup, ConnTypes DEF Type, ServerTypes, SlaveTypes, Connections, OverlapBgsave, Faults
<1>1. CASE ReadUnit(s)
  <2> DEFINE w == Head(conn[s].in).off
             cn == [conn EXCEPT ![s].in = Tail(@)]
  <2>1. w \in Writes
    BY <1>1, NextUnit
  <2>2. /\ Feeds(cn, s, w) /\ cn \in [Servers -> Conns]
        /\ \A x \in Servers :
             /\ cn[x].to = conn[x].to /\ cn[x].up = conn[x].up /\ cn[x].cmds = conn[x].cmds
             /\ cn[x].replstate = conn[x].replstate
             /\ cn[x].in = IF x = s THEN Tail(conn[s].in) ELSE conn[x].in
    BY <1>0, <1>1, <2>1, ReadUnitEffect
  <2>3. FeedBacklog(s, w) /\ UNCHANGED <<masterhost, repl_state, child>> /\ repl_state[s] = "CONNECTED" /\ conn[s].in # <<>>
    BY <1>1 DEF ReadUnit
  <2> HIDE DEF w, cn
  <2>4. \A x \in Servers : Steady(x)
    BY <2>1, <2>3, FeedSteady
  <2>5. \A x \in Servers \ {s} : Untouched(x, w)
    <3> TAKE x \in Servers \ {s}
    <3>1. /\ cn[x].to = conn[x].to /\ cn[x].up = conn[x].up /\ cn[x].cmds = conn[x].cmds
          /\ cn[x].replstate = conn[x].replstate /\ cn[x].in = conn[x].in
      BY <2>2
    <3>2. LET c == cn[x]  d == conn'[x]
          IN  /\ d.to = c.to /\ d.up = c.up /\ d.cmds = c.cmds /\ d.replstate = c.replstate
              /\ d.in = c.in \/ (Online(c) /\ d.in = Append(c.in, Unit(w)))
      BY <2>2 DEF Feeds
    <3>3. Online(cn[x]) => Online(conn[x])
      BY <3>1 DEF Online
    <3> QED BY <2>3, <3>1, <3>2, <3>3 DEF Untouched
  <2>6. /\ conn'[s].to = conn[s].to /\ conn'[s].up = conn[s].up /\ conn'[s].cmds = conn[s].cmds
        /\ conn'[s].replstate = conn[s].replstate
        /\ \/ conn'[s].in = Tail(conn[s].in)
           \/ Online(conn[s]) /\ conn'[s].in = Append(Tail(conn[s].in), Unit(w))
    BY <2>2 DEF Feeds, Online
  <2>7. Ordered(conn'[s])
    <3> DEFINE q == Tail(conn[s].in)
    <3>1. q \in Seq(Lines) /\ Ordered(conn[s]) /\ InOrder(q) /\ (Quiet(conn[s].in) => Quiet(q))
      BY <1>0, <2>3, OrderTail, HeadTailProperties DEF Ctl, Ordered
    <3>2. Unit(w) \in Lines /\ Unit(w).t = "unit"
      BY <1>0, <2>1, LineTypes
    <3> HIDE DEF q
    <3>3. InOrder(Append(q, Unit(w)))
      BY <3>1, <3>2, OrderUnit
    <3> QED BY <2>6, <3>1, <3>3 DEF Ordered, Online, q
  <2>8. Control(s)'
    BY <1>0, <2>3, <2>6 DEF Ctl, Control, Attached
  <2>9. Served(s)'
    <3>1. Attached(conn'[s]) => Attached(conn[s])
      BY <2>6 DEF Attached
    <3> QED BY <2>4, <2>6, <3>1, AttachedTo DEF Served, Steady
  <2>10. Waits(s)' /\ Once(s)'
    BY <1>0, <2>3, <2>6 DEF Ctl, Waits, Waiting, Once
  <2>11. Ctl(s)'
    BY <2>7, <2>8, <2>9, <2>10 DEF Ctl
  <2>12. \A x \in Servers \ {s} : Ctl(x)'
    BY <1>0, <2>1, <2>4, <2>5, AttachedTo, CtlUntouched
  <2> QED BY <1>0, <2>11, <2>12 DEF Connections
<1>2. CASE ConnectWithMaster(s)
  <2>1. /\ repl_state[s] = "CONNECT" /\ repl_state' = [repl_state EXCEPT ![s] = "CONNECTING"]
        /\ UNCHANGED <<masterhost, backlog, child>>
    BY <1>2 DEF ConnectWithMaster, serverVars
  <2>2. /\ OnlyConn(s) /\ conn'[s].to = masterhost[s] /\ conn'[s].up /\ conn'[s].cmds = <<>> /\ conn'[s].in = <<>>
        /\ conn'[s].replstate = "NONE"
    BY <1>0, <1>2, ConnectEffect
  <2>3. masterhost[s] # None
    BY <1>0, <2>1 DEF Ctl, Control
  <2>4. Control(s)'
    BY <1>0, <2>1, <2>2, <2>3 DEF Control, Attached
  <2>5. Ordered(conn'[s])
    BY <2>2, OrderEmpty DEF Ordered
  <2>6. Served(s)' /\ Waits(s)' /\ Once(s)'
    BY <2>2 DEF Served, Waits, Once, Attached, Waiting
  <2>7. Ctl(s)'
    BY <2>4, <2>5, <2>6 DEF Ctl
  <2>8. \A x \in Servers \ {s} : repl_state'[x] = repl_state[x]
    BY <1>0, <2>1
  <2>9. \A m \in Servers : Steady(m)
    BY <2>1, <2>8, SteadyState
  <2> QED BY <2>1, <2>2, <2>7, <2>8, <2>9, AttachedTo, CtlOwn
<1>3. CASE SendPing(s)
  <2>1. /\ repl_state[s] = "CONNECTING" /\ repl_state' = [repl_state EXCEPT ![s] = "RECEIVE_PONG"]
        /\ UNCHANGED <<masterhost, backlog, child, conn>>
    BY <1>3 DEF SendPing, serverVars
  <2>2. Control(s)'
    BY <1>0, <2>1 DEF Ctl, Control, Attached
  <2>3. Ordered(conn[s])'
    BY <1>0, <2>1 DEF Ctl, Ordered
  <2>4. Served(s)' /\ Waits(s)' /\ Once(s)'
    <3>1. ~Attached(conn'[s])
      BY <1>0, <2>1 DEF Ctl, Control
    <3> QED BY <3>1 DEF Served, Waits, Once, Attached, Waiting
  <2>5. Ctl(s)'
    BY <2>2, <2>3, <2>4 DEF Ctl
  <2>6. \A x \in Servers \ {s} : repl_state'[x] = repl_state[x]
    BY <1>0, <2>1
  <2>7. \A m \in Servers : Steady(m)
    BY <2>1, <2>6, SteadyState
  <2>8. OnlyConn(s)
    BY <1>0, <2>1, ConnTypes DEF OnlyConn
  <2> QED BY <2>1, <2>5, <2>6, <2>7, <2>8, AttachedTo, CtlOwn
<1>4. CASE SendPsync(s) \/ PsyncTimeout(s)
  <2>1. PICK r \in Requests : conn' = [conn EXCEPT ![s].cmds = Append(@, r)]
    BY <1>0, <1>4, RequestTypes DEF SendPsync, PsyncTimeout
  <2>2. OnlyConn(s) /\ conn'[s].to = conn[s].to /\ conn'[s].up = conn[s].up /\ conn'[s].in = conn[s].in
        /\ conn'[s].replstate = conn[s].replstate
    BY <1>0, <2>1, AskEffect
  <2>3. /\ repl_state[s] \in {"RECEIVE_PONG", "PSYNC"} /\ UNCHANGED <<masterhost, backlog, child>>
        /\ \/ repl_state' = [repl_state EXCEPT ![s] = "PSYNC"] \/ repl_state' = [repl_state EXCEPT ![s] = "TRANSFER"]
    BY <1>4 DEF SendPsync, PsyncTimeout, serverVars, Blocked
  <2>4. repl_state'[s] \in {"PSYNC", "TRANSFER"} /\ \A x \in Servers \ {s} : repl_state'[x] = repl_state[x]
    BY <1>0, <2>3
  <2> QED BY <2>2, <2>3, <2>4, CtlPast
<1>5. CASE ReplyFull(s) \/ ReplyContinue(s) \/ ReadBulk(s)
  <2>1. /\ conn' = [conn EXCEPT ![s].in = Tail(@)] /\ conn[s].in # <<>>
        /\ repl_state[s] \in {"PSYNC", "TRANSFER"} /\ UNCHANGED <<masterhost, backlog, child>>
        /\ \/ repl_state' = [repl_state EXCEPT ![s] = "CONNECTED"] \/ repl_state' = [repl_state EXCEPT ![s] = "TRANSFER"]
    BY <1>5 DEF ReplyFull, ReplyContinue, ReadBulk, Blocked, serverVars
  <2>2. OnlyConn(s) /\ conn'[s].to = conn[s].to /\ conn'[s].up = conn[s].up /\ conn'[s].in = Tail(conn[s].in)
        /\ conn'[s].replstate = conn[s].replstate
    BY <1>0, <2>1, TailEffect
  <2>3. repl_state'[s] \in {"TRANSFER", "CONNECTED"} /\ \A x \in Servers \ {s} : repl_state'[x] = repl_state[x]
    BY <1>0, <2>1
  <2> QED BY <2>1, <2>2, <2>3, CtlPast
<1>6. CASE FallBackToSync(s)
  <2>1. /\ conn[s].in # <<>> /\ repl_state[s] = "PSYNC" /\ UNCHANGED <<masterhost, backlog, child>>
        /\ repl_state' = [repl_state EXCEPT ![s] = "TRANSFER"]
    BY <1>6 DEF FallBackToSync, Blocked, serverVars
  <2>2. OnlyConn(s) /\ conn'[s].to = conn[s].to /\ conn'[s].up = conn[s].up /\ conn'[s].in = Tail(conn[s].in)
        /\ conn'[s].replstate = conn[s].replstate
    BY <1>0, <1>6, FallBackEffect
  <2>3. repl_state'[s] = "TRANSFER" /\ \A x \in Servers \ {s} : repl_state'[x] = repl_state[x]
    BY <1>0, <2>1
  <2> QED BY <2>1, <2>2, <2>3, CtlPast
<1>7. CASE LoseMaster(s) \/ SeeClosed(s) \/ AbortTransfer(s)
  <2>1. CloseLink(s) /\ (conn[s].to # None \/ repl_state[s] = "TRANSFER")
    BY <1>7 DEF LoseMaster, SeeClosed, AbortTransfer
  <2>2. conn[s].to # None
    BY <1>0, <2>1 DEF Ctl, Control
  <2> QED BY <2>1, <2>2, CtlCloseLink
<1>8. ASSUME NEW m \in Servers, ReplicationSetMaster(s, m)  PROVE Connections'
  <2>1. /\ masterhost' = [masterhost EXCEPT ![s] = m] /\ repl_state' = [repl_state EXCEPT ![s] = "CONNECT"]
        /\ backlog' = [backlog EXCEPT ![s] = NoBacklog] /\ child' = child
        /\ conn' = [ClosedByMaster(conn, Slaves(s)) EXCEPT ![s] = NoConn]
    BY <1>8 DEF ReplicationSetMaster
  <2>2. Cut(s, Slaves(s))
    BY <1>0, <2>1, CutEffect
  <2>3. \A x \in Servers : Attached(conn[x]) /\ conn[x].to = s => x \in Slaves(s)
    BY DEF Slaves, Attached
  <2>4. repl_state'[s] = IF masterhost'[s] = None THEN "NONE" ELSE "CONNECT"
    BY <1>0, <2>1
  <2>5. \A x \in Servers \ {s} : /\ repl_state'[x] = repl_state[x] /\ masterhost'[x] = masterhost[x]
                                 /\ backlog'[x] = backlog[x] /\ child'[x] = child[x]
    BY <1>0, <2>1
  <2> QED BY <2>2, <2>3, <2>4, <2>5, CtlGivesUp
<1>9. CASE ReplicationUnsetMaster(s)
  <2>1. /\ masterhost' = [masterhost EXCEPT ![s] = None] /\ repl_state' = [repl_state EXCEPT ![s] = "NONE"]
        /\ child' = child /\ conn' = [conn EXCEPT ![s] = NoConn]
        /\ (Slaves(s) = {} /\ backlog' = [backlog EXCEPT ![s] = NoBacklog]) \/ backlog' = backlog
    BY <1>9 DEF ReplicationUnsetMaster
  <2>2. Cut(s, {})
    BY <1>0, <2>1, CutEffect
  <2>3. \A x \in Servers : Attached(conn[x]) /\ conn[x].to = s => Steady(s)
    <3>1. \A x \in Servers : Attached(conn[x]) /\ conn[x].to = s => backlog' = backlog
      BY <2>1 DEF Slaves, Attached
    <3> QED BY <1>0, <2>1, <3>1 DEF Steady, Ready, HasBacklog
  <2>4. repl_state'[s] = IF masterhost'[s] = None THEN "NONE" ELSE "CONNECT"
    BY <1>0, <2>1
  <2>5. \A x \in Servers \ {s} : /\ repl_state'[x] = repl_state[x] /\ masterhost'[x] = masterhost[x]
                                 /\ backlog'[x] = backlog[x] /\ child'[x] = child[x]
    BY <1>0, <2>1
  <2> QED BY <2>2, <2>3, <2>4, <2>5, CtlGivesUp
<1>10. CASE Restart(s)
  <2> DEFINE S == {x \in Servers : conn[x].to = s}
  <2>1. /\ masterhost' = masterhost /\ backlog' = [backlog EXCEPT ![s] = NoBacklog]
        /\ repl_state' = [repl_state EXCEPT ![s] = IF masterhost[s] = None THEN "NONE" ELSE "CONNECT"]
        /\ child' = [child EXCEPT ![s] = NoChild] /\ conn' = [ClosedByMaster(conn, S) EXCEPT ![s] = NoConn]
    BY <1>10 DEF Restart
  <2>2. Cut(s, S)
    BY <1>0, <2>1, CutEffect
  <2>3. \A x \in Servers : Attached(conn[x]) /\ conn[x].to = s => x \in S
    OBVIOUS
  <2> HIDE DEF S
  <2>4. repl_state'[s] = IF masterhost'[s] = None THEN "NONE" ELSE "CONNECT"
    BY <1>0, <2>1
  <2>5. \A x \in Servers \ {s} : /\ repl_state'[x] = repl_state[x] /\ masterhost'[x] = masterhost[x]
                                 /\ backlog'[x] = backlog[x] /\ child'[x] = child[x]
    BY <1>0, <2>1
  <2> QED BY <2>2, <2>3, <2>4, <2>5, CtlGivesUp
<1> QED BY <1>1, <1>2, <1>3, <1>4, <1>5, <1>6, <1>7, <1>8, <1>9, <1>10 DEF SlaveStep

LEMMA CtlStep ==
  ASSUME Type, Connections, [Next]_vars
  PROVE  Connections'
<1>1. CASE Next
  <2>1. Step /\ setup' = setup
    BY <1>1 DEF Next
  <2> QED BY <2>1, CtlAnswer, CtlMaster, CtlSlave DEF Step
<1>2. CASE UNCHANGED vars
  <2>1. /\ setup' = setup /\ conn' = conn /\ repl_state' = repl_state /\ masterhost' = masterhost /\ backlog' = backlog
        /\ child' = child
    BY <1>2 DEF vars
  <2>2. \A x \in Servers : Ctl(x) /\ Untouched(x, 0) /\ conn'[x].in = conn[x].in /\ (Attached(conn[x]) => Steady(conn[x].to))
    BY <2>1, SteadyQuiet, AttachedTo DEF Untouched, Connections
  <2> QED BY <2>1, <2>2, CtlUntouched, SameSetup DEF Connections
<1> QED BY <1>1, <1>2

\* A server with slaves has a backlog and its own link, and its slaves wait for a child
\* that runs; this if no fork fails in updateSlavesWaitingBgsave while slaves wait for
\* the next BGSAVE, which leaves them waiting for none.
THEOREM SlavesServedCorrect ==
  ASSUME \A u \in Setups : ~(u.overlapBgsave /\ "fork" \in u.faults)
  PROVE  Spec => []SlavesServed
<1>1. Spec => [](Type /\ Connections)
  BY InitType, InitCtl, TypeStep, CtlStep, PTL DEF Spec
<1>2. Type /\ Connections => SlavesServed
  <2> SUFFICES ASSUME Type, Connections, NEW m \in Servers, NEW s \in Slaves(m)
               PROVE  /\ Ready(m)
                      /\ conn[s].replstate \in {"WAIT_BGSAVE_START", "WAIT_BGSAVE_END"} => child[m] # NoChild
    BY DEF SlavesServed, Ready
  <2>1. Attached(conn[s]) /\ s \in Servers /\ conn[s].to = m
    BY DEF Slaves, Attached
  <2>2. ~(OverlapBgsave /\ "fork" \in Faults)
    BY DEF OverlapBgsave, Faults, Type, ServerTypes
  <2> QED BY <2>1, <2>2 DEF Connections, Ctl, Served, Waits, Waiting
<1> QED BY <1>1, <1>2, PTL

----------------------------------------------------------------------------
(* Offsets.                                                                *)

\* What may follow the first k lines, of which the last is +FULLRESYNC.
AfterFull(c, k) ==
  /\ c.cmds = <<>>
  /\ Len(c.in) = k => ~Online(c)
  /\ Len(c.in) > k => \/ c.in[k + 1].t = "bulk" /\ (c.up => Online(c))
                      \/ c.in[k + 1].t = "ERR" /\ ~Attached(c)

\* The offset o announced by the first k lines, with the units that follow, is the master's.
CountsTo(c, k, r, o, run, off) ==
  /\ Fed(c) => r = run /\ o + Len(c.obuf) = off
  /\ Online(c) => r = run /\ o + Len(c.in) - (k + 1) = off

Counted(c, k, r, o) == CountsTo(c, k, r, o, Run(c.to), mro[c.to])

\* The position r, o of the slave, with the units after the first k lines, is the master's.
ReadsTo(c, k, r, o, run, off) == Online(c) => r = run /\ o + Len(c.in) - k = off

Reads(c, k, r, o) == ReadsTo(c, k, r, o, Run(c.to), mro[c.to])

Asked(s) ==
  LET c == conn[s]
  IN  repl_state[s] = "PSYNC" =>
        /\ full[s].off = -1
        /\ c.in = <<>> => (c.up => c.cmds = <<Psync(master[s])>>) /\ ~Attached(c)
        /\ c.in # <<>> /\ c.in[1].t = "CONTINUE" =>
             /\ \A i \in 2 .. Len(c.in) : c.in[i].t = "unit"
             /\ c.up => Online(c)
             /\ Reads(c, 1, master[s].run, master[s].off)
        /\ c.in # <<>> /\ c.in[1].t = "FULLRESYNC" => AfterFull(c, 1) /\ Counted(c, 1, c.in[1].run, c.in[1].off)

Transfer(s) ==
  repl_state[s] = "TRANSFER" /\ full[s].off # -1 =>
    AfterFull(conn[s], 0) /\ Counted(conn[s], 0, full[s].run, full[s].off)

Connected(s) ==
  repl_state[s] = "CONNECTED" =>
    /\ \A i \in 1 .. Len(conn[s].in) : conn[s].in[i].t = "unit"
    /\ conn[s].up => Online(conn[s])
    /\ ~master[s].pre => Reads(conn[s], 0, master[s].run, master[s].off)

Placed(s) == ~OverlapBgsave => Asked(s) /\ Transfer(s) /\ Connected(s)
Offsets   == \A s \in Servers : Placed(s)

LEMMA PlacedIdle ==
  ASSUME NEW s, repl_state'[s] \notin {"PSYNC", "TRANSFER", "CONNECTED"}
  PROVE  Placed(s)'
BY DEF Placed, Asked, Transfer, Connected

SameSlave(x) == repl_state'[x] = repl_state[x] /\ master'[x] = master[x] /\ full'[x] = full[x]

\* The master's end is closed; what was sent can still be read.
Gone(c, d) == d.up = FALSE /\ d.replstate = "NONE" /\ d.in = c.in /\ (d.cmds = <<>> \/ d.cmds = c.cmds)

LEMMA PlacedClosed ==
  ASSUME Type, Connections, setup' = setup, NEW x \in Servers, Placed(x), Gone(conn[x], conn'[x]), SameSlave(x)
  PROVE  Placed(x)'
<1> SUFFICES ASSUME ~OverlapBgsave  PROVE Asked(x)' /\ Transfer(x)' /\ Connected(x)'
  BY DEF Placed, OverlapBgsave
<1> DEFINE c == conn[x]
           d == conn'[x]
<1>1. /\ d.up = FALSE /\ (d.cmds = <<>> \/ d.cmds = c.cmds) /\ d.in = c.in /\ ~Attached(d) /\ ~Online(d) /\ ~Fed(d)
      /\ SameSlave(x)
  BY DEF Gone, Attached, Online, Fed
<1>2. Asked(x) /\ Transfer(x) /\ Connected(x)
  BY DEF Placed
<1>3. \A k : AfterFull(c, k) => AfterFull(d, k)
  BY <1>1 DEF AfterFull
<1> HIDE DEF c, d
<1>5. Asked(x)'
  BY <1>1, <1>2, <1>3 DEF Asked, SameSlave, c, d, Counted, Reads, CountsTo, ReadsTo
<1>6. Transfer(x)'
  BY <1>1, <1>2, <1>3 DEF Transfer, SameSlave, c, d, Counted, CountsTo
<1>7. Connected(x)'
  BY <1>1, <1>2 DEF Connected, SameSlave, c, d, Reads, ReadsTo
<1> QED BY <1>5, <1>6, <1>7

\* The master's offset advances by one if and only if x is sent or will be sent the unit w.
Advances(x, w) ==
  LET c == conn[x]  d == conn'[x]
  IN  /\ d.to = c.to /\ d.up = c.up /\ d.cmds = c.cmds /\ (d.replstate = c.replstate \/ (Fed(c) /\ Fed(d)))
      /\ d.obuf = IF w # 0 /\ Fed(c) THEN Append(c.obuf, w) ELSE c.obuf
      /\ d.in = IF w # 0 /\ Online(c) THEN Append(c.in, Unit(w)) ELSE c.in
      /\ Fed(c) \/ Online(c) => /\ runid'[c.to] = runid[c.to]
                                /\ mro'[c.to] = IF w # 0 THEN mro[c.to] + 1 ELSE mro[c.to]

LEMMA PlacedAdvances ==
  ASSUME Type, Connections, setup' = setup, NEW x \in Servers, Placed(x), SameSlave(x),
         NEW w \in Writes \cup {0}, Advances(x, w)
  PROVE  Placed(x)'
<1> SUFFICES ASSUME ~OverlapBgsave  PROVE Asked(x)' /\ Transfer(x)' /\ Connected(x)'
  BY DEF Placed, OverlapBgsave
<1> DEFINE c == conn[x]
           d == conn'[x]
           run == <<d.to, runid'[d.to]>>
           off == mro'[d.to]
<1>1. /\ c.in \in Seq(Lines) /\ c.obuf \in Seq(Writes) /\ Len(c.in) \in Nat /\ Len(c.obuf) \in Nat
      /\ mro \in [Servers -> Int] /\ (w # 0 => w \in Writes) /\ setup \in Setups
      /\ \A r \in {full[x]} : r.off \in Int
      /\ master[x].off \in Int /\ full[x].off \in Int
  <2>1. c.in \in Seq(Lines) /\ c.obuf \in Seq(Writes)
    BY TypeParts, ConnTypes
  <2>2. master[x].off \in Int /\ full[x].off \in Int
    BY DEF Type, SlaveTypes, Positions
  <2> QED BY <2>1, <2>2 DEF Type, ServerTypes
<1>2. Asked(x) /\ Transfer(x) /\ Connected(x)
  BY DEF Placed
<1>3. /\ d.to = c.to /\ d.up = c.up /\ d.cmds = c.cmds /\ (Online(d) <=> Online(c)) /\ (Fed(d) <=> Fed(c))
      /\ (Attached(d) <=> Attached(c)) /\ ~(Online(c) /\ Fed(c))
      /\ Fed(c) \/ Online(c) => run = Run(c.to) /\ c.to \in Servers /\ mro[c.to] \in Int
  <2>1. Fed(c) \/ Online(c) => Attached(c)
    BY DEF Fed, Online, Attached
  <2>2. Fed(c) \/ Online(c) => c.to \in Servers /\ mro[c.to] \in Int
    BY <1>1, <2>1, AttachedTo
  <2> QED BY <2>2 DEF Advances, Online, Fed, Attached, Run
\* In each case the lines that were there stay, and a unit may follow.
<1>4. \/ d.in = c.in /\ (Online(c) => off = mro[c.to])
      \/ /\ Online(c) /\ off = mro[c.to] + 1 /\ d.in \in Seq(Lines) /\ Len(d.in) = Len(c.in) + 1
         /\ \A i \in 1 .. Len(c.in) : d.in[i] = c.in[i]
         /\ d.in[Len(c.in) + 1].t = "unit"
  <2>1. CASE w # 0 /\ Online(c)
    <3>1. d.in = Append(c.in, Unit(w)) /\ Unit(w) \in Lines /\ Unit(w).t = "unit" /\ off = mro[c.to] + 1
      BY <1>1, <1>3, <2>1, LineTypes DEF Advances
    <3> HIDE DEF c, d, run, off
    <3> QED BY <1>1, <2>1, <3>1, AppendProperties
  <2>2. CASE ~(w # 0 /\ Online(c))
    BY <1>3, <2>2 DEF Advances
  <2> QED BY <2>1, <2>2
<1>5. Fed(c) => Len(d.obuf) - Len(c.obuf) = off - mro[c.to] /\ Len(d.obuf) \in Nat /\ off \in Int
  <2>1. CASE w # 0 /\ Fed(c)
    <3>1. d.obuf = Append(c.obuf, w) /\ off = mro[c.to] + 1 /\ c.to \in Servers
      BY <1>3, <2>1 DEF Advances
    <3> HIDE DEF c, d, run, off
    <3> QED BY <1>1, <3>1, AppendProperties
  <2>2. CASE ~(w # 0 /\ Fed(c))
    BY <1>1, <1>3, <2>2 DEF Advances
  <2> QED BY <2>1, <2>2
<1> HIDE DEF c, d, run, off
<1>6. ASSUME NEW k \in {0, 1}, AfterFull(c, k), Len(c.in) >= k, NEW r, NEW o \in Int, Counted(c, k, r, o)
      PROVE  AfterFull(d, k) /\ CountsTo(d, k, r, o, run, off)
  <2>1. Fed(d) => r = run /\ o + Len(d.obuf) = off
    <3> SUFFICES ASSUME Fed(c)  PROVE r = run /\ o + Len(d.obuf) = off
      BY <1>3
    <3>1. r = Run(c.to) /\ o + Len(c.obuf) = mro[c.to]
      BY <1>6 DEF Counted, CountsTo
    <3> DEFINE a == Len(c.obuf)
               b == Len(d.obuf)
               z == mro[c.to]
    <3>2. a \in Int /\ z \in Int /\ o \in Int
      BY <1>1, <1>3, <1>6
    <3>3. b \in Nat /\ off \in Int /\ b - a = off - z
      BY <1>5, Zenon
    <3>4. o + a = z /\ r = run
      BY <1>3, <3>1
    <3> HIDE DEF a, b, z
    <3>5. o + b = off
      BY <3>2, <3>3, <3>4
    <3> QED BY <3>4, <3>5 DEF b
  <2>2. Online(d) => r = run /\ o + Len(d.in) - (k + 1) = off
    <3> SUFFICES ASSUME Online(c)  PROVE r = run /\ o + Len(d.in) - (k + 1) = off
      BY <1>3
    <3>1. r = Run(c.to) /\ o + Len(c.in) - (k + 1) = mro[c.to]
      BY <1>6 DEF Counted, CountsTo
    <3> DEFINE n == Len(c.in)
               i == Len(d.in)
               z == mro[c.to]
    <3>2. n \in Nat /\ z \in Int /\ o \in Int /\ k \in Int
      BY <1>1, <1>3, <1>6
    <3>3. (i = n /\ off = z) \/ (i = n + 1 /\ off = z + 1)
      BY <1>4
    <3>4. o + n - (k + 1) = z /\ r = run
      BY <1>3, <3>1
    <3> HIDE DEF n, i, z
    <3>5. o + i - (k + 1) = off
      BY <3>2, <3>3, <3>4
    <3> QED BY <3>4, <3>5 DEF i
  <2>3. AfterFull(d, k)
    <3>1. CASE d.in = c.in
      BY <1>3, <1>6, <3>1 DEF AfterFull
    <3>2. CASE Online(c) /\ Len(d.in) = Len(c.in) + 1 /\ \A i \in 1 .. Len(c.in) : d.in[i] = c.in[i]
      <4>1. Len(c.in) # k
        BY <1>6, <3>2 DEF AfterFull
      <4>2. k + 1 \in 1 .. Len(c.in) /\ Len(d.in) > k
        BY <1>1, <1>6, <3>2, <4>1
      <4>3. d.in[k + 1] = c.in[k + 1]
        BY <3>2, <4>2
      <4> QED BY <1>1, <1>3, <1>6, <3>2, <4>1, <4>2, <4>3 DEF AfterFull
    <3> QED BY <1>4, <3>1, <3>2
  <2> QED BY <2>1, <2>2, <2>3 DEF CountsTo
<1>7. ASSUME NEW k \in {0, 1}, NEW r, NEW o \in Int, Reads(c, k, r, o)
      PROVE  ReadsTo(d, k, r, o, run, off)
  <2> SUFFICES ASSUME Online(c)  PROVE r = run /\ o + Len(d.in) - k = off
    BY <1>3 DEF ReadsTo
  <2>1. r = Run(c.to) /\ o + Len(c.in) - k = mro[c.to]
    BY <1>7 DEF Reads, ReadsTo
  <2> DEFINE n == Len(c.in)
             z == mro[c.to]
  <2>2. n \in Int /\ z \in Int
    BY <1>1, <1>3
  <2>3. CASE d.in = c.in /\ off = z
    BY <1>3, <2>1, <2>3
  <2>4. CASE Len(d.in) = n + 1 /\ off = z + 1
    <3>1. r = run /\ o + n - k = z
      BY <1>3, <2>1
    <3> HIDE DEF n, z
    <3>2. k \in Int /\ o \in Int
      BY <1>7
    <3> QED BY <2>2, <2>4, <3>1, <3>2
  <2> QED BY <1>4, <2>3, <2>4
<1>8. Transfer(x)'
  <2> SUFFICES ASSUME repl_state[x] = "TRANSFER", full[x].off # -1
               PROVE  AfterFull(d, 0) /\ CountsTo(d, 0, full[x].run, full[x].off, run, off)
    BY DEF Transfer, SameSlave, d, Counted, Run, run, off
  <2>1. AfterFull(c, 0) /\ Counted(c, 0, full[x].run, full[x].off)
    BY <1>2 DEF Transfer, c
  <2> QED BY <1>1, <1>6, <2>1
<1>9. Connected(x)'
  <2> SUFFICES ASSUME repl_state[x] = "CONNECTED"
               PROVE  /\ \A i \in 1 .. Len(d.in) : d.in[i].t = "unit"
                      /\ d.up => Online(d)
                      /\ ~master[x].pre => ReadsTo(d, 0, master[x].run, master[x].off, run, off)
    BY DEF Connected, SameSlave, d, Reads, Run, run, off
  <2>1. /\ \A i \in 1 .. Len(c.in) : c.in[i].t = "unit"
        /\ c.up => Online(c)
        /\ ~master[x].pre => Reads(c, 0, master[x].run, master[x].off)
    BY <1>2 DEF Connected, c
  <2>2. \A i \in 1 .. Len(d.in) : d.in[i].t = "unit"
    <3>1. CASE d.in = c.in
      BY <2>1, <3>1
    <3>2. CASE /\ Len(d.in) = Len(c.in) + 1
               /\ \A i \in 1 .. Len(c.in) : d.in[i] = c.in[i]
               /\ d.in[Len(c.in) + 1].t = "unit"
      <4> DEFINE n == Len(c.in)
      <4>1. n \in Nat /\ Len(d.in) = n + 1
        BY <1>1, <3>2
      <4>2. /\ \A i \in 1 .. n : d.in[i] = c.in[i] /\ c.in[i].t = "unit"
            /\ d.in[n + 1].t = "unit"
        BY <2>1, <3>2
      <4> HIDE DEF n
      <4>3. \A i \in 1 .. n + 1 : d.in[i].t = "unit"
        <5>1. \A i \in 1 .. n + 1 : i \in 1 .. n \/ i = n + 1
          BY <4>1
        <5>2. \A i \in 1 .. n : d.in[i].t = "unit"
          BY <4>2, Zenon
        <5> QED BY <4>2, <5>1, <5>2, Zenon
      <4> QED BY <4>1, <4>3
    <3> QED BY <1>4, <3>1, <3>2
  <2>3. ~master[x].pre => ReadsTo(d, 0, master[x].run, master[x].off, run, off)
    BY <1>1, <1>7, <2>1
  <2> QED BY <1>3, <2>1, <2>2, <2>3
<1>10. Asked(x)'
  <2> SUFFICES ASSUME repl_state[x] = "PSYNC"
               PROVE  /\ full[x].off = -1
                      /\ d.in = <<>> => (d.up => d.cmds = <<Psync(master[x])>>) /\ ~Attached(d)
                      /\ d.in # <<>> /\ d.in[1].t = "CONTINUE" =>
                           /\ \A i \in 2 .. Len(d.in) : d.in[i].t = "unit"
                           /\ d.up => Online(d)
                           /\ ReadsTo(d, 1, master[x].run, master[x].off, run, off)
                      /\ d.in # <<>> /\ d.in[1].t = "FULLRESYNC" =>
                           AfterFull(d, 1) /\ CountsTo(d, 1, d.in[1].run, d.in[1].off, run, off)
    BY DEF Asked, SameSlave, d, Psync, Counted, Reads, Run, run, off
  <2>1. /\ full[x].off = -1
        /\ c.in = <<>> => (c.up => c.cmds = <<Psync(master[x])>>) /\ ~Attached(c)
        /\ c.in # <<>> /\ c.in[1].t = "CONTINUE" =>
             /\ \A i \in 2 .. Len(c.in) : c.in[i].t = "unit"
             /\ c.up => Online(c)
             /\ Reads(c, 1, master[x].run, master[x].off)
        /\ c.in # <<>> /\ c.in[1].t = "FULLRESYNC" => AfterFull(c, 1) /\ Counted(c, 1, c.in[1].run, c.in[1].off)
    BY <1>2 DEF Asked, c
  <2>2. Online(c) => c.in # <<>>
    BY <2>1 DEF Attached, Online
  <2>3. (d.in = <<>> <=> c.in = <<>>) /\ (c.in # <<>> => d.in[1] = c.in[1] /\ Len(c.in) >= 1)
    BY <1>1, <1>4, <2>2
  <2>4. c.in # <<>> => c.in[1].off \in Int
    <3>1. c.in # <<>> => c.in[1] \in Lines
      BY <1>1
    <3> QED BY <3>1 DEF Lines
  <2>5. d.in # <<>> /\ d.in[1].t = "CONTINUE" =>
           /\ \A i \in 2 .. Len(d.in) : d.in[i].t = "unit"
           /\ d.up => Online(d)
           /\ ReadsTo(d, 1, master[x].run, master[x].off, run, off)
    <3> SUFFICES ASSUME c.in # <<>>, c.in[1].t = "CONTINUE"
                 PROVE  /\ \A i \in 2 .. Len(d.in) : d.in[i].t = "unit"
                        /\ d.up => Online(d)
                        /\ ReadsTo(d, 1, master[x].run, master[x].off, run, off)
      BY <2>3
    <3>1. \A i \in 2 .. Len(d.in) : d.in[i].t = "unit"
      BY <1>1, <1>4, <2>1, SMTT(30)
    <3>2. ReadsTo(d, 1, master[x].run, master[x].off, run, off)
      BY <1>1, <1>7, <2>1
    <3> QED BY <1>3, <2>1, <3>1, <3>2
  <2>6. d.in # <<>> /\ d.in[1].t = "FULLRESYNC" => AfterFull(d, 1) /\ CountsTo(d, 1, d.in[1].run, d.in[1].off, run, off)
    <3> SUFFICES ASSUME c.in # <<>>, c.in[1].t = "FULLRESYNC"
                 PROVE  AfterFull(d, 1) /\ CountsTo(d, 1, c.in[1].run, c.in[1].off, run, off)
      BY <2>3
    <3> QED BY <1>6, <2>1, <2>3, <2>4
  <2> QED BY <1>3, <2>1, <2>3, <2>5, <2>6
<1> QED BY <1>8, <1>9, <1>10

\* The first line of d is the answer to a PSYNC with the position p.
Answers(d, p, run, off) ==
  /\ d.in # <<>>
  /\ d.in[1].t = "CONTINUE" =>
       /\ \A i \in 2 .. Len(d.in) : d.in[i].t = "unit"
       /\ d.up => Online(d)
       /\ ReadsTo(d, 1, p.run, p.off, run, off)
  /\ d.in[1].t = "FULLRESYNC" => AfterFull(d, 1) /\ CountsTo(d, 1, d.in[1].run, d.in[1].off, run, off)

LEMMA PlacedAnswered ==
  ASSUME Type, Connections, setup' = setup, NEW s \in Servers, Placed(s), SameSlave(s),
         conn[s].to \in Servers, conn[s].up, conn[s].cmds # <<>>, ~Attached(conn[s]),
         NEW ls \in Seq(Lines), conn'[s].in = conn[s].in \o ls,
         ~OverlapBgsave /\ conn[s].in = <<>> /\ conn[s].cmds = <<Psync(master[s])>>
           => Answers(conn'[s], master[s], <<conn'[s].to, runid'[conn'[s].to]>>, mro'[conn'[s].to])
  PROVE  Placed(s)'
<1> SUFFICES ASSUME ~OverlapBgsave  PROVE Asked(s)' /\ Transfer(s)' /\ Connected(s)'
  BY DEF Placed, OverlapBgsave
<1> DEFINE c == conn[s]
           d == conn'[s]
           run == <<d.to, runid'[d.to]>>
           off == mro'[d.to]
<1>1. Asked(s) /\ Transfer(s) /\ Connected(s)
  BY DEF Placed
<1>2. c.up /\ c.cmds # <<>> /\ ~Attached(c) /\ ~Online(c) /\ c.in \in Seq(Lines) /\ d.in = c.in \o ls
  BY TypeParts, ConnTypes DEF Attached, Online
<1>3. Transfer(s)'
  BY <1>1, <1>2 DEF Transfer, SameSlave, AfterFull
<1>4. Connected(s)'
  BY <1>1, <1>2 DEF Connected, SameSlave
<1>5. ASSUME repl_state[s] = "PSYNC"
      PROVE  /\ full[s].off = -1
             /\ d.in = <<>> => (d.up => d.cmds = <<Psync(master[s])>>) /\ ~Attached(d)
             /\ d.in # <<>> /\ d.in[1].t = "CONTINUE" =>
                  /\ \A i \in 2 .. Len(d.in) : d.in[i].t = "unit"
                  /\ d.up => Online(d)
                  /\ ReadsTo(d, 1, master[s].run, master[s].off, run, off)
             /\ d.in # <<>> /\ d.in[1].t = "FULLRESYNC" =>
                  AfterFull(d, 1) /\ CountsTo(d, 1, d.in[1].run, d.in[1].off, run, off)
  <2>1. /\ full[s].off = -1
        /\ c.in = <<>> => c.cmds = <<Psync(master[s])>>
        /\ c.in # <<>> => c.in[1].t \notin {"CONTINUE", "FULLRESYNC"}
    BY <1>1, <1>2, <1>5 DEF Asked, AfterFull
  <2>2. CASE c.in = <<>>
    BY <2>1, <2>2 DEF Answers
  <2>3. CASE c.in # <<>>
    <3>1. d.in # <<>> /\ d.in[1] = c.in[1]
      <4> HIDE DEF c, d
      <4>1. Len(c.in) \in Nat /\ Len(c.in) > 0 /\ Len(ls) \in Nat
        BY <1>2, <2>3
      <4>2. Len(d.in) = Len(c.in) + Len(ls) /\ \A i \in 1 .. Len(c.in) : d.in[i] = c.in[i]
        BY <1>2, <4>1, ConcatProperties
      <4> QED BY <4>1, <4>2
    <3>2. full[s].off = -1 /\ d.in # <<>> /\ d.in[1].t # "CONTINUE" /\ d.in[1].t # "FULLRESYNC"
      BY <2>1, <2>3, <3>1
    <3> HIDE DEF c, d, run, off
    <3> QED BY <3>2
  <2> QED BY <2>2, <2>3
<1>6. Asked(s)'
  BY <1>5 DEF Asked, SameSlave, Psync, Counted, Reads, Run
<1> QED BY <1>3, <1>4, <1>6

\* A slave's master does not create a backlog.
LEMMA CreateKeeps ==
  ASSUME Type, Connections, NEW m \in Servers, CreateBacklog(m), NEW x \in Servers, Attached(conn[x])
  PROVE  mro'[conn[x].to] = mro[conn[x].to]
<1>1. conn[x].to \in Servers /\ HasBacklog(conn[x].to)
  BY AttachedTo DEF Ready
<1> QED BY <1>1, CreateEffect

\* Only the connection of s changes, and no master's offset.
LEMMA OffsetsOwn ==
  ASSUME Type, Connections, Offsets, setup' = setup, NEW s \in Servers, OnlyConn(s), Placed(s)',
         \A x \in Servers \ {s} : SameSlave(x),
         \A x \in Servers : Attached(conn[x]) => runid'[conn[x].to] = runid[conn[x].to] /\ mro'[conn[x].to] = mro[conn[x].to]
  PROVE  Offsets'
<1>5. ASSUME NEW x \in Servers \ {s}  PROVE Placed(x)'
  <2>1. Fed(conn[x]) \/ Online(conn[x]) => Attached(conn[x])
    BY DEF Fed, Online, Attached
  <2>2. Placed(x) /\ Advances(x, 0) /\ SameSlave(x)
    BY <2>1 DEF Offsets, OnlyConn, Advances
  <2> QED BY <2>2, PlacedAdvances
<1> QED BY <1>5, SameSetup DEF Offsets

LEMMA OffsetsAnswer ==
  ASSUME Type, Connections, Offsets, setup' = setup, NEW m \in Servers, NEW s \in Servers, SyncCommand(m, s)
  PROVE  Offsets'
<1>0. TypeOK /\ setup \in Setups /\ Ctl(s) /\ Placed(s)
  BY TypeParts DEF Type, ServerTypes, Connections, Offsets
<1>r. /\ conn[s].to = m /\ conn[s].up /\ conn[s].cmds # <<>> /\ conn[s].in \in Seq(Lines)
      /\ conn[s].cmds \in Seq(Requests) /\ \A x \in Servers : SameSlave(x)
      /\ runid' = runid /\ master[s].off \in Int /\ mro[m] \in Int
  <2>1. SyncRequest(m, s) /\ UNCHANGED slaveVars /\ runid' = runid
    BY DEF SyncCommand, SyncIgnored, SyncRefused, SyncPartial, SyncForkFails, SyncDuringBgsave, SyncStartsBgsave,
           SyncServed, serverVars
  <2>2. master[s].off \in Int /\ mro[m] \in Int
    BY DEF Type, SlaveTypes, Positions, ServerTypes
  <2> QED BY <1>0, <2>1, <2>2, ConnTypes DEF SyncRequest, slaveVars, SameSlave
<1>n. conn[s].replstate = "NONE" => ~Attached(conn[s])
  BY DEF Attached
<1>l. /\ <<Line("ERR")>> \in Seq(Lines) /\ <<Line("CONTINUE")>> \in Seq(Lines)
      /\ Line("ERR").t = "ERR" /\ Line("CONTINUE").t = "CONTINUE"
      /\ \A q \in Seq(Lines) : Append(q, Line("ERR")) = q \o <<Line("ERR")>>
  <2>1. \A t \in {"CONTINUE", "ERR"} : Line(t) \in Lines /\ Line(t).t = t
    BY <1>0, LineTypes
  <2> QED BY <2>1, AppendIsConcat
<1>f. FullReply(m, s) \in Seq(Lines)
  BY <1>0, FullReplyType
\* A PSYNC with the position of the slave's master.
<1>p. ASSUME conn[s].cmds = <<Psync(master[s])>>
      PROVE  /\ Cmd(s).name = "PSYNC" /\ Cmd(s).run = master[s].run /\ Cmd(s).off = master[s].off + 1
             /\ Tail(conn[s].cmds) = <<>>
             /\ FullReply(m, s) = <<FullLine(Run(m), FullOffset(m))>>
             /\ LET l == FullLine(Run(m), FullOffset(m))
                IN  l \in Lines /\ l.t = "FULLRESYNC" /\ l.run = Run(m) /\ l.off = FullOffset(m)
  <2>1. Cmd(s) = Psync(master[s])
    BY <1>p DEF Cmd
  <2>2. Cmd(s).name = "PSYNC" /\ Cmd(s).run = master[s].run /\ Cmd(s).off = master[s].off + 1
    BY <2>1 DEF Psync
  <2>3. Tail(conn[s].cmds) = <<>>
    BY <1>p
  <2>4. LET l == FullLine(Run(m), FullOffset(m))
        IN  l \in Lines /\ l.t = "FULLRESYNC" /\ l.run = Run(m) /\ l.off = FullOffset(m)
    BY <1>0, FullReplyType, LineTypes
  <2>5. FullReply(m, s) = <<FullLine(Run(m), FullOffset(m))>>
    BY <2>2 DEF FullReply
  <2> QED BY <2>2, <2>3, <2>4, <2>5
<1>e. \A ls \in Seq(Lines) : conn[s].in = <<>> => conn[s].in \o ls = ls
  OBVIOUS
\* The offsets stay as they are when the request creates no backlog.
<1>k. ASSUME mro' = mro, OnlyConn(s), Placed(s)'  PROVE Offsets'
  BY <1>k, <1>r, OffsetsOwn
<1>1. CASE SyncIgnored(m, s)
  <2>1. /\ OnlyConn(s) /\ conn'[s].to = conn[s].to /\ conn'[s].up = conn[s].up /\ conn'[s].in = conn[s].in
        /\ conn'[s].replstate = conn[s].replstate /\ conn'[s].obuf = conn[s].obuf
        /\ conn'[s].cmds = Tail(conn[s].cmds)
    BY <1>0, <1>1, SyncIgnoredEffect
  <2>2. mro' = mro /\ Attached(conn[s])
    BY <1>1 DEF SyncIgnored, serverVars, Attached
  <2>3. Placed(s)'
    <3> SUFFICES ASSUME ~OverlapBgsave  PROVE Asked(s)' /\ Transfer(s)' /\ Connected(s)'
      BY DEF Placed, OverlapBgsave
    <3>1. Asked(s) /\ Transfer(s) /\ Connected(s)
      BY <1>0 DEF Placed
    <3>2. runid'[conn'[s].to] = runid[conn[s].to] /\ mro'[conn'[s].to] = mro[conn[s].to] /\ SameSlave(s)
      BY <1>r, <2>1, <2>2
    <3>3. (Attached(conn'[s]) <=> Attached(conn[s])) /\ (Online(conn'[s]) <=> Online(conn[s])) /\ (Fed(conn'[s]) <=> Fed(conn[s]))
      BY <2>1 DEF Attached, Online, Fed
    <3>4. ~AfterFull(conn[s], 0) /\ ~AfterFull(conn[s], 1)
      BY <1>r DEF AfterFull
    <3>5. Transfer(s)'
      BY <3>1, <3>2, <3>4 DEF Transfer, SameSlave
    <3>6. Connected(s)'
      BY <2>1, <3>1, <3>2, <3>3 DEF Connected, SameSlave, Reads, ReadsTo, Run
    <3>7. Asked(s)'
      BY <2>1, <2>2, <3>1, <3>2, <3>3, <3>4 DEF Asked, SameSlave, Reads, ReadsTo, Run
    <3> QED BY <3>5, <3>6, <3>7
  <2> QED BY <1>k, <2>1, <2>2, <2>3
<1>2. CASE SyncRefused(m, s)
  <2> DEFINE ls == <<Line("ERR")>>
  <2>1. OnlyConn(s) /\ conn'[s].in = conn[s].in \o ls
    BY <1>0, <1>2, <1>l, <1>r, SyncRefusedEffect
  <2>2. mro' = mro /\ ~Attached(conn[s])
    BY <1>2, <1>n DEF SyncRefused, serverVars
  <2>3. conn[s].in = <<>> => Answers(conn'[s], master[s], <<conn'[s].to, runid'[conn'[s].to]>>, mro'[conn'[s].to])
    BY <1>e, <1>l, <2>1 DEF Answers
  <2>4. Placed(s)'
    BY <1>0, <1>l, <1>r, <2>1, <2>2, <2>3, PlacedAnswered
  <2> QED BY <1>k, <2>1, <2>2, <2>4
<1>3. CASE SyncForkFails(m, s)
  <2> DEFINE a == FullReply(m, s)
             b == <<Line("ERR")>>
             ls == a \o b
             q == conn[s].in
             d == conn'[s]
  <2>1. OnlyConn(s) /\ d.in = (q \o a) \o b /\ d.replstate = conn[s].replstate /\ d.cmds = Tail(conn[s].cmds)
    BY <1>0, <1>3, SyncForkFailsEffect
  <2>2. mro' = mro /\ ~Attached(conn[s]) /\ ~Attached(d)
    <3>1. mro' = mro /\ conn[s].replstate = "NONE"
      BY <1>3 DEF SyncForkFails, SyncServed, serverVars
    <3> QED BY <2>1, <3>1 DEF Attached
  <2>3. ls \in Seq(Lines) /\ d.in = q \o ls
    <3>1. a \in Seq(Lines) /\ b \in Seq(Lines) /\ q \in Seq(Lines)
      BY <1>f, <1>l, <1>r
    <3> HIDE DEF a, b, q
    <3> QED BY <2>1, <3>1, ConcatProperties, ConcatAssociative
  <2>4. ASSUME q = <<>>, conn[s].cmds = <<Psync(master[s])>>
        PROVE  Answers(d, master[s], <<d.to, runid'[d.to]>>, mro'[d.to])
    <3> DEFINE l == FullLine(Run(m), FullOffset(m))
               e == Line("ERR")
    <3>1. d.in = <<l>> \o <<e>> /\ d.cmds = <<>> /\ l \in Lines /\ l.t = "FULLRESYNC"
      BY <1>e, <1>p, <2>1, <2>3, <2>4
    <3>2. e.t = "ERR" /\ e \in Lines /\ ~Online(d) /\ ~Fed(d)
      BY <1>0, <1>l, <2>2, LineTypes DEF Attached, Online, Fed
    <3> HIDE DEF l, e, d, q, a, b
    <3>3. d.in[1] = l /\ d.in[2] = e /\ Len(d.in) = 2 /\ d.in # <<>>
      BY <3>1
    <3>4. AfterFull(d, 1)
      BY <2>2, <3>1, <3>2, <3>3 DEF AfterFull
    <3>5. CountsTo(d, 1, d.in[1].run, d.in[1].off, <<d.to, runid'[d.to]>>, mro'[d.to])
      BY <3>2 DEF CountsTo
    <3> QED BY <3>1, <3>3, <3>4, <3>5 DEF Answers
  <2> HIDE DEF ls
  <2>5. Placed(s)'
    BY <1>0, <1>r, <2>2, <2>3, <2>4, PlacedAnswered
  <2> QED BY <1>k, <2>1, <2>2, <2>5
<1>4. CASE SyncPartial(m, s)
  <2> DEFINE b == BacklogFrom(m, Cmd(s).off)
             l == <<Line("CONTINUE")>>
             ls == l \o b
             q == conn[s].in
             d == conn'[s]
             n == mro[m] - Cmd(s).off + 1
  <2>1. OnlyConn(s) /\ d.in = (q \o l) \o b /\ d.replstate = "ONLINE" /\ d.to = m
    BY <1>0, <1>4, <1>r, SyncPartialEffect
  <2>2. mro' = mro /\ ~Attached(conn[s]) /\ PsyncAccepted(m, s)
    BY <1>4, <1>n DEF SyncPartial, SyncServed, serverVars
  <2>3. /\ b \in Seq(Lines) /\ backlog[m] \in Seq(Writes) /\ n \in 0 .. Len(backlog[m]) /\ Len(b) = n
        /\ \A i \in 1 .. n : b[i] = Unit(backlog[m][Len(backlog[m]) - n + i])
    BY <1>0, <1>r, <2>2, BacklogFromType
  <2> HIDE DEF b
  <2>4. \A i \in 1 .. Len(b) : b[i].t = "unit"
    <3> HIDE DEF n
    <3>2. \A i \in 1 .. n : Len(backlog[m]) - n + i \in 1 .. Len(backlog[m])
      BY <2>3
    <3>3. \A i \in 1 .. n : backlog[m][Len(backlog[m]) - n + i] \in Writes
      BY <2>3, <3>2, ElementOfSeq
    <3> QED BY <1>0, <2>3, <3>3, LineTypes
  <2>5. ls \in Seq(Lines) /\ d.in = q \o ls
    <3>1. l \in Seq(Lines) /\ q \in Seq(Lines)
      BY <1>l, <1>r
    <3> HIDE DEF l, q
    <3> QED BY <2>1, <2>3, <3>1, ConcatProperties, ConcatAssociative, SMTT(30)
  <2>6. ASSUME q = <<>>, conn[s].cmds = <<Psync(master[s])>>
        PROVE  Answers(d, master[s], <<d.to, runid'[d.to]>>, mro'[d.to])
    <3>1. master[s].run = Run(m) /\ n = mro[m] - master[s].off /\ Cmd(s).off = master[s].off + 1
      BY <1>p, <1>r, <2>2, <2>6 DEF PsyncAccepted
    <3>2. d.in = ls
      BY <1>e, <2>5, <2>6
    <3>3. l \in Seq(Lines) /\ Len(l) = 1 /\ l[1].t = "CONTINUE"
      BY <1>l
    <3>4. /\ Len(ls) = 1 + Len(b) /\ Len(b) \in Nat
          /\ \A i \in 1 .. 1 + Len(b) : ls[i] = IF i <= 1 THEN l[i] ELSE b[i - 1]
      <4>1. l \in Seq(Lines) /\ b \in Seq(Lines) /\ Len(l) = 1
        BY <2>3, <3>3
      <4> HIDE DEF l
      <4>2. /\ Len(ls) = Len(l) + Len(b)
            /\ \A i \in 1 .. Len(l) + Len(b) : ls[i] = IF i <= Len(l) THEN l[i] ELSE b[i - Len(l)]
        BY <4>1, ConcatProperties
      <4> HIDE DEF ls
      <4> QED BY <4>1, <4>2, LenProperties
    <3> HIDE DEF ls, l
    <3>5. d.in # <<>> /\ d.in[1].t = "CONTINUE" /\ \A i \in 2 .. Len(d.in) : d.in[i].t = "unit"
      BY <2>4, <3>2, <3>3, <3>4
    <3>6. ReadsTo(d, 1, master[s].run, master[s].off, <<d.to, runid'[d.to]>>, mro'[d.to])
      <4>1. mro'[d.to] = mro[m] /\ <<d.to, runid'[d.to]>> = Run(m) /\ Len(b) = mro[m] - master[s].off
        BY <1>r, <2>1, <2>2, <2>3, <3>1 DEF Run
      <4>2. master[s].off + Len(d.in) - 1 = mro[m]
        <5> DEFINE o == master[s].off
                   z == mro[m]
                   k == Len(b)
        <5>1. o \in Int /\ z \in Int /\ k = z - o /\ Len(d.in) = 1 + k
          BY <1>r, <3>2, <3>4, <4>1
        <5> HIDE DEF o, z, k
        <5>2. o + Len(d.in) - 1 = z
          BY <5>1
        <5> QED BY <5>2 DEF o, z
      <4> QED BY <3>1, <4>1, <4>2 DEF ReadsTo
    <3>7. Online(d)
      BY <2>1 DEF Online
    <3> QED BY <3>5, <3>6, <3>7 DEF Answers
  <2> HIDE DEF ls
  <2>7. Placed(s)'
    BY <1>0, <1>r, <2>2, <2>5, <2>6, PlacedAnswered
  <2> QED BY <1>k, <2>1, <2>2, <2>7
<1>5. CASE SyncStartsBgsave(m, s)
  <2> DEFINE ls == FullReply(m, s)
             q == conn[s].in
             d == conn'[s]
  <2>1. AttachSlave(m, s, "WAIT_BGSAVE_END", <<>>) /\ CreateBacklog(m) /\ SyncRequest(m, s) /\ conn[s].replstate = "NONE"
    BY <1>5 DEF SyncStartsBgsave, SyncServed, AttachSlave
  <2>2. "WAIT_BGSAVE_END" \in States /\ <<>> \in Seq(Writes)
    BY DEF States
  <2>3. /\ OnlyConn(s) /\ d.in = q \o ls /\ d.replstate = "WAIT_BGSAVE_END" /\ d.obuf = <<>>
        /\ d.cmds = Tail(conn[s].cmds) /\ d.to = m
    <3>1. ASSUME NEW st \in States, NEW ob \in Seq(Writes), AttachSlave(m, s, st, ob)
          PROVE  /\ OnlyConn(s) /\ d.in = q \o FullReply(m, s) /\ d.replstate = st /\ d.obuf = ob
                 /\ d.cmds = Tail(conn[s].cmds) /\ d.to = conn[s].to
      BY <1>0, <2>1, <3>1, AttachSlaveEffect
    <3> HIDE DEF d, q
    <3>2. /\ OnlyConn(s) /\ d.in = q \o FullReply(m, s) /\ d.replstate = "WAIT_BGSAVE_END" /\ d.obuf = <<>>
          /\ d.cmds = Tail(conn[s].cmds) /\ d.to = conn[s].to
      BY <2>1, <2>2, <3>1
    <3> QED BY <1>r, <3>2
  <2>4. mro'[m] = FullOffset(m)
    <3>1. CASE HasBacklog(m)
      BY <2>1, <3>1, CreateEffect DEF FullOffset
    <3>2. CASE ~HasBacklog(m)
      <4>1. \A x \in Servers : ~(conn[x].to = m /\ Attached(conn[x]))
        BY <3>2, AttachedTo DEF Ready
      <4>2. Slaves(m) = {}
        BY <4>1 DEF Slaves, Attached
      <4> QED BY <2>1, <3>2, <4>2, CreateEffect DEF FullOffset
    <3> QED BY <3>1, <3>2
  <2>5. ASSUME q = <<>>, conn[s].cmds = <<Psync(master[s])>>
        PROVE  Answers(d, master[s], <<d.to, runid'[d.to]>>, mro'[d.to])
    <3> DEFINE l == FullLine(Run(m), FullOffset(m))
    <3>1. d.in = <<l>> /\ d.cmds = <<>> /\ l \in Lines /\ l.t = "FULLRESYNC" /\ l.run = Run(m) /\ l.off = FullOffset(m)
      BY <1>e, <1>f, <1>p, <2>3, <2>5
    <3>2. ~Online(d) /\ Run(m) = <<d.to, runid'[d.to]>> /\ mro'[d.to] = FullOffset(m) /\ Len(d.obuf) = 0
          /\ FullOffset(m) \in Int
      BY <1>0, <1>r, <2>3, <2>4, FullReplyType DEF Online, Run
    <3> HIDE DEF l, d, q, ls
    <3>3. d.in[1] = l /\ Len(d.in) = 1 /\ d.in # <<>>
      BY <3>1
    <3>4. AfterFull(d, 1)
      BY <3>1, <3>2, <3>3 DEF AfterFull
    <3>5. CountsTo(d, 1, d.in[1].run, d.in[1].off, <<d.to, runid'[d.to]>>, mro'[d.to])
      <4>1. FullOffset(m) + Len(d.obuf) = FullOffset(m)
        BY <3>2
      <4> QED BY <3>1, <3>2, <3>3, <4>1 DEF CountsTo
    <3> QED BY <3>1, <3>3, <3>4, <3>5 DEF Answers
  <2> HIDE DEF ls
  <2>6. ls \in Seq(Lines) /\ ~Attached(conn[s])
    BY <1>f, <1>n, <2>1 DEF ls
  <2>7. Placed(s)'
    BY <1>0, <1>r, <2>3, <2>5, <2>6, PlacedAnswered
  <2> QED BY <1>r, <2>1, <2>3, <2>7, CreateKeeps, OffsetsOwn
<1>6. CASE SyncDuringBgsave(m, s)
  <2>1. OverlapBgsave /\ OverlapBgsave' = OverlapBgsave /\ Servers' = Servers
    BY <1>6, SameSetup DEF SyncDuringBgsave, OverlapBgsave
  <2> QED BY <2>1 DEF Offsets, Placed
<1> QED BY <1>1, <1>2, <1>3, <1>4, <1>5, <1>6 DEF SyncCommand

LEMMA Between ==
  ASSUME NEW q \in Seq(Lines), NEW b \in Seq(Lines), Len(b) = 1, NEW us \in Seq(Lines)
  PROVE  LET all == (q \o b) \o us
         IN  /\ all \in Seq(Lines) /\ Len(all) = Len(q) + 1 + Len(us)
             /\ \A i \in 1 .. Len(q) : all[i] = q[i]
             /\ all[Len(q) + 1] = b[1]
<1> DEFINE qb == q \o b
           all == qb \o us
<1>1. qb \in Seq(Lines) /\ Len(qb) = Len(q) + Len(b)
      /\ \A i \in 1 .. Len(q) + Len(b) : qb[i] = IF i <= Len(q) THEN q[i] ELSE b[i - Len(q)]
  BY ConcatProperties
<1>a. qb \in Seq(Lines)
  BY <1>1
<1> HIDE DEF qb
<1>2. all \in Seq(Lines) /\ Len(all) = Len(qb) + Len(us)
      /\ \A i \in 1 .. Len(qb) + Len(us) : all[i] = IF i <= Len(qb) THEN qb[i] ELSE us[i - Len(qb)]
  BY <1>a, ConcatProperties
<1>3. Len(q) \in Nat /\ Len(us) \in Nat
  BY LenProperties
<1> HIDE DEF all
<1>4. \A i \in 1 .. Len(q) : all[i] = q[i]
  BY <1>1, <1>2, <1>3
<1>5. all[Len(q) + 1] = b[1]
  BY <1>1, <1>2, <1>3
<1> QED BY <1>1, <1>2, <1>3, <1>4, <1>5 DEF all, qb

\* Feeding m's slaves keeps the offset of m and what each of them was sent in step.
LEMMA FedAdvances ==
  ASSUME Type, Connections, NEW m \in Servers, NEW w \in Writes, FeedBacklog(m, w), runid' = runid,
         NEW cn, Feeds(cn, m, w), NEW x \in Servers, cn[x].to = conn[x].to, cn[x].up = conn[x].up,
         cn[x].cmds = conn[x].cmds, cn[x].in = conn[x].in, cn[x].replstate = conn[x].replstate, cn[x].obuf = conn[x].obuf
  PROVE  \E v \in Writes \cup {0} : Advances(x, v)
<1> DEFINE c == conn[x]
           d == conn'[x]
<1>0. w # 0
  BY SetupTypes DEF Type, ServerTypes, Writes
<1>1. /\ d.to = c.to /\ d.up = c.up /\ d.cmds = c.cmds /\ d.replstate = c.replstate
      /\ d.obuf = IF c.to = m /\ Fed(c) THEN Append(c.obuf, w) ELSE c.obuf
      /\ d.in = IF c.to = m /\ Online(c) THEN Append(c.in, Unit(w)) ELSE c.in
  BY DEF Feeds, Fed, Online
<1>2. Fed(c) \/ Online(c) => c.to \in Servers /\ HasBacklog(c.to)
  <2>1. Fed(c) \/ Online(c) => Attached(c)
    BY DEF Fed, Online, Attached
  <2> QED BY <2>1, AttachedTo DEF Ready
<1> HIDE DEF c, d
<1>3. CASE c.to = m
  <2>1. Fed(c) \/ Online(c) => mro'[c.to] = mro[c.to] + 1
    BY <1>2, <1>3, FeedEffect
  <2>2. Advances(x, w)
    BY <1>0, <1>1, <1>3, <2>1 DEF Advances, c, d
  <2> QED BY <2>2
<1>4. CASE c.to # m
  <2>1. Fed(c) \/ Online(c) => mro'[c.to] = mro[c.to]
    BY <1>2, <1>4, FeedEffect
  <2>2. Advances(x, 0)
    BY <1>1, <1>4, <2>1 DEF Advances, c, d
  <2> QED BY <2>2
<1> QED BY <1>3, <1>4

LEMMA OffsetsMaster ==
  ASSUME Type, Connections, Offsets, setup' = setup, NEW m \in Servers,
         \/ Write(m) \/ Bgsave(m) \/ FreeBacklog(m) \/ \E ok \in BOOLEAN : BgsaveDone(m, ok)
         \/ \E s \in Servers : SendBulk(m, s) \/ DropSlave(m, s)
  PROVE  Offsets'
<1>0. /\ TypeOK /\ setup \in Setups /\ \A x \in Servers : Ctl(x) /\ Placed(x)
      /\ Servers' = Servers /\ OverlapBgsave' = OverlapBgsave
  BY TypeParts, SameSetup DEF Type, ServerTypes, Connections, Offsets, OverlapBgsave
<1>r. runid' = runid /\ \A x \in Servers : SameSlave(x)
  BY DEF Write, Bgsave, FreeBacklog, BgsaveDone, SendBulk, DropSlave, serverVars, slaveVars, SameSlave
<1>1. CASE Write(m)
  <2>1. writes' \in Writes /\ Feeds(conn, m, writes') /\ FeedBacklog(m, writes')
    BY <1>0, <1>1, WriteEffect DEF Write
  <2> DEFINE w == writes'
  <2>2. ASSUME NEW x \in Servers  PROVE Placed(x)'
    <3>1. PICK v \in Writes \cup {0} : Advances(x, v)
      <4> HIDE DEF w
      <4>1. w \in Writes /\ Feeds(conn, m, w) /\ FeedBacklog(m, w)
        BY <2>1 DEF w
      <4> QED BY <1>r, <4>1, FedAdvances
    <3> QED BY <1>0, <1>r, <3>1, PlacedAdvances
  <2> QED BY <1>0, <2>2 DEF Offsets
<1>2. CASE Bgsave(m) \/ FreeBacklog(m)
  <2>1. mro' = mro /\ conn' = conn
    BY <1>2 DEF Bgsave, FreeBacklog
  <2>2. \A x \in Servers : Advances(x, 0)
    BY <1>r, <2>1 DEF Advances
  <2> QED BY <1>0, <1>r, <2>2, PlacedAdvances DEF Offsets
<1>4. ASSUME NEW ok \in BOOLEAN, BgsaveDone(m, ok)  PROVE Offsets'
  <2> SUFFICES ASSUME NEW x \in Servers, ~OverlapBgsave  PROVE Placed(x)'
    BY <1>0 DEF Offsets, Placed
  <2>1. /\ mro' = mro /\ child[m] # NoChild
        /\ conn' = [y \in Servers |-> AfterBgsave(m, conn[y], ok, child[m])]
    BY <1>4 DEF BgsaveDone
  <2> DEFINE c == conn[x]
             file == child[m]
             d == AfterBgsave(m, c, ok, file)
  <2>2. c \in Conns /\ file \in Seq(Writes) /\ conn'[x] = d /\ c.replstate \in States
    BY <1>0, <2>1, ConnTypes DEF Type, ServerTypes
  <2>3. c.replstate # "WAIT_BGSAVE_START"
    BY <1>0 DEF Ctl, Once
  <2> HIDE DEF c, file
  <2>4. BgsaveEnded(m, c, ok, file, d)
    BY <2>2, AfterBgsaveFields
  <2> HIDE DEF d
  <2>5. CASE c.to = m /\ c.replstate = "WAIT_BGSAVE_END" /\ ~ok
    <3>1. Gone(conn[x], conn'[x])
      BY <2>2, <2>4, <2>5 DEF BgsaveEnded, Gone, c
    <3> QED BY <1>0, <1>r, <3>1, PlacedClosed
  <2>6. CASE ~(c.to = m /\ c.replstate = "WAIT_BGSAVE_END" /\ ~ok)
    <3>1. /\ d.to = c.to /\ d.up = c.up /\ d.cmds = c.cmds /\ d.in = c.in /\ d.obuf = c.obuf
          /\ d.replstate = c.replstate \/ (Fed(c) /\ Fed(d))
      BY <2>2, <2>3, <2>4, <2>6 DEF BgsaveEnded, States, Fed
    <3>2. Advances(x, 0)
      BY <1>r, <2>1, <2>2, <3>1 DEF Advances, c
    <3> QED BY <1>0, <1>r, <3>2, PlacedAdvances
  <2> QED BY <2>5, <2>6
<1>5. ASSUME NEW s \in Servers, SendBulk(m, s)  PROVE Offsets'
  <2> DEFINE us == [i \in DOMAIN conn[s].obuf |-> Unit(conn[s].obuf[i])]
             b == <<Bulk(conn[s].snap)>>
             c == conn[s]
             d == conn'[s]
             q == c.in
             run == <<d.to, runid'[d.to]>>
             off == mro'[d.to]
  <2>1. /\ OnlyConn(s) /\ d.to = c.to /\ d.up = c.up /\ d.cmds = c.cmds
        /\ d.in = (q \o b) \o us /\ d.replstate = "ONLINE"
        /\ us \in Seq(Lines) /\ Len(us) = Len(c.obuf)
    BY <1>0, <1>5, SendBulkEffect
  <2>2. mro' = mro /\ c.replstate = "SEND_BULK" /\ c.to = m
    BY <1>5 DEF SendBulk, serverVars
  <2>3. /\ Ctl(s) /\ Placed(s) /\ Attached(c) /\ ~Online(c) /\ Fed(c) /\ q \in Seq(Lines) /\ c.obuf \in Seq(Writes)
        /\ c.snap \in Seq(Writes) /\ c.up /\ Online(d) /\ ~Fed(d)
        /\ run = Run(c.to) /\ off = mro[c.to] /\ off \in Int
    <3>1. q \in Seq(Lines) /\ c.obuf \in Seq(Writes) /\ c.snap \in Seq(Writes)
      BY <1>0, ConnTypes
    <3>2. Attached(c) /\ ~Online(c) /\ Fed(c) /\ Online(d) /\ ~Fed(d)
      BY <2>1, <2>2 DEF Attached, Online, Fed
    <3>3. c.up
      BY <1>0, <3>2 DEF Ctl, Control
    <3>4. run = Run(c.to) /\ off = mro[c.to] /\ off \in Int
      BY <1>r, <2>1, <2>2 DEF Run, Type, ServerTypes
    <3> QED BY <1>0, <3>1, <3>2, <3>3, <3>4
  <2>5. b \in Seq(Lines) /\ b[1].t = "bulk" /\ Len(b) = 1
    <3>1. Bulk(c.snap) \in Lines /\ Bulk(c.snap).t = "bulk"
      BY <1>0, <2>3, LineTypes
    <3> QED BY <3>1
  <2> HIDE DEF us, b
  <2>6. /\ d.in \in Seq(Lines) /\ Len(d.in) = Len(q) + 1 + Len(c.obuf) /\ Len(q) \in Nat /\ Len(c.obuf) \in Nat
        /\ \A i \in 1 .. Len(q) : d.in[i] = q[i]
        /\ d.in[Len(q) + 1].t = "bulk"
    <3>0. q \in Seq(Lines) /\ us \in Seq(Lines) /\ b \in Seq(Lines) /\ Len(b) = 1 /\ b[1].t = "bulk"
          /\ d.in = (q \o b) \o us /\ Len(us) = Len(c.obuf) /\ Len(q) \in Nat /\ Len(us) \in Nat
      BY <2>1, <2>3, <2>5
    <3> DEFINE all == (q \o b) \o us
    <3> HIDE DEF c, d, q
    <3>1. q \in Seq(Lines) /\ us \in Seq(Lines) /\ b \in Seq(Lines) /\ Len(b) = 1
      BY <3>0
    <3>2. /\ all \in Seq(Lines) /\ Len(all) = Len(q) + 1 + Len(us)
          /\ \A i \in 1 .. Len(q) : all[i] = q[i]
          /\ all[Len(q) + 1] = b[1]
      BY <3>1, Between
    <3>3. d.in = all
      BY <3>0
    <3> HIDE DEF all
    <3> QED BY <3>0, <3>2, <3>3
  <2>7. OverlapBgsave \/ (Asked(s) /\ Transfer(s) /\ Connected(s))
    BY <2>3 DEF Placed
  <2>s. SameSlave(s)
    BY <1>r
  <2> HIDE DEF c, d, q, run, off
  \* Behind the announcement there was nothing; now there is the bulk, with the units.
  <2>8. ASSUME NEW k \in {0, 1}, AfterFull(c, k), Len(q) >= k, NEW r, NEW o \in Int, Counted(c, k, r, o)
        PROVE  AfterFull(d, k) /\ CountsTo(d, k, r, o, run, off)
    <3>1. Len(q) = k /\ c.cmds = <<>>
      BY <2>3, <2>6, <2>8 DEF AfterFull, q
    <3>2. AfterFull(d, k)
      <4>1. Len(d.in) > k /\ Len(d.in) # k /\ d.in[k + 1].t = "bulk"
        BY <2>6, <2>8, <3>1
      <4>2. d.cmds = <<>>
        BY <2>1, <3>1
      <4> QED BY <2>3, <4>1, <4>2 DEF AfterFull
    <3>3. r = Run(c.to) /\ o + Len(c.obuf) = mro[c.to]
      BY <2>3, <2>8 DEF Counted, CountsTo
    <3>4. o + Len(d.in) - (k + 1) = off
      <4> DEFINE a == Len(c.obuf)
                 n == Len(d.in)
      <4>1. a \in Nat /\ n = k + 1 + a /\ o + a = off /\ off \in Int /\ k \in Int
        BY <2>3, <2>6, <3>1, <3>3
      <4> HIDE DEF a, n
      <4>2. o + n - (k + 1) = off
        BY <4>1
      <4> QED BY <4>2 DEF n
    <3> QED BY <2>3, <3>2, <3>3, <3>4 DEF CountsTo
  <2>9. Placed(s)'
    <3> SUFFICES ASSUME ~OverlapBgsave  PROVE Asked(s)' /\ Transfer(s)' /\ Connected(s)'
      BY DEF Placed, OverlapBgsave
    <3>1. Connected(s)'
      BY <2>3, <2>7, <2>s DEF Connected, SameSlave, c
    <3>2. Transfer(s)'
      <4> SUFFICES ASSUME repl_state[s] = "TRANSFER", full[s].off # -1
                   PROVE  AfterFull(d, 0) /\ CountsTo(d, 0, full[s].run, full[s].off, run, off)
        BY <2>s DEF Transfer, SameSlave, d, Counted, Run, run, off
      <4>1. AfterFull(c, 0) /\ Counted(c, 0, full[s].run, full[s].off) /\ full[s].off \in Int
        BY <2>7 DEF Transfer, c, Type, SlaveTypes
      <4> QED BY <2>6, <2>8, <4>1
    <3>3. Asked(s)'
      <4> SUFFICES ASSUME repl_state[s] = "PSYNC"
                   PROVE  /\ full[s].off = -1
                          /\ d.in # <<>> /\ d.in[1].t # "CONTINUE"
                          /\ d.in[1].t = "FULLRESYNC" => AfterFull(d, 1) /\ CountsTo(d, 1, d.in[1].run, d.in[1].off, run, off)
        BY <2>s DEF Asked, SameSlave, d, Psync, Counted, Reads, Run, run, off
      <4>1. /\ full[s].off = -1 /\ q # <<>> /\ q[1].t # "CONTINUE"
            /\ q[1].t = "FULLRESYNC" => AfterFull(c, 1) /\ Counted(c, 1, q[1].run, q[1].off)
        BY <2>3, <2>7 DEF Asked, c, q
      <4>2. Len(q) >= 1 /\ d.in[1] = q[1] /\ d.in # <<>> /\ q[1].off \in Int
        <5>1. q \in Seq(Lines) /\ Len(q) >= 1
          BY <2>3, <4>1
        <5>2. q[1] \in Lines
          BY <5>1
        <5>3. q[1].off \in Int
          BY <5>2 DEF Lines
        <5>4. d.in[1] = q[1]
          BY <2>6, <5>1
        <5>5. d.in # <<>>
          <6>1. d.in = <<>> => Len(d.in) = 0
            OBVIOUS
          <6>2. Len(q) + 1 + Len(c.obuf) # 0
            <7> DEFINE n == Len(q)
                       k == Len(c.obuf)
            <7>1. n \in Nat /\ k \in Nat
              BY <2>6, Zenon
            <7> HIDE DEF n, k
            <7>2. n + 1 + k # 0
              BY <7>1
            <7> QED BY <7>2 DEF n, k
          <6> QED BY <2>6, <6>1, <6>2, Zenon
        <5> QED BY <5>1, <5>3, <5>4, <5>5
      <4> QED BY <2>8, <4>1, <4>2
    <3> QED BY <3>1, <3>2, <3>3
  <2> QED BY <1>r, <2>1, <2>2, <2>9, OffsetsOwn
<1>6. ASSUME NEW s \in Servers, DropSlave(m, s)  PROVE Offsets'
  <2>1. OnlyConn(s) /\ Closed(conn[s], conn'[s]) /\ mro' = mro
    BY <1>0, <1>6, DropEffect DEF DropSlave, serverVars
  <2>2. Gone(conn[s], conn'[s])
    BY <2>1 DEF Closed, Gone
  <2>3. Placed(s)'
    BY <1>0, <1>r, <2>2, PlacedClosed
  <2> QED BY <1>r, <2>1, <2>3, OffsetsOwn
<1> QED BY <1>1, <1>2, <1>4, <1>5, <1>6

\* s gives up its connection, and with it its slaves, if it had any.
LEMMA OffsetsGivesUp ==
  ASSUME Type, Connections, Offsets, setup' = setup, NEW s \in Servers, NEW S, Cut(s, S),
         repl_state'[s] \notin {"PSYNC", "TRANSFER", "CONNECTED"},
         \A x \in Servers \ {s} : SameSlave(x) /\ runid'[x] = runid[x] /\ mro'[x] = mro[x],
         \A x \in Servers \ {s} : Attached(conn[x]) /\ conn[x].to = s
                                    => x \in S \/ (runid'[s] = runid[s] /\ mro'[s] = mro[s])
  PROVE  Offsets'
<1>1. ASSUME NEW x \in Servers \ {s}  PROVE Placed(x)'
  <2>1. Placed(x)
    BY DEF Offsets
  <2>2. CASE x \in S
    <3>1. Gone(conn[x], conn'[x])
      BY <2>2 DEF Cut, Closed, Gone
    <3> QED BY <2>1, <3>1, PlacedClosed
  <2>3. CASE x \notin S
    <3>1. conn'[x] = conn[x]
      BY <2>3 DEF Cut
    <3>2. Fed(conn[x]) \/ Online(conn[x]) => Attached(conn[x])
      BY DEF Fed, Online, Attached
    <3>3. Attached(conn[x]) => runid'[conn[x].to] = runid[conn[x].to] /\ mro'[conn[x].to] = mro[conn[x].to]
      BY <2>3, AttachedTo
    <3>4. Advances(x, 0)
      BY <3>1, <3>2, <3>3 DEF Advances
    <3> QED BY <2>1, <3>4, PlacedAdvances
  <2> QED BY <2>2, <2>3
<1> QED BY <1>1, PlacedIdle, SameSetup DEF Offsets

\* s reads a unit from its master, and feeds its own slaves; its master may be itself.
LEMMA OffsetsReadUnit ==
  ASSUME Type, Connections, Offsets, setup' = setup, NEW s \in Servers, ReadUnit(s)
  PROVE  Offsets'
<1> DEFINE w == Head(conn[s].in).off
           cn == [conn EXCEPT ![s].in = Tail(@)]
           c == conn[s]
           d == conn'[s]
           run == <<d.to, runid'[d.to]>>
           off == mro'[d.to]
<1>1. w \in Writes
  BY NextUnit
<1>2. /\ Feeds(cn, s, w)
      /\ \A x \in Servers :
           /\ cn[x].to = conn[x].to /\ cn[x].up = conn[x].up /\ cn[x].cmds = conn[x].cmds
           /\ cn[x].replstate = conn[x].replstate /\ cn[x].obuf = conn[x].obuf
           /\ cn[x].in = IF x = s THEN Tail(conn[s].in) ELSE conn[x].in
  BY <1>1, TypeParts, ReadUnitEffect
<1>3. /\ FeedBacklog(s, w) /\ runid' = runid /\ repl_state[s] = "CONNECTED" /\ c.in # <<>>
      /\ repl_state' = repl_state /\ full' = full /\ master' = [master EXCEPT ![s].off = @ + 1]
  BY DEF ReadUnit
<1> HIDE DEF w, cn
<1>4. ASSUME NEW x \in Servers \ {s}  PROVE Placed(x)'
  <2>1. PICK v \in Writes \cup {0} : Advances(x, v)
    BY <1>1, <1>2, <1>3, FedAdvances
  <2>2. SameSlave(x) /\ Placed(x)
    BY <1>3 DEF SameSlave, Offsets, Type, SlaveTypes
  <2> QED BY <2>1, <2>2, PlacedAdvances
<1>5. Placed(s)'
  <2> SUFFICES ASSUME ~OverlapBgsave  PROVE Connected(s)'
    BY <1>3 DEF Placed, Asked, Transfer, OverlapBgsave
  <2> DEFINE q == Tail(c.in)
  <2>1. /\ d.to = c.to /\ d.up = c.up /\ d.replstate = c.replstate
        /\ d.in = IF c.to = s /\ Online(c) THEN Append(q, Unit(w)) ELSE q
    BY <1>2 DEF Feeds, Online
  <2>2. /\ c.in \in Seq(Lines) /\ q \in Seq(Lines) /\ Unit(w) \in Lines /\ Unit(w).t = "unit"
        /\ Len(q) = Len(c.in) - 1 /\ Len(c.in) \in Nat /\ Len(q) \in Nat
        /\ \A i \in 1 .. Len(q) : q[i] = c.in[i + 1]
    <3>1. c.in \in Seq(Lines) /\ setup \in Setups
      BY TypeParts, ConnTypes DEF Type, ServerTypes
    <3>2. Unit(w) \in Lines /\ Unit(w).t = "unit"
      BY <1>1, <3>1, LineTypes
    <3> HIDE DEF c
    <3> QED BY <1>3, <3>1, <3>2, HeadTailProperties
  <2>3. Connected(s)
    BY DEF Offsets, Placed
  <2>4. master \in [Servers -> Positions] /\ master[s].off \in Int /\ mro \in [Servers -> Int]
    BY DEF Type, ServerTypes, SlaveTypes, Positions
  <2>5. master'[s].run = master[s].run /\ master'[s].off = master[s].off + 1 /\ master'[s].pre = master[s].pre
    BY <1>3, <2>4 DEF Positions
  <2>6. Online(c) => c.to \in Servers /\ HasBacklog(c.to)
    <3>1. Online(c) => Attached(c)
      BY DEF Online, Attached
    <3> QED BY <3>1, AttachedTo DEF Ready
  <2>7. Online(c) => run = Run(c.to) /\ mro[c.to] \in Int /\ (c.to = s => off = mro[c.to] + 1) /\ (c.to # s => off = mro[c.to])
    BY <1>1, <1>3, <2>1, <2>4, <2>6, FeedEffect DEF Run
  <2>8. /\ \A i \in 1 .. Len(c.in) : c.in[i].t = "unit"
        /\ c.up => Online(c)
        /\ ~master[s].pre => ReadsTo(c, 0, master[s].run, master[s].off, Run(c.to), mro[c.to])
    BY <1>3, <2>3 DEF Connected, Reads
  <2> HIDE DEF c, d, q, run, off
  <2>9. \A i \in 1 .. Len(q) : q[i].t = "unit"
    <3>1. \A i \in 1 .. Len(q) : i + 1 \in 1 .. Len(c.in)
      BY <2>2
    <3> QED BY <2>2, <2>8, <3>1
  <2>10. \/ d.in = q /\ ~(c.to = s /\ Online(c))
         \/ c.to = s /\ Online(c) /\ Len(d.in) = Len(q) + 1 /\ \A i \in 1 .. Len(d.in) : d.in[i].t = "unit"
    <3>1. CASE c.to = s /\ Online(c)
      <4>1. d.in = Append(q, Unit(w))
        BY <2>1, <3>1
      <4>2. Len(Append(q, Unit(w))) = Len(q) + 1 /\ \A i \in 1 .. Len(q) : Append(q, Unit(w))[i] = q[i]
            /\ Append(q, Unit(w))[Len(q) + 1] = Unit(w)
        BY <2>2, AppendProperties
      <4> QED BY <2>2, <2>9, <3>1, <4>1, <4>2
    <3>2. CASE ~(c.to = s /\ Online(c))
      BY <2>1, <3>2
    <3> QED BY <3>1, <3>2
  <2>11. \A i \in 1 .. Len(d.in) : d.in[i].t = "unit"
    BY <2>9, <2>10
  <2>12. ~master[s].pre => ReadsTo(d, 0, master[s].run, master[s].off + 1, run, off)
    <3> SUFFICES ASSUME ~master[s].pre, Online(d)
                 PROVE  master[s].run = run /\ master[s].off + 1 + Len(d.in) - 0 = off
      BY DEF ReadsTo
    <3>1. Online(c)
      BY <2>1 DEF Online
    <3>2. master[s].run = Run(c.to) /\ master[s].off + Len(c.in) - 0 = mro[c.to]
      BY <2>8, <3>1 DEF ReadsTo
    <3> DEFINE o == master[s].off
               z == mro[c.to]
               n == Len(c.in)
               k == Len(d.in)
    <3>3. o \in Int /\ z \in Int /\ n \in Nat /\ o + n = z
      BY <2>2, <2>4, <2>7, <3>1, <3>2
    <3>4. (k = n - 1 /\ off = z) \/ (k = n /\ off = z + 1)
      <4>1. CASE c.to = s
        BY <2>2, <2>7, <2>10, <3>1, <4>1
      <4>2. CASE c.to # s
        BY <2>2, <2>7, <2>10, <3>1, <4>2
      <4> QED BY <4>1, <4>2
    <3> HIDE DEF o, z, n, k
    <3>5. o + 1 + k - 0 = off
      BY <3>3, <3>4
    <3> QED BY <2>7, <3>1, <3>2, <3>5 DEF o, k
  <2>13. d.up => Online(d)
    BY <2>1, <2>8 DEF Online
  <2> QED BY <1>3, <2>5, <2>11, <2>12, <2>13 DEF Connected, Reads, Run, d, run, off
<1> QED BY <1>4, <1>5, SameSetup DEF Offsets

\* s reads the reply to PSYNC, or the bulk.
LEMMA OffsetsReply ==
  ASSUME Type, Connections, Offsets, setup' = setup, NEW s \in Servers,
         ReplyFull(s) \/ ReplyContinue(s) \/ ReadBulk(s)
  PROVE  Offsets'
<1> DEFINE c == conn[s]
           d == conn'[s]
           run == <<d.to, runid'[d.to]>>
           off == mro'[d.to]
           l == Head(c.in)
<1>1. /\ conn' = [conn EXCEPT ![s].in = Tail(@)] /\ c.in # <<>> /\ UNCHANGED <<runid, mro>>
  BY DEF ReplyFull, ReplyContinue, ReadBulk, serverVars
<1>2. /\ OnlyConn(s) /\ d.to = c.to /\ d.up = c.up /\ d.cmds = c.cmds /\ d.in = Tail(c.in)
      /\ d.replstate = c.replstate /\ d.obuf = c.obuf
  BY <1>1, TypeParts, TailEffect
<1>3. /\ c.in \in Seq(Lines) /\ Len(d.in) = Len(c.in) - 1 /\ Len(c.in) \in Nat /\ Len(d.in) \in Nat /\ Len(c.in) >= 1
      /\ l = c.in[1] /\ l \in Lines /\ l.off \in Int
      /\ \A i \in 1 .. Len(d.in) : d.in[i] = c.in[i + 1]
  <2>1. c.in \in Seq(Lines) /\ l \in Lines /\ l.off \in Int
    BY <1>1, TypeParts, ConnTypes, FirstLine
  <2>2. c.in # <<>> /\ d.in = Tail(c.in)
    BY <1>1, <1>2
  <2> HIDE DEF c, d
  <2> QED BY <2>1, <2>2, HeadTailProperties DEF l
<1>4. /\ DOMAIN repl_state = Servers /\ DOMAIN master = Servers /\ DOMAIN full = Servers
      /\ full[s].off \in Int /\ master[s].off \in Int
  BY DEF Type, SlaveTypes, Positions
<1>5. \A x \in Servers \ {s} : SameSlave(x)
  BY <1>4 DEF ReplyFull, ReplyContinue, ReadBulk, SameSlave
<1>6. (Online(d) <=> Online(c)) /\ (Fed(d) <=> Fed(c)) /\ (Attached(d) <=> Attached(c)) /\ run = Run(c.to) /\ off = mro[c.to]
  BY <1>1, <1>2 DEF Online, Fed, Attached, Run
<1>7. ASSUME ~OverlapBgsave  PROVE Asked(s) /\ Transfer(s) /\ Connected(s)
  BY <1>7 DEF Offsets, Placed
<1>o. ASSUME Online(c)  PROVE mro[c.to] \in Int
  <2>1. c.to \in Servers
    BY <1>o, AttachedTo DEF Online, Attached
  <2> QED BY <2>1 DEF Type, ServerTypes
\* The reading of the announcement.
<1>8. CASE ReplyFull(s)
  <2>1. /\ repl_state[s] = "PSYNC" /\ l.t = "FULLRESYNC"
        /\ full' = [full EXCEPT ![s] = [run |-> l.run, off |-> l.off]]
        /\ repl_state' = [repl_state EXCEPT ![s] = "TRANSFER"]
    BY <1>8 DEF ReplyFull, Blocked
  <2>2. repl_state'[s] = "TRANSFER" /\ full'[s].run = l.run /\ full'[s].off = l.off
    BY <1>4, <2>1
  <2>3. Placed(s)'
    <3> SUFFICES ASSUME ~OverlapBgsave  PROVE Transfer(s)'
      BY <2>2 DEF Placed, Asked, Connected, OverlapBgsave
    <3>1. AfterFull(c, 1) /\ CountsTo(c, 1, l.run, l.off, run, off)
      BY <1>1, <1>3, <1>6, <1>7, <2>1 DEF Asked, Counted
    <3> HIDE DEF c, d, run, off, l
    <3>2. AfterFull(d, 0)
      <4> DEFINE n == Len(c.in)
                 k == Len(d.in)
      <4>0. n \in Nat /\ k = n - 1
        BY <1>3, Zenon
      <4> HIDE DEF n, k
      <4>n. (k = 0 => n = 1) /\ (k > 0 => n > 1 /\ 1 \in 1 .. k)
        BY <4>0
      <4>1. Len(d.in) = 0 => Len(c.in) = 1
        BY <4>n DEF n, k
      <4>2. Len(d.in) > 0 => Len(c.in) > 1 /\ d.in[1] = c.in[2]
        <5>1. \A i \in 1 .. k : d.in[i] = c.in[i + 1]
          BY <1>3, Zenon DEF k
        <5>2. k > 0 => d.in[1] = c.in[1 + 1]
          BY <4>n, <5>1, Zenon
        <5> QED BY <4>n, <5>2 DEF n, k
      <4> QED BY <1>2, <1>6, <3>1, <4>1, <4>2 DEF AfterFull
    <3>3. CountsTo(d, 0, l.run, l.off, run, off)
      <4>1. Fed(d) => l.run = run /\ l.off + Len(d.obuf) = off
        BY <1>2, <1>6, <3>1 DEF CountsTo
      <4>2. Online(d) => l.run = run /\ l.off + Len(d.in) - (0 + 1) = off
        <5> SUFFICES ASSUME Online(c)  PROVE l.run = run /\ l.off + Len(d.in) - (0 + 1) = off
          BY <1>6
        <5>1. l.run = run /\ l.off + Len(c.in) - (1 + 1) = off
          BY <3>1 DEF CountsTo
        <5> DEFINE o == l.off
                   n == Len(c.in)
                   k == Len(d.in)
        <5>2. o \in Int /\ n \in Nat /\ k = n - 1 /\ o + n - (1 + 1) = off
          BY <1>3, <5>1
        <5> HIDE DEF o, n, k
        <5>3. o + k - (0 + 1) = off
          BY <5>2
        <5> QED BY <5>1, <5>3 DEF o, k
      <4> QED BY <4>1, <4>2 DEF CountsTo
    <3> QED BY <2>2, <3>2, <3>3 DEF Transfer, Counted, Run, d, run, off
  <2> QED BY <1>1, <1>2, <1>5, <2>3, OffsetsOwn
\* The partial resynchronization.
<1>9. CASE ReplyContinue(s)
  <2>1. /\ repl_state[s] = "PSYNC" /\ l.t = "CONTINUE" /\ master' = master
        /\ repl_state' = [repl_state EXCEPT ![s] = "CONNECTED"]
    BY <1>9 DEF ReplyContinue, Blocked
  <2>2. repl_state'[s] = "CONNECTED"
    BY <1>4, <2>1
  <2>3. Placed(s)'
    <3> SUFFICES ASSUME ~OverlapBgsave  PROVE Connected(s)'
      BY <2>2 DEF Placed, Asked, Transfer, OverlapBgsave
    <3>1. /\ \A i \in 2 .. Len(c.in) : c.in[i].t = "unit"
          /\ c.up => Online(c)
          /\ ReadsTo(c, 1, master[s].run, master[s].off, run, off)
      BY <1>1, <1>3, <1>6, <1>7, <2>1 DEF Asked, Reads
    <3> HIDE DEF c, d, run, off, l
    <3>2. \A i \in 1 .. Len(d.in) : d.in[i].t = "unit"
      <4>1. \A i \in 1 .. Len(d.in) : i + 1 \in 2 .. Len(c.in)
        BY <1>3
      <4> QED BY <1>3, <3>1, <4>1
    <3>3. ReadsTo(d, 0, master[s].run, master[s].off, run, off)
      <4> SUFFICES ASSUME Online(c)  PROVE master[s].run = run /\ master[s].off + Len(d.in) - 0 = off
        BY <1>6 DEF ReadsTo
      <4>1. master[s].run = run /\ master[s].off + Len(c.in) - 1 = off
        BY <3>1 DEF ReadsTo
      <4> DEFINE o == master[s].off
                 n == Len(c.in)
                 k == Len(d.in)
      <4>2. o \in Int /\ n \in Nat /\ k = n - 1 /\ o + n - 1 = off
        BY <1>3, <1>4, <4>1
      <4> HIDE DEF o, n, k
      <4>3. o + k - 0 = off
        BY <4>2
      <4> QED BY <4>1, <4>3 DEF o, k
    <3> QED BY <1>2, <1>6, <2>1, <3>1, <3>2, <3>3 DEF Connected, Reads, Run, d, run, off
  <2> QED BY <1>1, <1>2, <1>5, <2>3, OffsetsOwn
\* The bulk: the position is the one that was announced.
<1>10. CASE ReadBulk(s)
  <2>1. /\ repl_state[s] = "TRANSFER" /\ l.t = "bulk"
        /\ master' = [master EXCEPT ![s] = [run |-> full[s].run, off |-> full[s].off, pre |-> full[s].off = -1]]
        /\ repl_state' = [repl_state EXCEPT ![s] = "CONNECTED"]
    BY <1>10 DEF ReadBulk
  <2>2. repl_state'[s] = "CONNECTED" /\ master'[s].run = full[s].run /\ master'[s].off = full[s].off
        /\ (master'[s].pre <=> full[s].off = -1)
    BY <1>4, <2>1
  <2>3. Placed(s)'
    <3> SUFFICES ASSUME ~OverlapBgsave  PROVE Connected(s)'
      BY <2>2 DEF Placed, Asked, Transfer, OverlapBgsave
    <3>0. Ordered(c)
      BY DEF Connections, Ctl
    <3>1. full[s].off # -1 => AfterFull(c, 0) /\ CountsTo(c, 0, full[s].run, full[s].off, run, off)
      BY <1>6, <1>7, <2>1 DEF Transfer, Counted
    <3> HIDE DEF c, d, run, off, l
    <3>d. DOMAIN c.in = 1 .. Len(c.in) /\ 1 \in 1 .. Len(c.in) /\ c.in[1].t = "bulk"
      BY <1>3, <2>1, LenProperties
    <3>2. \A i \in 1 .. Len(d.in) : d.in[i].t = "unit"
      <4>1. \A i \in 1 .. Len(d.in) : i + 1 \in 1 .. Len(c.in) /\ 1 < i + 1
        BY <1>3
      <4>2. \A j \in 1 .. Len(c.in) : 1 < j => c.in[j].t = "unit"
        BY <3>0, <3>d DEF Ordered, InOrder
      <4> QED BY <1>3, <4>1, <4>2
    <3>3. c.up => Online(c)
      BY <3>0, <3>d DEF Ordered, Quiet
    <3>4. full[s].off # -1 => ReadsTo(d, 0, full[s].run, full[s].off, run, off)
      <4> SUFFICES ASSUME Online(c), full[s].off # -1  PROVE full[s].run = run /\ full[s].off + Len(d.in) - 0 = off
        BY <1>6 DEF ReadsTo
      <4>1. full[s].run = run /\ full[s].off + Len(c.in) - (0 + 1) = off
        BY <3>1 DEF CountsTo
      <4> DEFINE o == full[s].off
                 n == Len(c.in)
                 k == Len(d.in)
      <4>2. o \in Int /\ n \in Nat /\ k = n - 1 /\ o + n - (0 + 1) = off
        BY <1>3, <1>4, <4>1
      <4> HIDE DEF o, n, k
      <4>3. o + k - 0 = off
        BY <4>2
      <4> QED BY <4>1, <4>3 DEF o, k
    <3>5. d.up => Online(d)
      BY <1>2, <1>6, <3>3
    <3>6. ~master'[s].pre => ReadsTo(d, 0, master'[s].run, master'[s].off, run, off)
      BY <2>2, <3>4
    <3> QED BY <3>2, <3>5, <3>6 DEF Connected, Reads, Run, d, run, off
  <2> QED BY <1>1, <1>2, <1>5, <2>3, OffsetsOwn
<1> QED BY <1>8, <1>9, <1>10

LEMMA OffsetsSlave ==
  ASSUME Type, Connections, Offsets, setup' = setup, NEW s \in Servers,
         \/ SlaveStep(s) \/ LoseMaster(s) \/ PsyncTimeout(s) \/ ReplicationUnsetMaster(s) \/ Restart(s)
         \/ \E m \in Servers : ReplicationSetMaster(s, m)
  PROVE  Offsets'
<1>0. /\ TypeOK /\ Ctl(s) /\ Placed(s) /\ None \notin Servers
      /\ DOMAIN repl_state = Servers /\ DOMAIN master = Servers /\ DOMAIN full = Servers
      /\ DOMAIN mro = Servers /\ DOMAIN runid = Servers
  BY TypeParts, SetupTypes DEF Type, ServerTypes, SlaveTypes, Connections, Offsets
<1>1. CASE ReadUnit(s)
  BY <1>1, OffsetsReadUnit
<1>2. CASE ReplyFull(s) \/ ReplyContinue(s) \/ ReadBulk(s)
  BY <1>2, OffsetsReply
<1>3. CASE ConnectWithMaster(s) \/ SendPing(s)
  <2>1. /\ repl_state'[s] \in {"CONNECTING", "RECEIVE_PONG"} /\ UNCHANGED <<mro, runid>>
        /\ \A x \in Servers \ {s} : SameSlave(x)
    BY <1>0, <1>3 DEF ConnectWithMaster, SendPing, serverVars, SameSlave
  <2>2. OnlyConn(s)
    <3>1. CASE ConnectWithMaster(s)
      BY <1>0, <3>1, ConnectEffect
    <3>2. CASE SendPing(s)
      <4>1. conn' = conn
        BY <3>2 DEF SendPing
      <4> QED BY <1>0, <4>1, ConnTypes DEF OnlyConn
    <3> QED BY <1>3, <3>1, <3>2
  <2>3. Placed(s)'
    BY <2>1, PlacedIdle
  <2> QED BY <2>1, <2>2, <2>3, OffsetsOwn
<1>4. CASE SendPsync(s)
  <2> DEFINE r == Psync(master[s])
  <2>1. /\ repl_state[s] = "RECEIVE_PONG" /\ repl_state' = [repl_state EXCEPT ![s] = "PSYNC"]
        /\ full' = [full EXCEPT ![s].off = -1] /\ conn' = [conn EXCEPT ![s].cmds = Append(@, r)]
        /\ UNCHANGED <<mro, runid, master>>
    BY <1>4 DEF SendPsync, serverVars
  <2>2. conn[s].cmds = <<>> /\ conn[s].in = <<>> /\ ~Attached(conn[s])
    BY <1>0, <2>1 DEF Ctl, Control
  <2>3. OnlyConn(s) /\ conn'[s].cmds = Append(conn[s].cmds, r) /\ conn'[s].in = conn[s].in
        /\ conn'[s].replstate = conn[s].replstate
    BY <1>0, <2>1, RequestTypes, AskEffect
  <2>4. /\ conn'[s].cmds = <<r>> /\ conn'[s].in = <<>> /\ ~Attached(conn'[s])
        /\ repl_state'[s] = "PSYNC" /\ full'[s].off = -1 /\ master'[s] = master[s]
        /\ \A x \in Servers \ {s} : SameSlave(x)
    <3>1. <<>> \o <<r>> = <<r>> /\ Append(<<>>, r) = <<r>>
      OBVIOUS
    <3>2. full[s] \in [run : Runs, off : Int]
      BY DEF Type, SlaveTypes
    <3> HIDE DEF r
    <3> QED BY <1>0, <2>1, <2>2, <2>3, <3>1, <3>2 DEF Attached, SameSlave
  <2>5. Placed(s)'
    BY <2>4 DEF Placed, Asked, Transfer, Connected, Psync
  <2> QED BY <2>1, <2>3, <2>4, <2>5, OffsetsOwn
\* After SYNC the position is not known.
<1>5. CASE FallBackToSync(s) \/ PsyncTimeout(s)
  <2>1. /\ repl_state[s] = "PSYNC" /\ repl_state' = [repl_state EXCEPT ![s] = "TRANSFER"]
        /\ master' = [master EXCEPT ![s] = NoMaster] /\ UNCHANGED <<mro, runid, full>>
    BY <1>5 DEF FallBackToSync, PsyncTimeout, Blocked, serverVars
  <2>2. OnlyConn(s)
    <3>1. CASE FallBackToSync(s)
      BY <1>0, <3>1, FallBackEffect
    <3>2. CASE PsyncTimeout(s)
      <4>1. conn' = [conn EXCEPT ![s].cmds = Append(@, Sync)]
        BY <3>2 DEF PsyncTimeout
      <4> QED BY <1>0, <4>1, RequestTypes, AskEffect
    <3> QED BY <1>5, <3>1, <3>2
  <2>3. repl_state'[s] = "TRANSFER" /\ full'[s] = full[s] /\ \A x \in Servers \ {s} : SameSlave(x)
    BY <1>0, <2>1 DEF SameSlave
  <2>4. ~OverlapBgsave => full[s].off = -1
    BY <1>0, <2>1 DEF Placed, Asked
  <2>5. Placed(s)'
    BY <2>3, <2>4 DEF Placed, Asked, Transfer, Connected, OverlapBgsave
  <2> QED BY <2>1, <2>2, <2>3, <2>5, OffsetsOwn
<1>6. CASE LoseMaster(s) \/ SeeClosed(s) \/ AbortTransfer(s)
  <2>1. CloseLink(s)
    BY <1>6 DEF LoseMaster, SeeClosed, AbortTransfer
  <2>2. /\ repl_state' = [repl_state EXCEPT ![s] = "CONNECT"] /\ UNCHANGED <<mro, runid, full>>
        /\ master' = [master EXCEPT ![s] = NoMaster] \/ master' = master
    BY <2>1 DEF CloseLink, serverVars
  <2> DEFINE S == IF repl_state[s] = "CONNECTED" THEN Slaves(s) ELSE {}
  <2>3. Cut(s, S)
    BY <1>0, <2>1, CloseLinkEffect
  <2> HIDE DEF S
  <2>4. repl_state'[s] = "CONNECT" /\ \A x \in Servers \ {s} : SameSlave(x) /\ runid'[x] = runid[x] /\ mro'[x] = mro[x]
    BY <1>0, <2>2 DEF SameSlave
  <2>5. runid'[s] = runid[s] /\ mro'[s] = mro[s]
    BY <2>2
  <2> QED BY <2>3, <2>4, <2>5, OffsetsGivesUp
<1>7. ASSUME NEW m \in Servers, ReplicationSetMaster(s, m)  PROVE Offsets'
  <2>1. /\ repl_state' = [repl_state EXCEPT ![s] = "CONNECT"] /\ master' = [master EXCEPT ![s] = NoMaster]
        /\ mro' = [mro EXCEPT ![s] = 0] /\ runid' = runid /\ full' = full
        /\ conn' = [ClosedByMaster(conn, Slaves(s)) EXCEPT ![s] = NoConn]
    BY <1>7 DEF ReplicationSetMaster
  <2>2. Cut(s, Slaves(s))
    BY <1>0, <2>1, CutEffect
  <2>3. \A x \in Servers : Attached(conn[x]) /\ conn[x].to = s => x \in Slaves(s)
    BY DEF Slaves, Attached
  <2>4. repl_state'[s] = "CONNECT" /\ \A x \in Servers \ {s} : SameSlave(x) /\ runid'[x] = runid[x] /\ mro'[x] = mro[x]
    BY <1>0, <2>1 DEF SameSlave
  <2> QED BY <2>2, <2>3, <2>4, OffsetsGivesUp
<1>8. CASE ReplicationUnsetMaster(s)
  <2>1. /\ repl_state' = [repl_state EXCEPT ![s] = "NONE"] /\ master' = [master EXCEPT ![s] = NoMaster]
        /\ conn' = [conn EXCEPT ![s] = NoConn] /\ runid' = runid /\ full' = full
        /\ (Slaves(s) = {} /\ mro' = [mro EXCEPT ![s] = master[s].off]) \/ mro' = mro
    BY <1>8 DEF ReplicationUnsetMaster
  <2>2. Cut(s, {})
    BY <1>0, <2>1, CutEffect
  <2>3. \A x \in Servers : Attached(conn[x]) /\ conn[x].to = s => mro' = mro
    BY <2>1 DEF Slaves, Attached
  <2>4. repl_state'[s] = "NONE" /\ \A x \in Servers \ {s} : SameSlave(x) /\ runid'[x] = runid[x] /\ mro'[x] = mro[x]
    BY <1>0, <2>1 DEF SameSlave
  <2>5. runid'[s] = runid[s]
    BY <2>1
  <2> QED BY <2>2, <2>3, <2>4, <2>5, OffsetsGivesUp
<1>9. CASE Restart(s)
  <2> DEFINE S == {x \in Servers : conn[x].to = s}
  <2>1. /\ repl_state' = [repl_state EXCEPT ![s] = IF masterhost[s] = None THEN "NONE" ELSE "CONNECT"]
        /\ master' = [master EXCEPT ![s] = NoMaster] /\ full' = [full EXCEPT ![s] = NoFull]
        /\ runid' = [runid EXCEPT ![s] = @ + 1] /\ mro' = [mro EXCEPT ![s] = 0]
        /\ conn' = [ClosedByMaster(conn, S) EXCEPT ![s] = NoConn]
    BY <1>9 DEF Restart
  <2>2. Cut(s, S)
    BY <1>0, <2>1, CutEffect
  <2>3. \A x \in Servers : Attached(conn[x]) /\ conn[x].to = s => x \in S
    OBVIOUS
  <2> HIDE DEF S
  <2>4. repl_state'[s] \in {"NONE", "CONNECT"}
        /\ \A x \in Servers \ {s} : SameSlave(x) /\ runid'[x] = runid[x] /\ mro'[x] = mro[x]
    BY <1>0, <2>1 DEF SameSlave
  <2> QED BY <2>2, <2>3, <2>4, OffsetsGivesUp
<1> QED BY <1>1, <1>2, <1>3, <1>4, <1>5, <1>6, <1>7, <1>8, <1>9 DEF SlaveStep

LEMMA InitOffsets == Init => Offsets
<1> SUFFICES ASSUME Init, NEW s \in Servers PROVE Placed(s)
  BY DEF Offsets
<1>1. repl_state[s] \in {"NONE", "CONNECT"}
  BY DEF Init
<1> QED BY <1>1 DEF Placed, Asked, Transfer, Connected

LEMMA OffsetsStep ==
  ASSUME Type, Connections, Offsets, [Next]_vars
  PROVE  Offsets'
<1>1. CASE Next
  <2>1. Step /\ setup' = setup
    BY <1>1 DEF Next
  <2> QED BY <2>1, OffsetsAnswer, OffsetsMaster, OffsetsSlave DEF Step
<1>2. CASE UNCHANGED vars
  <2>1. setup' = setup /\ conn' = conn /\ UNCHANGED <<repl_state, master, full, runid, mro>>
    BY <1>2 DEF vars, serverVars, slaveVars
  <2>2. \A x \in Servers : Placed(x) /\ SameSlave(x) /\ Advances(x, 0)
    BY <2>1 DEF Offsets, SameSlave, Advances
  <2> QED BY <2>1, <2>2, PlacedAdvances, SameSetup DEF Offsets
<1> QED BY <1>1, <1>2

\* Where no full resynchronization is asked for during a BGSAVE, a slave connected by PSYNC has
\* its master's run id, and its offset with the units in flight is its master's.
THEOREM OffsetsAgreeCorrect == Spec => []OffsetsAgree
<1>1. Spec => [](Type /\ Connections /\ Offsets)
  BY InitType, InitCtl, InitOffsets, TypeStep, CtlStep, OffsetsStep, PTL DEF Spec
<1>2. Type /\ Offsets => OffsetsAgree
  <2> SUFFICES ASSUME Type, Offsets, ~OverlapBgsave, NEW s \in Servers,
                      conn[s].replstate = "ONLINE", repl_state[s] = "CONNECTED", ~master[s].pre
               PROVE  /\ master[s].run = Run(conn[s].to)
                      /\ master[s].off + Len(InFlight(s)) = mro[conn[s].to]
    BY DEF OffsetsAgree
  <2> DEFINE q == conn[s].in
  <2>1. q \in Seq(Lines) /\ Len(q) \in Nat
    BY TypeParts, ConnTypes
  <2>2. /\ \A i \in 1 .. Len(q) : q[i].t = "unit"
        /\ master[s].run = Run(conn[s].to) /\ master[s].off + Len(q) - 0 = mro[conn[s].to]
    BY DEF Offsets, Placed, Connected, Reads, ReadsTo, Online
  <2>3. Len(InFlight(s)) = Len(q)
    <3>1. InFlight(s) = SubSeq(q, (CHOOSE k \in Leads(q) : TRUE) + 1, Len(q))
      BY DEF InFlight
    <3> HIDE DEF q
    <3>2. Leads(q) = {0}
      BY <2>1, <2>2 DEF Leads
    <3>3. (CHOOSE k \in Leads(q) : TRUE) = 0
      BY <3>2
    <3>4. Len(SubSeq(q, 1, Len(q))) = Len(q)
      BY <2>1
    <3>5. InFlight(s) = SubSeq(q, 1, Len(q))
      <4>1. InFlight(s) = SubSeq(q, 0 + 1, Len(q))
        BY <3>1, <3>3, Zenon
      <4> QED BY <4>1
    <3> QED BY <3>4, <3>5
  <2>4. master[s].off \in Int
    BY DEF Type, SlaveTypes, Positions
  <2> QED BY <2>1, <2>2, <2>3, <2>4
<1> QED BY <1>1, <1>2, PTL
=============================================================================
