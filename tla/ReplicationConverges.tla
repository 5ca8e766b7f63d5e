------------------------ MODULE ReplicationConverges ------------------------
(***************************************************************************)
(* Every slave of module Replication is given its master's data set, for   *)
(* any number of servers, any faults and any bounds, where slaves have no  *)
(* slaves of their own.  The layers, on those of ReplicationProofs: Roots, *)
(* who is a master, and what its backlog holds; Requests in time, what may *)
(* follow a PSYNC; Positions, what a run id and an offset say about a data *)
(* set; and Attached slaves, the property itself.                          *)
(***************************************************************************)
EXTENDS ReplicationProofs

\* The servers that can become somebody's master, in a setup.
MayBeMaster(u) ==
  ({u.initialMaster[s] : s \in DOMAIN u.initialMaster} \cup {c[2] : c \in u.slaveofCommands}) \ {None}

\* No master is or becomes a slave; and no slave asks for a full
\* resynchronization while a child is saving.
OneHop(u) ==
  /\ ~u.overlapBgsave
  /\ \A m \in MayBeMaster(u) :
       u.initialMaster[m] = None /\ \A c \in u.slaveofCommands : c[1] = m => c[2] = None

Masters == MayBeMaster(setup)

----------------------------------------------------------------------------
(* The masters.                                                            *)

\* d is the beginning of e, and q the end of e.
Begins(d, e) == Len(d) <= Len(e) /\ \A i \in 1 .. Len(d) : d[i] = e[i]
Ends(q, e)   == Len(q) <= Len(e) /\ \A i \in 1 .. Len(q) : q[i] = e[Len(e) - Len(q) + i]

Root(s) ==
  /\ masterhost[s] \in Masters \cup {None}
  /\ s \in Masters => masterhost[s] = None
  /\ masterhost[s] = None => master[s].run = NoRun

\* The backlog of a master is the end of its data set.
Window(m) ==
  /\ mro[m] >= 0
  /\ HasBacklog(m) => Ends(backlog[m], data[m])

Top == (\A s \in Servers : Root(s)) /\ (\A m \in Masters : Window(m))

----------------------------------------------------------------------------
(* Positions.                                                              *)

\* The data set d stands at offset o of the run r: if that run goes on, d is
\* the beginning of the master's data set, and what it lacks is what the
\* backlog holds from o on, if the backlog reaches that far.
AtBy(d, r, o, rid, off, blog, dat) ==
  r[1] \in Masters =>
    LET m == r[1]
    IN  /\ r[2] <= rid[m]
        /\ r[2] = rid[m] =>
             /\ o <= off[m]
             /\ Begins(d, dat[m])
             /\ blog[m] # NoBacklog /\ off[m] - o <= Len(blog[m]) => Len(dat[m]) - Len(d) = off[m] - o
At(d, r, o) == AtBy(d, r, o, runid, mro, backlog, data)

\* The data set d with the lines q behind the first k, of which the last may be a bulk.
Offs(q, k)     == [i \in 1 .. Len(q) - k |-> q[k + i].off]
Whole(d, q, k) == (IF k > 0 /\ q[k].t = "bulk" THEN q[k].data ELSE d) \o Offs(q, k)

\* The data set that a slave will have after the lines in flight stands where
\* its position, with these lines, will be.
ReachBy(d, q, st, ms, fl, rid, off, blog, dat) ==
  /\ st = "CONNECTED" => AtBy(Whole(d, q, 0), ms.run, ms.off + Len(q), rid, off, blog, dat)
  /\ st = "PSYNC" /\ q # <<>> /\ q[1].t = "CONTINUE" =>
       AtBy(Whole(d, q, 1), ms.run, ms.off + Len(q) - 1, rid, off, blog, dat)
  /\ st = "PSYNC" /\ Len(q) > 1 /\ q[1].t = "FULLRESYNC" /\ q[2].t = "bulk" =>
       AtBy(Whole(d, q, 2), q[1].run, q[1].off + Len(q) - 2, rid, off, blog, dat)
  /\ st = "TRANSFER" /\ fl.off # -1 /\ q # <<>> /\ q[1].t = "bulk" =>
       AtBy(Whole(d, q, 1), fl.run, fl.off + Len(q) - 1, rid, off, blog, dat)
Reach(s) == ReachBy(data[s], conn[s].in, repl_state[s], master[s], full[s], runid, mro, backlog, data)

\* A slave that is ONLINE is the subject of Given; the others resume from where they stand.
Resumes(s) ==
  /\ repl_state[s] # "CONNECTED" => At(data[s], master[s].run, master[s].off)
  /\ ~Online(conn[s]) => Reach(s)

----------------------------------------------------------------------------
(* Requests.                                                               *)

\* A PSYNC that was not answered yet asks for the position of the data set.
Pending(s) ==
  LET c == conn[s]
  IN  \A i \in 1 .. Len(c.cmds) : c.cmds[i].name = "PSYNC" =>
        /\ i = 1 /\ c.in = <<>> /\ ~Attached(c)
        /\ repl_state[s] \in {"PSYNC", "TRANSFER"}
        /\ At(data[s], c.cmds[1].run, c.cmds[1].off - 1)

\* The answer to PSYNC is never an error; that to a request given up comes first.
Expected(s) ==
  LET c == conn[s]
  IN  /\ ~master[s].pre
      /\ \A i \in 1 .. Len(c.in) : c.in[i].t = "FULLRESYNC" => c.in[i].off >= 0
      /\ repl_state[s] = "PSYNC" /\ c.in # <<>> => c.in[1].t \in {"FULLRESYNC", "CONTINUE"}
      /\ repl_state[s] = "TRANSFER" /\ full[s].off = -1 =>
           /\ c.in = <<>> => ~Attached(c) /\ (c.up => c.cmds # <<>> /\ c.cmds[1].name = "PSYNC")
           /\ c.in # <<>> => c.in[1].t \in {"FULLRESYNC", "CONTINUE"}

----------------------------------------------------------------------------
(* Attached slaves.                                                        *)

GivenBy(c, d, ch, dat) ==
  /\ c.replstate = "WAIT_BGSAVE_END" => ch \o c.obuf = dat
  /\ c.replstate = "SEND_BULK" => c.snap \o c.obuf = dat
  /\ c.replstate = "ONLINE" => \E k \in Leads(c.in) : Whole(d, c.in, k) = dat
Given(s) == GivenBy(conn[s], data[s], child[conn[s].to], data[conn[s].to])

Hop(s) == Resumes(s) /\ Pending(s) /\ Expected(s) /\ Given(s)

----------------------------------------------------------------------------
(* Beginnings and ends of sequences.                                       *)

LEMMA BeginsSelf ==
  ASSUME NEW S, NEW d \in Seq(S)
  PROVE  Begins(d, d)
BY DEF Begins

LEMMA BeginsAppend ==
  ASSUME NEW S, NEW d \in Seq(S), NEW e \in Seq(S), NEW w \in S, Begins(d, e)
  PROVE  Begins(d, Append(e, w))
<1>1. Len(Append(e, w)) = Len(e) + 1 /\ \A i \in 1 .. Len(e) : Append(e, w)[i] = e[i]
  BY AppendProperties
<1>2. Len(d) \in Nat /\ Len(e) \in Nat
  OBVIOUS
<1> QED BY <1>1, <1>2 DEF Begins

LEMMA BeginsTrans ==
  ASSUME NEW S, NEW a \in Seq(S), NEW b \in Seq(S), NEW c \in Seq(S), Begins(a, b), Begins(b, c)
  PROVE  Begins(a, c)
BY DEF Begins

LEMMA BeginsConcat ==
  ASSUME NEW S, NEW d \in Seq(S), NEW u \in Seq(S)
  PROVE  Begins(d, d \o u) /\ Len(d \o u) = Len(d) + Len(u)
<1>1. Len(d \o u) = Len(d) + Len(u) /\ \A i \in 1 .. Len(d) : (d \o u)[i] = d[i]
  BY ConcatProperties
<1>2. Len(d) \in Nat /\ Len(u) \in Nat
  OBVIOUS
<1> QED BY <1>1, <1>2 DEF Begins

\* The window slides.
LEMMA EndsAppend ==
  ASSUME NEW S, NEW q \in Seq(S), NEW e \in Seq(S), NEW w \in S, Ends(q, e),
         NEW b \in Seq(S), Len(b) <= Len(q) + 1,
         b = SubSeq(Append(q, w), Len(q) + 1 - Len(b) + 1, Len(q) + 1)
  PROVE  Ends(b, Append(e, w))
<1> DEFINE n == Len(q)
           l == Len(e)
           k == Len(b)
           qw == Append(q, w)
           ew == Append(e, w)
<1>1. n \in Nat /\ l \in Nat /\ k \in Nat /\ k <= n + 1 /\ n <= l
  BY DEF Ends
<1>2. qw \in Seq(S) /\ Len(qw) = n + 1 /\ (\A i \in 1 .. n : qw[i] = q[i]) /\ qw[n + 1] = w
  BY AppendProperties
<1>3. Len(ew) = l + 1 /\ (\A i \in 1 .. l : ew[i] = e[i]) /\ ew[l + 1] = w
  BY AppendProperties
<1>4. \A i \in 1 .. n : q[i] = e[l - n + i]
  BY DEF Ends
<1>5. \A i \in 1 .. k : b[i] = qw[n + 1 - k + i]
  <2> DEFINE lo == n + 1 - k + 1
             hi == n + 1
  <2>1. lo \in 1 .. Len(qw) + 1 /\ hi \in lo - 1 .. Len(qw) /\ hi - lo + 1 = k
    BY <1>1, <1>2
  <2>2. b = SubSeq(qw, lo, hi)
    OBVIOUS
  <2> HIDE DEF lo, hi, qw, k
  <2>3. \A i \in 1 .. hi - lo + 1 : SubSeq(qw, lo, hi)[i] = qw[lo + i - 1]
    BY <1>2, <2>1, SubSeqProperties
  <2>4. \A i \in 1 .. k : b[i] = qw[lo + i - 1]
    BY <2>1, <2>2, <2>3
  <2>5. \A i \in 1 .. k : lo + i - 1 = n + 1 - k + i
    BY <1>1 DEF lo
  <2> QED BY <2>4, <2>5
<1> HIDE DEF n, l, k, qw, ew
<1>6. ASSUME NEW i \in 1 .. k  PROVE b[i] = ew[l + 1 - k + i]
  <2>1. CASE i = k
    <3>1. n + 1 - k + i = n + 1 /\ l + 1 - k + i = l + 1
      BY <1>1, <2>1
    <3> QED BY <1>2, <1>3, <1>5, <3>1
  <2>2. CASE i # k
    <3>1. n + 1 - k + i \in 1 .. n /\ l - n + (n + 1 - k + i) = l + 1 - k + i /\ l + 1 - k + i \in 1 .. l
      BY <1>1, <2>2
    <3> QED BY <1>2, <1>3, <1>4, <1>5, <3>1
  <2> QED BY <2>1, <2>2
<1>7. k <= l + 1
  BY <1>1
<1>8. Len(ew) - k = l + 1 - k /\ \A i \in 1 .. k : b[i] = ew[Len(ew) - k + i]
  <2>1. Len(ew) = l + 1
    BY <1>3
  <2>2. Len(ew) - k = l + 1 - k
    BY <1>1, <2>1
  <2>3. ASSUME NEW i \in 1 .. k  PROVE b[i] = ew[Len(ew) - k + i]
    <3>1. b[i] = ew[l + 1 - k + i]
      BY <1>6
    <3> QED BY <2>2, <3>1
  <2> QED BY <2>2, <2>3
<1> QED BY <1>1, <1>3, <1>7, <1>8 DEF Ends, k, ew

\* A beginning, completed by what it lacks.
LEMMA EndsComplete ==
  ASSUME NEW S, NEW d \in Seq(S), NEW e \in Seq(S), NEW q \in Seq(S), NEW us \in Seq(S), NEW n \in 0 .. Len(q),
         Begins(d, e), Ends(q, e), Len(e) - Len(d) = n, Len(us) = n,
         \A i \in 1 .. n : us[i] = q[Len(q) - n + i]
  PROVE  d \o us = e
<1> DEFINE a == Len(d)
           l == Len(e)
           k == Len(q)
           du == d \o us
<1>1. a \in Nat /\ l \in Nat /\ k \in Nat /\ n \in Nat /\ n <= k /\ k <= l /\ l = a + n
  BY DEF Begins, Ends
<1>2. du \in Seq(S) /\ Len(du) = a + n /\ \A i \in 1 .. a + n : du[i] = IF i <= a THEN d[i] ELSE us[i - a]
  <2>1. du \in Seq(S) /\ Len(du) = Len(d) + Len(us)
        /\ \A i \in 1 .. Len(d) + Len(us) : du[i] = IF i <= Len(d) THEN d[i] ELSE us[i - Len(d)]
    BY ConcatProperties
  <2> HIDE DEF du
  <2> QED BY <2>1
<1>3. (\A i \in 1 .. a : d[i] = e[i]) /\ (\A i \in 1 .. k : q[i] = e[l - k + i])
      /\ \A i \in 1 .. n : us[i] = q[k - n + i]
  BY DEF Begins, Ends
<1> HIDE DEF a, l, k, du
<1>4. ASSUME NEW i \in 1 .. a + n  PROVE du[i] = e[i]
  <2>1. CASE i <= a
    BY <1>1, <1>2, <1>3, <2>1
  <2>2. CASE i > a
    <3>1. i - a \in 1 .. n /\ k - n + (i - a) \in 1 .. k /\ l - k + (k - n + (i - a)) = i
      BY <1>1, <2>2
    <3>2. du[i] = us[i - a]
      BY <1>1, <1>2, <2>2
    <3>3. us[i - a] = q[k - n + (i - a)]
      BY <1>3, <3>1
    <3>4. q[k - n + (i - a)] = e[l - k + (k - n + (i - a))]
      BY <1>3, <3>1
    <3> QED BY <3>1, <3>2, <3>3, <3>4
  <2> QED BY <1>1, <2>1, <2>2
<1>5. Len(du) = Len(e)
  BY <1>1, <1>2 DEF l
<1>6. \A i \in 1 .. Len(du) : du[i] = e[i]
  BY <1>2, <1>4
<1>7. du = e
  BY <1>2, <1>5, <1>6, SeqEqual
<1> QED BY <1>7 DEF du

----------------------------------------------------------------------------
(* Positions, in any two states.                                           *)

\* What a step may do to a master: start a new run, or extend the data set, and
\* with it the offset, unless the backlog goes.
GrowsTo(m, rid, off, blog, dat) ==
  /\ runid[m] <= rid[m]
  /\ rid[m] = runid[m] =>
       /\ mro[m] <= off[m]
       /\ Begins(data[m], dat[m])
       /\ blog[m] # NoBacklog /\ off[m] - mro[m] <= Len(blog[m]) =>
            /\ HasBacklog(m)
            /\ Len(blog[m]) - (off[m] - mro[m]) <= Len(backlog[m])
            /\ Len(dat[m]) - Len(data[m]) = off[m] - mro[m]
Grows(m) == GrowsTo(m, runid', mro', backlog', data')

LEMMA MastersAre ==
  ASSUME setup \in Setups
  PROVE  Masters \subseteq Servers /\ None \notin Masters
BY ConstantsAssumption DEF Masters, MayBeMaster, Servers, InitialMaster

\* A position stays good.
LEMMA AtKeeps ==
  ASSUME Type, NEW rid, NEW off, NEW blog, NEW dat,
         \A m \in Masters : /\ rid[m] \in Int /\ off[m] \in Int /\ dat[m] \in Seq(Writes)
                            /\ blog[m] # NoBacklog => blog[m] \in Seq(Writes)
                            /\ GrowsTo(m, rid, off, blog, dat),
         NEW d \in Seq(Writes), NEW r \in Runs, NEW o \in Int, At(d, r, o)
  PROVE  AtBy(d, r, o, rid, off, blog, dat)
<1> SUFFICES ASSUME r[1] \in Masters
             PROVE  LET m == r[1]
                    IN  /\ r[2] <= rid[m]
                        /\ r[2] = rid[m] =>
                             /\ o <= off[m]
                             /\ Begins(d, dat[m])
                             /\ blog[m] # NoBacklog /\ off[m] - o <= Len(blog[m]) => Len(dat[m]) - Len(d) = off[m] - o
  BY DEF AtBy
<1> DEFINE m == r[1]
           x == off[m]
           z == mro[m]
           b == Len(backlog[m])
           b1 == Len(blog[m])
           l == Len(data[m])
           l1 == Len(dat[m])
           a == Len(d)
           had == HasBacklog(m)
           has == blog[m] # NoBacklog
<1>0. m \in Servers /\ r \in Servers \X Nat
  BY MastersAre, SetupTypes DEF Type, ServerTypes, Runs, NoRun
<1>1. r[2] \in Nat /\ runid[m] \in Nat /\ z \in Int /\ data[m] \in Seq(Writes) /\ (had => backlog[m] \in Seq(Writes))
  BY <1>0 DEF Type, ServerTypes
<1>2. rid[m] \in Int /\ x \in Int /\ dat[m] \in Seq(Writes) /\ (has => blog[m] \in Seq(Writes))
  OBVIOUS
<1>3. /\ runid[m] <= rid[m]
      /\ rid[m] = runid[m] => /\ z <= x /\ Begins(data[m], dat[m])
                              /\ has /\ x - z <= b1 => had /\ b1 - (x - z) <= b /\ l1 - l = x - z
  BY DEF GrowsTo
<1>4. /\ r[2] <= runid[m]
      /\ r[2] = runid[m] => o <= z /\ Begins(d, data[m]) /\ (had /\ z - o <= b => l - a = z - o)
  BY DEF At, AtBy, HasBacklog
<1>5. a \in Nat /\ l \in Nat /\ l1 \in Nat /\ (had => b \in Nat) /\ (has => b1 \in Nat)
  BY <1>1, <1>2
<1>6. Begins(d, data[m]) /\ Begins(data[m], dat[m]) => Begins(d, dat[m])
  BY <1>1, <1>2, BeginsTrans
<1> HIDE DEF m, x, z, b, b1, l, l1, a, had, has
<1>7. r[2] <= rid[m]
  BY <1>1, <1>2, <1>3, <1>4
<1>8. ASSUME r[2] = rid[m]
      PROVE  o <= x /\ Begins(d, dat[m]) /\ (has /\ x - o <= b1 => l1 - a = x - o)
  <2>1. r[2] = runid[m] /\ rid[m] = runid[m]
    BY <1>1, <1>2, <1>3, <1>4, <1>8
  <2>2. /\ z <= x /\ o <= z
        /\ has /\ x - z <= b1 => had /\ b1 - (x - z) <= b /\ l1 - l = x - z
        /\ had /\ z - o <= b => l - a = z - o
    BY <1>3, <1>4, <2>1
  <2>3. ASSUME has, x - o <= b1  PROVE l1 - a = x - o
    <3>1. x - z <= b1
      BY <1>1, <1>2, <1>5, <2>2, <2>3
    <3>2. had /\ b1 - (x - z) <= b /\ l1 - l = x - z
      BY <2>2, <2>3, <3>1
    <3>3. z - o <= b
      BY <1>1, <1>2, <1>5, <2>2, <2>3, <3>2
    <3>4. l - a = z - o
      BY <2>2, <3>2, <3>3
    <3> QED BY <1>1, <1>2, <1>5, <3>2, <3>4
  <2>4. o <= x
    BY <1>1, <1>2, <2>2
  <2> QED BY <1>3, <1>4, <1>6, <2>1, <2>3, <2>4
<1> QED BY <1>7, <1>8 DEF m, x, b1, l1, a, has

\* So does a shorter one.
LEMMA AtShrink ==
  ASSUME Type, NEW d \in Seq(Writes), NEW u \in Seq(Writes), NEW r \in Runs, NEW o \in Int, At(d \o u, r, o + Len(u))
  PROVE  At(d, r, o)
<1> SUFFICES ASSUME r[1] \in Masters
             PROVE  LET m == r[1]
                    IN  /\ r[2] <= runid[m]
                        /\ r[2] = runid[m] =>
                             /\ o <= mro[m]
                             /\ Begins(d, data[m])
                             /\ backlog[m] # NoBacklog /\ mro[m] - o <= Len(backlog[m]) => Len(data[m]) - Len(d) = mro[m] - o
  BY DEF At, AtBy
<1> DEFINE m == r[1]
           z == mro[m]
           b == Len(backlog[m])
           l == Len(data[m])
           a == Len(d)
           n == Len(u)
           du == d \o u
           had == backlog[m] # NoBacklog
<1>0. m \in Servers
  BY MastersAre DEF Type, ServerTypes
<1>1. z \in Int /\ data[m] \in Seq(Writes) /\ (had => backlog[m] \in Seq(Writes))
  BY <1>0 DEF Type, ServerTypes, HasBacklog
<1>2. a \in Nat /\ n \in Nat /\ l \in Nat /\ (had => b \in Nat)
  BY <1>1
<1>3. Begins(d, du) /\ Len(du) = a + n /\ du \in Seq(Writes)
  BY BeginsConcat, ConcatProperties
<1>4. /\ r[2] <= runid[m]
      /\ r[2] = runid[m] => o + n <= z /\ Begins(du, data[m]) /\ (had /\ z - (o + n) <= b => l - Len(du) = z - (o + n))
  BY DEF At, AtBy
<1>5. Begins(du, data[m]) => Begins(d, data[m])
  BY <1>1, <1>3, BeginsTrans
<1> HIDE DEF m, z, b, l, a, n, du, had
<1>6. ASSUME r[2] = runid[m]
      PROVE  o <= z /\ Begins(d, data[m]) /\ (had /\ z - o <= b => l - a = z - o)
  <2>1. o + n <= z /\ (had /\ z - (o + n) <= b => l - (a + n) = z - (o + n))
    BY <1>3, <1>4, <1>6
  <2>2. o <= z
    BY <1>1, <1>2, <2>1
  <2>3. ASSUME had, z - o <= b  PROVE l - a = z - o
    <3>1. z - (o + n) <= b
      BY <1>1, <1>2, <2>3
    <3>2. l - (a + n) = z - (o + n)
      BY <2>1, <2>3, <3>1
    <3> QED BY <1>1, <1>2, <3>2
  <2> QED BY <1>4, <1>5, <1>6, <2>2, <2>3
<1> QED BY <1>4, <1>6 DEF m, z, b, l, a, had

\* A master stands at its own offset.
LEMMA AtTop ==
  ASSUME Type, NEW m \in Masters
  PROVE  At(data[m], Run(m), mro[m])
<1>0. m \in Servers
  BY MastersAre DEF Type, ServerTypes
<1>1. runid[m] \in Nat /\ mro[m] \in Int /\ data[m] \in Seq(Writes) /\ Run(m)[1] = m /\ Run(m)[2] = runid[m]
  BY <1>0 DEF Type, ServerTypes, Run
<1>2. Len(data[m]) - Len(data[m]) = mro[m] - mro[m]
  <2>1. Len(data[m]) \in Nat
    BY <1>1
  <2> QED BY <1>1, <2>1
<1> QED BY <1>1, <1>2, BeginsSelf DEF At, AtBy

\* The position of no run says nothing.
LEMMA AtNone ==
  ASSUME setup \in Setups, NEW d, NEW o, NEW rid, NEW off, NEW blog, NEW dat
  PROVE  AtBy(d, NoRun, o, rid, off, blog, dat)
BY MastersAre DEF AtBy, NoRun

----------------------------------------------------------------------------
(* The lines in flight.                                                    *)

LEMMA OffsType ==
  ASSUME setup \in Setups, NEW q \in Seq(Lines), Carries(q), NEW k \in 0 .. Len(q),
         \A i \in k + 1 .. Len(q) : q[i].t = "unit"
  PROVE  Offs(q, k) \in Seq(Writes) /\ Len(Offs(q, k)) = Len(q) - k
<1>1. \A i \in 1 .. Len(q) - k : k + i \in k + 1 .. Len(q) /\ k + i \in DOMAIN q
  BY LenProperties
<1>2. \A i \in 1 .. Len(q) - k : q[k + i].off \in Writes
  BY <1>1 DEF Carries
<1>3. Len(q) - k \in Nat
  OBVIOUS
<1> QED BY <1>2, <1>3, IsASeq DEF Offs

LEMMA WholeType ==
  ASSUME setup \in Setups, NEW q \in Seq(Lines), Carries(q), NEW k \in 0 .. Len(q), NEW d \in Seq(Writes),
         \A i \in k + 1 .. Len(q) : q[i].t = "unit"
  PROVE  Whole(d, q, k) \in Seq(Writes)
<1>1. Offs(q, k) \in Seq(Writes)
  BY OffsType
<1>2. k > 0 => q[k] \in Lines
  BY ElementOfSeq
<1>3. k > 0 => q[k].data \in Seq(Writes)
  BY <1>2 DEF Lines
<1> DEFINE b == IF k > 0 /\ q[k].t = "bulk" THEN q[k].data ELSE d
           u == Offs(q, k)
<1>4. b \in Seq(Writes) /\ u \in Seq(Writes)
  BY <1>1, <1>3
<1>5. Whole(d, q, k) = b \o u
  BY DEF Whole
<1> HIDE DEF b, u
<1> QED BY <1>4, <1>5, ConcatProperties

\* Reading a line moves what it says to the slave.
LEMMA WholeTail ==
  ASSUME NEW q \in Seq(Lines), q # <<>>, NEW k \in 1 .. Len(q), NEW d
  PROVE  Whole(IF k = 1 /\ q[1].t = "bulk" THEN q[1].data ELSE d, Tail(q), k - 1) = Whole(d, q, k)
<1> DEFINE t == Tail(q)
           n == Len(q)
<1>1. n \in Nat /\ n >= 1 /\ Len(t) = n - 1 /\ \A i \in 1 .. n - 1 : t[i] = q[i + 1]
  BY HeadTailProperties, LenProperties
<1> HIDE DEF t, n
<1>2. Offs(t, k - 1) = Offs(q, k)
  <2>1. k \in 1 .. n /\ Len(t) - (k - 1) = n - k
    BY <1>1 DEF n
  <2>2. \A i \in 1 .. n - k : t[k - 1 + i] = q[k + i]
    <3>1. \A i \in 1 .. n - k : k - 1 + i \in 1 .. n - 1 /\ (k - 1 + i) + 1 = k + i
      BY <1>1, <2>1
    <3> QED BY <1>1, <3>1
  <2> QED BY <2>1, <2>2 DEF Offs, n
<1>3. CASE k = 1
  BY <1>2, <1>3 DEF Whole, t
<1>4. CASE k # 1
  <2>1. k - 1 > 0 /\ k > 0 /\ k - 1 \in 1 .. n - 1 /\ (k - 1) + 1 = k
    BY <1>1, <1>4 DEF n
  <2>2. t[k - 1] = q[k]
    BY <1>1, <2>1
  <2> QED BY <1>2, <1>4, <2>1, <2>2 DEF Whole, t
<1> QED BY <1>3, <1>4

LEMMA WholeUnit ==
  ASSUME setup \in Setups, NEW q \in Seq(Lines), q # <<>>, Carries(q), NEW d \in Seq(Writes),
         \A i \in 1 .. Len(q) : q[i].t = "unit"
  PROVE  Whole(Append(d, q[1].off), Tail(q), 0) = Whole(d, q, 0)
<1> DEFINE t == Tail(q)
           n == Len(q)
           w == q[1].off
           u == Offs(q, 0)
           v == Offs(t, 0)
<1>1. n \in Nat /\ n >= 1 /\ Len(t) = n - 1 /\ t \in Seq(Lines) /\ \A i \in 1 .. n - 1 : t[i] = q[i + 1]
  BY HeadTailProperties, LenProperties
<1>2. w \in Writes
  <2>1. 1 \in DOMAIN q /\ q[1].t = "unit"
    BY <1>1
  <2> QED BY <2>1 DEF Carries
<1>3. u \in Seq(Writes) /\ Len(u) = n
  <2>1. 0 \in 0 .. Len(q) /\ \A i \in 0 + 1 .. Len(q) : q[i].t = "unit"
    BY <1>1
  <2> QED BY <1>1, <2>1, OffsType
<1>4. \A i \in 1 .. n : u[i] = q[i].off
  <2>1. Len(q) - 0 = n /\ \A i \in 1 .. n : 0 + i = i
    BY <1>1
  <2> QED BY <2>1 DEF Offs
<1>5. v = [i \in 1 .. n - 1 |-> u[i + 1]]
  <2>1. Len(t) - 0 = n - 1
    BY <1>1
  <2>2. \A i \in 1 .. n - 1 : t[0 + i].off = u[i + 1]
    <3>1. \A i \in 1 .. n - 1 : 0 + i = i /\ i + 1 \in 1 .. n
      BY <1>1
    <3> QED BY <1>1, <1>4, <3>1
  <2> HIDE DEF t, u
  <2> QED BY <2>1, <2>2 DEF Offs
<1>6. v \in Seq(Writes) /\ Len(v) = n - 1
  <2>1. \A i \in 1 .. n - 1 : u[i + 1] \in Writes
    <3>1. \A i \in 1 .. n - 1 : i + 1 \in 1 .. Len(u)
      BY <1>1, <1>3
    <3> QED BY <1>3, <3>1, ElementOfSeq
  <2>2. n - 1 \in Nat
    BY <1>1
  <2>3. [i \in 1 .. n - 1 |-> u[i + 1]] \in Seq(Writes)
    <3> HIDE DEF u, v, n
    <3> QED BY <2>1, <2>2, IsASeq
  <2> HIDE DEF u, v, n
  <2>4. Len([i \in 1 .. n - 1 |-> u[i + 1]]) = n - 1
    BY <2>2
  <2> QED BY <1>5, <2>3, <2>4
<1>7. Append(d, w) \o v = d \o u
  <2> DEFINE x == Append(d, w)
             xv == x \o v
             du == d \o u
             a == Len(d)
  <2>1. x \in Seq(Writes) /\ Len(x) = a + 1 /\ a \in Nat /\ (\A i \in 1 .. a : x[i] = d[i]) /\ x[a + 1] = w
    BY <1>2, AppendProperties
  <2> HIDE DEF x, u, v, n, t, w
  <2>2. du \in Seq(Writes) /\ Len(du) = a + n /\ \A i \in 1 .. a + n : du[i] = IF i <= a THEN d[i] ELSE u[i - a]
    BY <1>3, ConcatProperties
  <2>3. xv \in Seq(Writes) /\ Len(xv) = a + n /\ \A i \in 1 .. a + n : xv[i] = IF i <= a + 1 THEN x[i] ELSE v[i - (a + 1)]
    <3>1. xv \in Seq(Writes) /\ Len(xv) = Len(x) + Len(v)
          /\ \A i \in 1 .. Len(x) + Len(v) : xv[i] = IF i <= Len(x) THEN x[i] ELSE v[i - Len(x)]
      BY <1>6, <2>1, ConcatProperties
    <3>2. Len(x) + Len(v) = a + n /\ Len(x) = a + 1
      BY <1>1, <1>6, <2>1
    <3> HIDE DEF xv
    <3> QED BY <3>1, <3>2
  <2> HIDE DEF xv, du, a
  <2>4. ASSUME NEW i \in 1 .. a + n  PROVE xv[i] = du[i]
    <3>1. CASE i <= a
      BY <2>1, <2>2, <2>3, <3>1, SMTT(30)
    <3>2. CASE i = a + 1
      <4>1. i - a = 1 /\ 1 \in 1 .. n /\ ~(i <= a) /\ i <= a + 1
        BY <1>1, <2>1, <3>2
      <4>2. u[1] = w
        BY <1>4, <4>1 DEF w
      <4> QED BY <2>1, <2>2, <2>3, <3>2, <4>1, <4>2
    <3>3. CASE i > a + 1
      <4>1. i - (a + 1) \in 1 .. n - 1 /\ i - (a + 1) + 1 = i - a /\ ~(i <= a) /\ ~(i <= a + 1)
        BY <1>1, <2>1, <3>3
      <4>2. v[i - (a + 1)] = u[i - a]
        BY <1>5, <4>1
      <4> QED BY <2>2, <2>3, <4>1, <4>2
    <3> QED BY <2>1, <3>1, <3>2, <3>3
  <2>5. Len(xv) = Len(du) /\ \A i \in 1 .. Len(xv) : xv[i] = du[i]
    BY <2>2, <2>3, <2>4
  <2>6. xv = du
    BY <2>2, <2>3, <2>5, SeqEqual
  <2> QED BY <2>6 DEF xv, du, x
<1>8. Whole(d, q, 0) = d \o u
  BY DEF Whole
<1>9. Whole(Append(d, w), t, 0) = Append(d, w) \o v
  BY DEF Whole
<1> HIDE DEF u, v
<1> QED BY <1>7, <1>8, <1>9

LEMMA WholeFeed ==
  ASSUME setup \in Setups, NEW q \in Seq(Lines), Carries(q), NEW k \in Leads(q), NEW d \in Seq(Writes), NEW w \in Writes
  PROVE  k \in Leads(Append(q, Unit(w))) /\ Whole(d, Append(q, Unit(w)), k) = Append(Whole(d, q, k), w)
<1> DEFINE n == Len(q)
           p == Append(q, Unit(w))
           u == Offs(q, k)
           v == Offs(p, k)
           b == IF k > 0 /\ q[k].t = "bulk" THEN q[k].data ELSE d
<1>1. k \in 0 .. n /\ n \in Nat /\ (k > 0 => q[k].t # "unit") /\ \A i \in k + 1 .. n : q[i].t = "unit"
  BY DEF Leads
<1>2. Unit(w) \in Lines /\ Unit(w).t = "unit" /\ Unit(w).off = w
  BY LineTypes
<1>3. p \in Seq(Lines) /\ Len(p) = n + 1 /\ (\A i \in 1 .. n : p[i] = q[i]) /\ p[n + 1] = Unit(w)
  BY <1>2, AppendProperties
<1>4. u \in Seq(Writes) /\ Len(u) = n - k
  BY <1>1, OffsType
<1>5. b \in Seq(Writes)
  <2>1. k > 0 => q[k] \in Lines
    BY <1>1, ElementOfSeq
  <2> QED BY <2>1 DEF Lines
<1>6. u = [i \in 1 .. n - k |-> q[k + i].off]
  BY DEF Offs
<1>b. Whole(d, q, k) = b \o u
  BY DEF Whole
<1>c. k > 0 => p[k] = q[k]
  BY <1>1, <1>3
<1>d. Whole(d, p, k) = b \o v
  BY <1>c DEF Whole
<1> HIDE DEF p, n, u, b
<1>7. v = [i \in 1 .. n + 1 - k |-> p[k + i].off]
  <2>1. Len(p) - k = n + 1 - k
    <3>1. Len(p) = n + 1 /\ n \in Nat /\ k \in 0 .. n
      BY <1>1, <1>3
    <3> DEFINE l == Len(p)
    <3> HIDE DEF l
    <3>2. l = n + 1
      BY <3>1 DEF l
    <3>3. l - k = n + 1 - k
      BY <3>1, <3>2
    <3> QED BY <3>3 DEF l
  <2>2. v = [i \in 1 .. Len(p) - k |-> p[k + i].off]
    BY DEF Offs
  <2> HIDE DEF v
  <2> QED BY <2>1, <2>2
<1>l. k \in Leads(p)
  <2>1. k \in 0 .. Len(p) /\ (k > 0 => p[k].t # "unit")
    BY <1>1, <1>3
  <2>2. ASSUME NEW i \in k + 1 .. Len(p)  PROVE p[i].t = "unit"
    <3>1. CASE i = n + 1
      BY <1>2, <1>3, <3>1
    <3>2. CASE i # n + 1
      <4>1. i \in k + 1 .. n /\ i \in 1 .. n
        BY <1>1, <1>3, <3>2
      <4> QED BY <1>1, <1>3, <4>1
    <3> QED BY <3>1, <3>2
  <2> QED BY <2>1, <2>2 DEF Leads
<1>8. v = Append(u, w)
  <2>1. n - k \in Nat /\ n + 1 - k \in Nat /\ n + 1 - k = (n - k) + 1
    BY <1>1
  <2>2. Append(u, w) \in Seq(Writes) /\ Len(Append(u, w)) = n + 1 - k
        /\ (\A i \in 1 .. n - k : Append(u, w)[i] = u[i]) /\ Append(u, w)[n - k + 1] = w
    BY <1>4, <2>1, AppendProperties
  <2> DEFINE uw == Append(u, w)
  <2> HIDE DEF uw, v
  <2>3. ASSUME NEW i \in 1 .. n + 1 - k  PROVE v[i] = uw[i]
    <3>1. v[i] = p[k + i].off
      BY <1>7
    <3>2. CASE i = n - k + 1
      <4>1. k + i = n + 1
        BY <1>1, <3>2
      <4> QED BY <1>2, <1>3, <2>2, <3>1, <3>2, <4>1 DEF uw
    <3>3. CASE i # n - k + 1
      <4>1. i \in 1 .. n - k /\ k + i \in 1 .. n
        BY <1>1, <3>3
      <4>2. v[i] = q[k + i].off
        BY <1>3, <3>1, <4>1
      <4>3. uw[i] = q[k + i].off
        BY <1>6, <2>2, <4>1 DEF uw
      <4> QED BY <4>2, <4>3
    <3> QED BY <3>2, <3>3
  <2>4. uw = [i \in 1 .. n + 1 - k |-> uw[i]]
    <3>1. uw \in Seq(Writes) /\ Len(uw) = n + 1 - k
      BY <2>2 DEF uw
    <3> QED BY <3>1
  <2>5. v = [i \in 1 .. n + 1 - k |-> v[i]]
    BY <1>7
  <2> QED BY <2>3, <2>4, <2>5 DEF uw
<1>9. b \o Append(u, w) = Append(b \o u, w)
  <2>1. Append(u, w) = u \o <<w>> /\ b \o u \in Seq(Writes) /\ <<w>> \in Seq(Writes)
    BY <1>4, <1>5, AppendIsConcat, ConcatProperties
  <2>2. Append(b \o u, w) = (b \o u) \o <<w>>
    BY <2>1, AppendIsConcat
  <2>3. b \o (u \o <<w>>) = (b \o u) \o <<w>>
    BY <1>4, <1>5, <2>1, ConcatAssociative
  <2> QED BY <2>1, <2>2, <2>3
<1> QED BY <1>8, <1>9, <1>b, <1>d, <1>l DEF p

LEMMA LeadsOne ==
  ASSUME NEW q, NEW k \in Leads(q), NEW j \in Leads(q), Len(q) \in Nat
  PROVE  j = k
<1>1. k \in 0 .. Len(q) /\ j \in 0 .. Len(q)
  BY DEF Leads
<1>2. ~(j < k)
  <2> SUFFICES ASSUME j < k PROVE FALSE
    OBVIOUS
  <2>1. k > 0 /\ k \in j + 1 .. Len(q)
    BY <1>1
  <2> QED BY <2>1 DEF Leads
<1>3. ~(k < j)
  <2> SUFFICES ASSUME k < j PROVE FALSE
    OBVIOUS
  <2>1. j > 0 /\ j \in k + 1 .. Len(q)
    BY <1>1
  <2> QED BY <2>1 DEF Leads
<1> QED BY <1>1, <1>2, <1>3

LEMMA LeadsTail ==
  ASSUME NEW q \in Seq(Lines), q # <<>>, NEW k \in Leads(q)
  PROVE  (k > 0 => k - 1 \in Leads(Tail(q))) /\ (k = 0 => 0 \in Leads(Tail(q)))
<1> DEFINE t == Tail(q)
           n == Len(q)
<1>1. n \in Nat /\ n >= 1 /\ Len(t) = n - 1 /\ \A i \in 1 .. n - 1 : t[i] = q[i + 1]
  BY HeadTailProperties, LenProperties
<1>2. k \in 0 .. n /\ (k > 0 => q[k].t # "unit") /\ \A i \in k + 1 .. n : q[i].t = "unit"
  BY DEF Leads
<1> HIDE DEF t, n
<1>3. ASSUME k > 0  PROVE k - 1 \in Leads(t)
  <2>1. k - 1 \in 0 .. Len(t)
    BY <1>1, <1>2, <1>3
  <2>2. k - 1 > 0 => k - 1 \in 1 .. n - 1 /\ (k - 1) + 1 = k
    BY <1>1, <1>2, <1>3
  <2>3. k - 1 > 0 => t[k - 1].t # "unit"
    BY <1>1, <1>2, <1>3, <2>2
  <2>4. \A i \in (k - 1) + 1 .. Len(t) : i \in 1 .. n - 1 /\ i + 1 \in k + 1 .. n
    BY <1>1, <1>2, <1>3
  <2>5. \A i \in (k - 1) + 1 .. Len(t) : t[i].t = "unit"
    BY <1>1, <1>2, <2>4
  <2> QED BY <2>1, <2>3, <2>5 DEF Leads
<1>4. ASSUME k = 0  PROVE 0 \in Leads(t)
  <2>1. 0 \in 0 .. Len(t)
    BY <1>1
  <2>2. \A i \in 0 + 1 .. Len(t) : i \in 1 .. n - 1 /\ i + 1 \in k + 1 .. n
    BY <1>1, <1>4
  <2>3. \A i \in 0 + 1 .. Len(t) : t[i].t = "unit"
    BY <1>1, <1>2, <2>2
  <2> QED BY <2>1, <2>3 DEF Leads
<1> QED BY <1>3, <1>4 DEF t

----------------------------------------------------------------------------
(* Who is a master, and what its backlog holds.                            *)

\* All that a step does to a server that is nobody's slave.
MovesTo(m, rid, off, blog, dat) ==
  \/ rid = runid[m] /\ off = mro[m] /\ blog = backlog[m] /\ dat = data[m]
  \/ /\ rid = runid[m] /\ off = mro[m] /\ blog = NoBacklog /\ dat = data[m]
  \/ /\ rid = runid[m] /\ off = mro[m] + 1 /\ blog = <<>> /\ dat = data[m]
  \/ /\ rid = runid[m] /\ ~HasBacklog(m) /\ off = mro[m] /\ blog = NoBacklog
     /\ \E w \in Writes : dat = Append(data[m], w)
  \/ /\ rid = runid[m] /\ HasBacklog(m) /\ off = mro[m] + 1
     /\ \E w \in Writes : LET q == Append(backlog[m], w)
                          IN  /\ dat = Append(data[m], w) /\ blog \in Seq(Writes)
                              /\ Len(blog) <= Len(backlog[m]) + 1
                              /\ blog = SubSeq(q, Len(backlog[m]) + 1 - Len(blog) + 1, Len(backlog[m]) + 1)
  \/ rid = runid[m] + 1 /\ off = 0 /\ blog = NoBacklog
Moves(m) == MovesTo(m, runid'[m], mro'[m], backlog'[m], data'[m])

\* A server that may be a master is nobody's slave.
LEMMA RootFree ==
  ASSUME Type, Connections, Top, NEW m \in Masters
  PROVE  m \in Servers /\ masterhost[m] = None /\ repl_state[m] = "NONE" /\ conn[m].to = None /\ ~Attached(conn[m])
<1>1. setup \in Setups /\ conn \in [Servers -> Conns]
  BY DEF Type, ServerTypes
<1>2. m \in Servers /\ masterhost[m] = None
  BY <1>1, MastersAre DEF Top, Root
<1>3. Control(m) /\ conn[m].to \in Servers \cup {None} /\ None \notin Servers
  BY <1>1, <1>2, TypeParts, ConnTypes, SetupTypes DEF Connections, Ctl
<1> QED BY <1>2, <1>3 DEF Control

\* Only those have slaves.
LEMMA MasterOf ==
  ASSUME Type, Connections, Top, NEW x \in Servers, conn[x].to # None
  PROVE  conn[x].to \in Masters /\ conn[x].to = masterhost[x] /\ x \notin Masters
<1>1. conn[x].to = masterhost[x]
  BY DEF Connections, Ctl, Control
<1> QED BY <1>1, RootFree DEF Top, Root

LEMMA MovesGrow ==
  ASSUME Type, NEW m \in Servers, NEW rid, NEW off, NEW blog, NEW dat,
         MovesTo(m, rid[m], off[m], blog[m], dat[m])
  PROVE  GrowsTo(m, rid, off, blog, dat)
<1> DEFINE r == runid[m]
           r1 == rid[m]
           z == mro[m]
           x == off[m]
           g == backlog[m]
           g1 == blog[m]
           e == data[m]
           e1 == dat[m]
<1>1. r \in Nat /\ z \in Int /\ e \in Seq(Writes) /\ (HasBacklog(m) => g \in Seq(Writes) /\ Len(g) \in Nat) /\ Len(e) \in Nat
  BY DEF Type, ServerTypes
<1>g. HasBacklog(m) <=> g # NoBacklog
  BY DEF HasBacklog
<1> SUFFICES /\ r <= r1
             /\ r1 = r =>
                  /\ z <= x /\ Begins(e, e1)
                  /\ g1 # NoBacklog /\ x - z <= Len(g1) =>
                       HasBacklog(m) /\ Len(g1) - (x - z) <= Len(g) /\ Len(e1) - Len(e) = x - z
  BY DEF GrowsTo
<1>2. Begins(e, e) /\ \A w \in Writes : Begins(e, Append(e, w)) /\ Len(Append(e, w)) = Len(e) + 1
  BY <1>1, BeginsSelf, BeginsAppend, AppendProperties
<1> HIDE DEF r, r1, z, x, g, g1, e, e1
<1>3. CASE r1 = r /\ x = z /\ g1 = g /\ e1 = e
  <2>1. x - z = 0 /\ Len(e1) - Len(e) = 0 /\ r <= r1 /\ z <= x
    BY <1>1, <1>3
  <2>2. HasBacklog(m) => Len(g1) - 0 <= Len(g)
    BY <1>1, <1>3
  <2> QED BY <1>2, <1>3, <1>g, <2>1, <2>2
<1>4. CASE r1 = r /\ x = z /\ g1 = NoBacklog /\ e1 = e
  BY <1>1, <1>2, <1>4
<1>5. CASE r1 = r /\ x = z + 1 /\ g1 = <<>> /\ e1 = e
  <2>1. x - z = 1 /\ Len(g1) = 0
    BY <1>1, <1>5
  <2> QED BY <1>1, <1>2, <1>5, <2>1
<1>6. ASSUME r1 = r, x = z, g1 = NoBacklog, NEW w \in Writes, e1 = Append(e, w)
      PROVE  r <= r1 /\ z <= x /\ Begins(e, e1) /\ g1 = NoBacklog
  BY <1>1, <1>2, <1>6
<1>7. ASSUME r1 = r, HasBacklog(m), x = z + 1, NEW w \in Writes, e1 = Append(e, w), Len(g1) <= Len(g) + 1, g1 \in Seq(Writes)
      PROVE  r <= r1 /\ z <= x /\ Begins(e, e1) /\ Len(g1) - (x - z) <= Len(g) /\ Len(e1) - Len(e) = x - z
  <2>1. x - z = 1 /\ z <= x /\ Len(g1) \in Nat
    BY <1>1, <1>7
  <2>2. Len(g1) - 1 <= Len(g)
    BY <1>1, <1>7, <2>1
  <2>3. Len(e1) - Len(e) = 1 /\ Begins(e, e1)
    BY <1>1, <1>2, <1>7
  <2> QED BY <1>1, <1>7, <2>1, <2>2, <2>3
<1>8. CASE r1 = r + 1
  BY <1>1, <1>8
<1>9. \/ r1 = r /\ x = z /\ g1 = g /\ e1 = e
      \/ r1 = r /\ x = z /\ g1 = NoBacklog /\ e1 = e
      \/ r1 = r /\ x = z + 1 /\ g1 = <<>> /\ e1 = e
      \/ r1 = r /\ x = z /\ g1 = NoBacklog /\ \E w \in Writes : e1 = Append(e, w)
      \/ /\ r1 = r /\ HasBacklog(m) /\ x = z + 1 /\ Len(g1) <= Len(g) + 1 /\ g1 \in Seq(Writes)
         /\ \E w \in Writes : e1 = Append(e, w)
      \/ r1 = r + 1
  BY DEF MovesTo, r, r1, z, x, g, g1, e, e1
<1>10. CASE r1 = r /\ x = z /\ g1 = NoBacklog /\ \E w \in Writes : e1 = Append(e, w)
  BY <1>6, <1>10
<1>11. CASE /\ r1 = r /\ HasBacklog(m) /\ x = z + 1 /\ Len(g1) <= Len(g) + 1 /\ g1 \in Seq(Writes)
            /\ \E w \in Writes : e1 = Append(e, w)
  BY <1>7, <1>11
<1> QED BY <1>3, <1>4, <1>5, <1>8, <1>9, <1>10, <1>11

\* What m's backlog holds after any of these.
LEMMA MovesWindow ==
  ASSUME Type, NEW m \in Servers, Window(m), NEW rid, NEW off, NEW blog, NEW dat, MovesTo(m, rid, off, blog, dat)
  PROVE  off >= 0 /\ (blog # NoBacklog => Ends(blog, dat))
<1> DEFINE z == mro[m]
           g == backlog[m]
           e == data[m]
<1>1. z \in Int /\ z >= 0 /\ e \in Seq(Writes) /\ (HasBacklog(m) => g \in Seq(Writes) /\ Ends(g, e))
  BY DEF Type, ServerTypes, Window
<1>2. /\ off = z \/ off = z + 1 \/ off = 0
      /\ \/ blog = NoBacklog
         \/ blog = g /\ dat = e
         \/ blog = <<>> /\ dat = e
         \/ /\ HasBacklog(m)
            /\ \E w \in Writes : LET q == Append(g, w)
                                 IN  /\ dat = Append(e, w) /\ blog \in Seq(Writes) /\ Len(blog) <= Len(g) + 1
                                     /\ blog = SubSeq(q, Len(g) + 1 - Len(blog) + 1, Len(g) + 1)
  BY DEF MovesTo
<1> HIDE DEF z, g, e
<1>3. off >= 0
  BY <1>1, <1>2
<1> SUFFICES ASSUME blog # NoBacklog  PROVE Ends(blog, dat)
  BY <1>3
<1>4. CASE blog = g /\ dat = e
  BY <1>1, <1>4 DEF HasBacklog, g
<1>5. CASE blog = <<>> /\ dat = e
  <2>1. Len(dat) \in Nat
    BY <1>1, <1>5
  <2>2. Len(blog) = 0
    BY <1>5
  <2> QED BY <2>1, <2>2 DEF Ends
<1>6. ASSUME HasBacklog(m), NEW w \in Writes, dat = Append(e, w), blog \in Seq(Writes), Len(blog) <= Len(g) + 1,
             blog = SubSeq(Append(g, w), Len(g) + 1 - Len(blog) + 1, Len(g) + 1)
      PROVE  Ends(blog, dat)
  BY <1>1, <1>6, EndsAppend
<1> QED BY <1>2, <1>3, <1>4, <1>5, <1>6

\* A slave is made of a server that may not be a master, and told one that may.
LEMMA SlaveofTo ==
  ASSUME Type, OneHop(setup), NEW s \in Servers, NEW h, <<s, h>> \in SlaveofCommands, h # None
  PROVE  h \in Masters /\ s \notin Masters
<1>1. setup \in Setups /\ SlaveofCommands = setup.slaveofCommands
  BY DEF Type, ServerTypes, SlaveofCommands
<1> DEFINE c == <<s, h>>
<1>2. c \in setup.slaveofCommands /\ c[1] = s /\ c[2] = h
  BY <1>1
<1> HIDE DEF c
<1>3. h \in Masters
  BY <1>2 DEF Masters, MayBeMaster
<1>4. s \notin Masters
  BY <1>2 DEF OneHop, Masters
<1> QED BY <1>3, <1>4

\* Nor has such a server slaves.
LEMMA NobodysMaster ==
  ASSUME Type, Connections, Top, NEW s \in Servers, s \notin Masters
  PROVE  Slaves(s) = {} /\ \A x \in Servers : conn[x].to # s
<1>1. None \notin Servers
  BY SetupTypes DEF Type, ServerTypes
<1>2. \A x \in Servers : conn[x].to # s
  BY <1>1, MasterOf
<1> QED BY <1>2 DEF Slaves

LEMMA CutMasters ==
  ASSUME Type, Connections, Top, OneHop(setup), NEW s \in Servers, NEW h, ReplicationSetMaster(s, h) \/ ReplicationUnsetMaster(s),
         h \in Servers
  PROVE  s \notin Masters
<1>1. CASE ReplicationSetMaster(s, h)
  <2>1. <<s, h>> \in SlaveofCommands /\ h # None
    BY <1>1, SetupTypes DEF ReplicationSetMaster, Type, ServerTypes
  <2> QED BY <2>1, SlaveofTo
<1>2. CASE ReplicationUnsetMaster(s)
  BY <1>2, RootFree DEF ReplicationUnsetMaster
<1> QED BY <1>1, <1>2

LEMMA FedMoves ==
  ASSUME Type, NEW m \in Servers, NEW w \in Writes, FeedBacklog(m, w), runid'[m] = runid[m], data'[m] = Append(data[m], w)
  PROVE  Moves(m)
<1>1. CASE HasBacklog(m)
  <2> DEFINE n == Len(backlog[m])
             q == Append(backlog[m], w)
             b == backlog'[m]
  <2>1. /\ mro'[m] = mro[m] + 1 /\ b \in Seq(Writes) /\ Len(b) <= Len(q) /\ Len(q) = n + 1
        /\ b = SubSeq(q, Len(q) - Len(b) + 1, Len(q))
    BY <1>1, FeedEffect
  <2>2. Len(b) <= n + 1 /\ b = SubSeq(q, n + 1 - Len(b) + 1, n + 1)
    <3> DEFINE l == Len(q)
    <3>1. l = n + 1 /\ Len(b) <= l /\ b = SubSeq(q, l - Len(b) + 1, l)
      BY <2>1
    <3> DEFINE k == Len(b)
    <3>2. n \in Nat /\ k \in Nat
      BY <1>1, <2>1 DEF Type, ServerTypes
    <3> HIDE DEF l, q, b, n, k
    <3>3. k <= l /\ b = SubSeq(q, l - k + 1, l)
      BY <3>1 DEF k
    <3>4. l - k + 1 = n + 1 - k + 1 /\ k <= n + 1
      BY <3>1, <3>2, <3>3
    <3>5. b = SubSeq(q, n + 1 - k + 1, n + 1)
      BY <3>1, <3>3, <3>4
    <3> QED BY <3>4, <3>5 DEF k
  <2> QED BY <1>1, <2>1, <2>2 DEF Moves, MovesTo
<1>2. CASE ~HasBacklog(m)
  <2>1. mro'[m] = mro[m] /\ backlog'[m] = NoBacklog
    BY <1>2, FeedEffect DEF HasBacklog
  <2> QED BY <1>2, <2>1 DEF Moves, MovesTo
<1> QED BY <1>1, <1>2

\* What the steps do to the servers that may be masters.
LEMMA MasterMoves ==
  ASSUME Type, Connections, Top, OneHop(setup), Step, NEW m \in Masters
  PROVE  Moves(m)
<1>1. m \in Servers /\ masterhost[m] = None /\ repl_state[m] = "NONE" /\ setup \in Setups
  BY RootFree DEF Type, ServerTypes
<1>2. /\ data \in [Servers -> Seq(Writes)] /\ runid \in [Servers -> Nat] /\ mro \in [Servers -> Int]
      /\ DOMAIN backlog = Servers
  BY DEF Type, ServerTypes
<1>s. UNCHANGED <<runid, mro, backlog, data>> => Moves(m)
  BY DEF Moves, MovesTo
<1>3. ASSUME NEW s \in Servers, Write(s)  PROVE Moves(m)
  <2>1. /\ writes' \in Writes /\ data' = [data EXCEPT ![s] = Append(@, writes')] /\ FeedBacklog(s, writes') /\ runid' = runid
    BY <1>3, TypeParts, WriteEffect DEF Write
  <2> DEFINE w == writes'
  <2>2. w \in Writes /\ data' = [data EXCEPT ![s] = Append(data[s], w)] /\ FeedBacklog(s, w)
    BY <2>1
  <2> HIDE DEF w
  <2>3. CASE s = m
    <3>1. data'[m] = Append(data[m], w)
      BY <1>1, <1>2, <2>2, <2>3
    <3> QED BY <1>1, <2>1, <2>2, <2>3, <3>1, FedMoves
  <2>4. CASE s # m
    <3>1. data'[m] = data[m] /\ mro'[m] = mro[m] /\ backlog'[m] = backlog[m]
      BY <1>1, <1>2, <2>2, <2>4, FeedEffect
    <3> QED BY <2>1, <3>1 DEF Moves, MovesTo
  <2> QED BY <2>3, <2>4
<1>4. ASSUME NEW s \in Servers, ReadUnit(s) \/ ReadBulk(s)  PROVE Moves(m)
  <2>1. s # m
    BY <1>1, <1>4 DEF ReadUnit, ReadBulk
  <2>2. runid' = runid /\ data'[m] = data[m]
    BY <1>1, <1>2, <1>4, <2>1 DEF ReadUnit, ReadBulk
  <2>3. CASE ReadUnit(s)
    <3>1. Head(conn[s].in).off \in Writes /\ FeedBacklog(s, Head(conn[s].in).off)
      BY <2>3, NextUnit DEF ReadUnit
    <3>2. mro'[m] = mro[m] /\ backlog'[m] = backlog[m]
      BY <1>1, <2>1, <3>1, FeedEffect
    <3> QED BY <2>2, <3>2 DEF Moves, MovesTo
  <2>4. CASE ReadBulk(s)
    BY <2>2, <2>4 DEF Moves, MovesTo, ReadBulk
  <2> QED BY <1>4, <2>3, <2>4
<1>5. ASSUME NEW s \in Servers, SlaveStep(s) \/ LoseMaster(s) \/ PsyncTimeout(s), ~ReadUnit(s), ~ReadBulk(s)  PROVE Moves(m)
  BY <1>5, <1>s DEF SlaveStep, LoseMaster, PsyncTimeout, CloseLink, ConnectWithMaster, SendPing, SendPsync, ReplyFull,
     ReplyContinue, FallBackToSync, AbortTransfer, SeeClosed, serverVars
<1>6. ASSUME NEW h \in Servers, NEW s \in Servers, SyncCommand(h, s) \/ SendBulk(h, s) \/ DropSlave(h, s)  PROVE Moves(m)
  <2>1. CASE SyncDuringBgsave(h, s) \/ SyncStartsBgsave(h, s)
    <3>1. CreateBacklog(h) /\ runid' = runid /\ data' = data
      BY <2>1 DEF SyncDuringBgsave, SyncStartsBgsave, AttachSlave
    <3>2. CASE m = h /\ ~HasBacklog(h) /\ Slaves(h) = {}
      <4>1. mro'[m] = mro[m] + 1 /\ backlog'[m] = <<>>
        BY <3>1, <3>2, CreateEffect
      <4> QED BY <3>1, <4>1 DEF Moves, MovesTo
    <3>3. CASE ~(m = h /\ ~HasBacklog(h) /\ Slaves(h) = {})
      <4>1. mro'[m] = mro[m] /\ backlog'[m] = backlog[m]
        BY <1>1, <3>1, <3>3, CreateEffect
      <4> QED BY <3>1, <4>1 DEF Moves, MovesTo
    <3> QED BY <3>2, <3>3
  <2>2. CASE SyncIgnored(h, s) \/ SyncRefused(h, s) \/ SyncPartial(h, s) \/ SyncForkFails(h, s) \/ SendBulk(h, s) \/ DropSlave(h, s)
    BY <2>2, <1>s DEF SyncIgnored, SyncRefused, SyncPartial, SyncForkFails, SendBulk, DropSlave, serverVars
  <2> QED BY <1>6, <2>1, <2>2 DEF SyncCommand
<1>7. ASSUME NEW h \in Servers, Bgsave(h) \/ FreeBacklog(h) \/ \E ok \in BOOLEAN : BgsaveDone(h, ok)  PROVE Moves(m)
  <2>1. CASE FreeBacklog(h)
    BY <1>1, <1>2, <2>1 DEF FreeBacklog, Moves, MovesTo
  <2>2. CASE Bgsave(h) \/ \E ok \in BOOLEAN : BgsaveDone(h, ok)
    BY <2>2, <1>s DEF Bgsave, BgsaveDone
  <2> QED BY <1>7, <2>1, <2>2
<1>8. ASSUME NEW s \in Servers, NEW h \in Servers, ReplicationSetMaster(s, h) \/ ReplicationUnsetMaster(s)  PROVE Moves(m)
  <2>1. s # m
    BY <1>8, CutMasters
  <2> QED BY <1>1, <1>2, <1>8, <2>1 DEF ReplicationSetMaster, ReplicationUnsetMaster, Moves, MovesTo
<1>9. ASSUME NEW s \in Servers, Restart(s)  PROVE Moves(m)
  BY <1>1, <1>2, <1>9 DEF Restart, Moves, MovesTo
<1> QED BY <1>3, <1>4, <1>5, <1>6, <1>7, <1>8, <1>9 DEF Step

LEMMA TopStep ==
  ASSUME Type, Connections, Top, OneHop(setup), [Next]_vars
  PROVE  Top' /\ \A m \in Masters : Moves(m)
<1>0. setup' = setup
  BY DEF Next, vars
<1>1. Masters' = Masters /\ Servers' = Servers
  BY <1>0, SameSetup DEF Masters
<1>2. ASSUME NEW m \in Masters  PROVE Moves(m)
  <2>1. CASE Next
    BY <2>1, MasterMoves DEF Next
  <2>2. CASE UNCHANGED vars
    BY <2>2 DEF vars, serverVars, Moves, MovesTo
  <2> QED BY <2>1, <2>2
<1>3. ASSUME NEW m \in Masters  PROVE Window(m)'
  <2>1. m \in Servers /\ Window(m) /\ Moves(m)
    BY <1>2, RootFree DEF Top
  <2>2. mro'[m] >= 0 /\ (backlog'[m] # NoBacklog => Ends(backlog'[m], data'[m]))
    BY <2>1, MovesWindow DEF Moves
  <2> QED BY <2>2 DEF Window, HasBacklog
<1>4. ASSUME NEW x \in Servers  PROVE Root(x)'
  <2>0. Root(x) /\ Control(x) /\ masterhost \in [Servers -> Servers \cup {None}] /\ master \in [Servers -> Positions]
    BY DEF Top, Connections, Ctl, Type, SlaveTypes
  <2>1. ASSUME masterhost'[x] = masterhost[x], masterhost[x] = None => master'[x].run = master[x].run \/ master'[x] = NoMaster
        PROVE  Root(x)'
    BY <1>1, <2>0, <2>1 DEF Root, NoMaster
  <2>2. CASE UNCHANGED <<masterhost, master>>
    BY <2>1, <2>2
  <2>3. ASSUME NEW s \in Servers, SlaveStep(s) \/ LoseMaster(s) \/ PsyncTimeout(s)  PROVE Root(x)'
    <3>1. repl_state[s] # "NONE" /\ masterhost' = masterhost
      <4>1. Control(s)
        BY DEF Connections, Ctl
      <4> QED BY <2>3, <4>1 DEF SlaveStep, LoseMaster, PsyncTimeout, CloseLink, ConnectWithMaster, SendPing, SendPsync, ReplyFull,
         ReplyContinue, FallBackToSync, AbortTransfer, SeeClosed, ReadUnit, ReadBulk, Blocked, Control
    <3>2. masterhost[s] # None
      BY <3>1 DEF Connections, Ctl, Control
    <3>3. x # s => master'[x] = master[x]
      BY <2>0, <2>3 DEF SlaveStep, LoseMaster, PsyncTimeout, CloseLink, ConnectWithMaster, SendPing, SendPsync, ReplyFull,
         ReplyContinue, FallBackToSync, AbortTransfer, SeeClosed, ReadUnit, ReadBulk
    <3> QED BY <2>1, <3>1, <3>2, <3>3
  <2>4. ASSUME NEW h \in Servers, NEW s \in Servers, SyncCommand(h, s) \/ SendBulk(h, s) \/ DropSlave(h, s)  PROVE Root(x)'
    BY <2>2, <2>4 DEF SyncCommand, SyncIgnored, SyncRefused, SyncPartial, SyncForkFails, SyncDuringBgsave, SyncStartsBgsave,
       SendBulk, DropSlave, slaveVars
  <2>5. ASSUME NEW h \in Servers, Write(h) \/ Bgsave(h) \/ FreeBacklog(h) \/ \E ok \in BOOLEAN : BgsaveDone(h, ok)
        PROVE  Root(x)'
    BY <2>2, <2>5 DEF Write, Bgsave, FreeBacklog, BgsaveDone, slaveVars
  <2>6. ASSUME NEW s \in Servers, NEW h \in Servers, ReplicationSetMaster(s, h)  PROVE Root(x)'
    <3>1. <<s, h>> \in SlaveofCommands /\ h # None
      BY <2>6, SetupTypes DEF ReplicationSetMaster, Type, ServerTypes
    <3>2. h \in Masters /\ s \notin Masters
      BY <3>1, SlaveofTo
    <3>3. masterhost' = [masterhost EXCEPT ![s] = h] /\ master' = [master EXCEPT ![s] = NoMaster]
      BY <2>6 DEF ReplicationSetMaster
    <3>4. CASE x = s
      BY <1>1, <2>0, <3>1, <3>2, <3>3, <3>4 DEF Root
    <3>5. CASE x # s
      BY <2>0, <2>1, <3>3, <3>5
    <3> QED BY <3>4, <3>5
  <2>7. ASSUME NEW s \in Servers, ReplicationUnsetMaster(s)  PROVE Root(x)'
    <3>1. masterhost' = [masterhost EXCEPT ![s] = None] /\ master' = [master EXCEPT ![s] = NoMaster]
      BY <2>7 DEF ReplicationUnsetMaster
    <3>2. CASE x = s
      BY <1>1, <2>0, <3>1, <3>2 DEF Root, NoMaster
    <3>3. CASE x # s
      BY <2>0, <2>1, <3>1, <3>3
    <3> QED BY <3>2, <3>3
  <2>8. ASSUME NEW s \in Servers, Restart(s)  PROVE Root(x)'
    BY <2>0, <2>1, <2>8 DEF Restart
  <2>9. CASE Next
    <3>1. Step
      BY <2>9 DEF Next
    <3> QED BY <2>3, <2>4, <2>5, <2>6, <2>7, <2>8, <3>1 DEF Step
  <2>10. CASE UNCHANGED vars
    BY <2>2, <2>10 DEF vars, slaveVars
  <2> QED BY <2>9, <2>10
<1>5. Top'
  BY <1>1, <1>3, <1>4 DEF Top
<1> QED BY <1>2, <1>5

LEMMA InitTop ==
  ASSUME Init, OneHop(setup)
  PROVE  Top
<1>1. /\ setup \in Setups /\ masterhost = InitialMaster /\ master = [s \in Servers |-> NoMaster]
      /\ mro = [s \in Servers |-> 0] /\ backlog = [s \in Servers |-> NoBacklog]
  BY DEF Init
<1>2. InitialMaster \in [Servers -> Servers \cup {None}] /\ Masters \subseteq Servers
  BY <1>1, SetupTypes, MastersAre
<1>3. ASSUME NEW s \in Servers  PROVE Root(s)
  <2>1. masterhost[s] \in Masters \cup {None}
    BY <1>1, <1>2 DEF Masters, MayBeMaster, InitialMaster, Servers
  <2>2. s \in Masters => masterhost[s] = None
    BY <1>1 DEF OneHop, Masters, InitialMaster
  <2> QED BY <1>1, <2>1, <2>2 DEF Root, NoMaster
<1>4. ASSUME NEW m \in Masters  PROVE Window(m)
  BY <1>1, <1>2 DEF Window, HasBacklog
<1> QED BY <1>3, <1>4 DEF Top

----------------------------------------------------------------------------
(* Where the slaves stand.                                                 *)

\* The layers that the last one rests on.
Below == Type /\ Connections /\ Offsets /\ Top /\ OneHop(setup)

\* The positions that were good are so after the step.
Kept == \A d \in Seq(Writes), r \in Runs, o \in Int : At(d, r, o) => AtBy(d, r, o, runid', mro', backlog', data')

LEMMA AllKept ==
  ASSUME Below, Type', [Next]_vars
  PROVE  Kept
<1>0. Servers' = Servers /\ Writes' = Writes /\ \A m \in Masters : Moves(m) /\ m \in Servers
  <2>1. setup' = setup
    BY DEF Next, vars
  <2> QED BY <2>1, SameSetup, TopStep, RootFree DEF Below
<1> DEFINE rid == runid'
           off == mro'
           blog == backlog'
           dat == data'
<1>1. \A m \in Masters : /\ rid[m] \in Int /\ off[m] \in Int /\ dat[m] \in Seq(Writes)
                         /\ blog[m] # NoBacklog => blog[m] \in Seq(Writes)
  BY <1>0 DEF Type, ServerTypes, HasBacklog
<1>2. \A m \in Masters : MovesTo(m, rid[m], off[m], blog[m], dat[m])
  BY <1>0 DEF Moves
<1> HIDE DEF rid, off, blog, dat
<1>3. \A m \in Masters : GrowsTo(m, rid, off, blog, dat)
  BY <1>0, <1>2, MovesGrow DEF Below
<1>4. \A d \in Seq(Writes), r \in Runs, o \in Int : At(d, r, o) => AtBy(d, r, o, rid, off, blog, dat)
  BY <1>1, <1>3, AtKeeps DEF Below
<1> QED BY <1>4 DEF Kept, rid, off, blog, dat

\* Units follow the line that tells where they start.
LEMMA UnitsFollow ==
  ASSUME Below, NEW s \in Servers
  PROVE  LET q == conn[s].in  st == repl_state[s]
         IN  /\ q \in Seq(Lines) /\ Carries(q) /\ Len(q) \in Nat /\ InOrder(q)
             /\ st = "CONNECTED" => \A i \in 1 .. Len(q) : q[i].t = "unit"
             /\ st = "PSYNC" /\ q # <<>> /\ q[1].t = "CONTINUE" => \A i \in 2 .. Len(q) : q[i].t = "unit"
             /\ q # <<>> /\ q[1].t = "bulk" => \A i \in 2 .. Len(q) : q[i].t = "unit"
             /\ Len(q) > 1 /\ q[2].t = "bulk" => \A i \in 3 .. Len(q) : q[i].t = "unit"
<1> DEFINE q == conn[s].in
<1>1. q \in Seq(Lines) /\ Carries(q) /\ Len(q) \in Nat
  BY TypeParts, ConnTypes DEF Below, Type
<1>2. InOrder(q)
  BY DEF Below, Connections, Ctl, Ordered
<1>3. Asked(s) /\ Connected(s)
  <2>1. ~OverlapBgsave
    BY DEF Below, OneHop, OverlapBgsave
  <2> QED BY <2>1 DEF Below, Offsets, Placed
<1>4. /\ repl_state[s] = "CONNECTED" => \A i \in 1 .. Len(q) : q[i].t = "unit"
      /\ repl_state[s] = "PSYNC" /\ q # <<>> /\ q[1].t = "CONTINUE" => \A i \in 2 .. Len(q) : q[i].t = "unit"
  BY <1>3 DEF Asked, Connected
<1> HIDE DEF q
<1>d. DOMAIN q = 1 .. Len(q) /\ (q # <<>> => Len(q) >= 1)
  BY <1>1
<1>5. q # <<>> /\ q[1].t = "bulk" => \A i \in 2 .. Len(q) : q[i].t = "unit"
  BY <1>1, <1>2, <1>d DEF InOrder
<1>6. Len(q) > 1 /\ q[2].t = "bulk" => \A i \in 3 .. Len(q) : q[i].t = "unit"
  BY <1>1, <1>2, <1>d DEF InOrder
<1> QED BY <1>1, <1>2, <1>4, <1>5, <1>6 DEF q

\* What is said of a slave's lines in flight stays good while it reads none.
LEMMA ReachKept ==
  ASSUME Below, Kept, NEW s \in Servers, Reach(s)
  PROVE  ReachBy(data[s], conn[s].in, repl_state[s], master[s], full[s], runid', mro', backlog', data')
<1> DEFINE q == conn[s].in
           d == data[s]
           st == repl_state[s]
           ms == master[s]
           fl == full[s]
<1>1. /\ q \in Seq(Lines) /\ Carries(q) /\ Len(q) \in Nat
      /\ st = "CONNECTED" => \A i \in 1 .. Len(q) : q[i].t = "unit"
      /\ st = "PSYNC" /\ q # <<>> /\ q[1].t = "CONTINUE" => \A i \in 2 .. Len(q) : q[i].t = "unit"
      /\ q # <<>> /\ q[1].t = "bulk" => \A i \in 2 .. Len(q) : q[i].t = "unit"
      /\ Len(q) > 1 /\ q[2].t = "bulk" => \A i \in 3 .. Len(q) : q[i].t = "unit"
  BY UnitsFollow
<1>2. setup \in Setups /\ d \in Seq(Writes) /\ ms.run \in Runs /\ ms.off \in Int /\ fl.run \in Runs /\ fl.off \in Int
  BY DEF Below, Type, ServerTypes, SlaveTypes, Positions
<1>3. \A d0 \in Seq(Writes), r \in Runs, o \in Int : At(d0, r, o) => AtBy(d0, r, o, runid', mro', backlog', data')
  BY DEF Kept
<1>4. /\ st = "CONNECTED" => At(Whole(d, q, 0), ms.run, ms.off + Len(q))
      /\ st = "PSYNC" /\ q # <<>> /\ q[1].t = "CONTINUE" => At(Whole(d, q, 1), ms.run, ms.off + Len(q) - 1)
      /\ st = "PSYNC" /\ Len(q) > 1 /\ q[1].t = "FULLRESYNC" /\ q[2].t = "bulk" =>
           At(Whole(d, q, 2), q[1].run, q[1].off + Len(q) - 2)
      /\ st = "TRANSFER" /\ fl.off # -1 /\ q # <<>> /\ q[1].t = "bulk" =>
           At(Whole(d, q, 1), fl.run, fl.off + Len(q) - 1)
  BY DEF Reach, ReachBy, At
<1> HIDE DEF q, d, st, ms, fl
<1>n. q # <<>> => Len(q) >= 1 /\ q[1] \in Lines
  BY <1>1
<1>5. ASSUME NEW k \in 0 .. Len(q), \A i \in k + 1 .. Len(q) : q[i].t = "unit"  PROVE Whole(d, q, k) \in Seq(Writes)
  BY <1>1, <1>2, <1>5, WholeType
<1>6. ASSUME st = "CONNECTED"
      PROVE  AtBy(Whole(d, q, 0), ms.run, ms.off + Len(q), runid', mro', backlog', data')
  <2>1. Whole(d, q, 0) \in Seq(Writes)
    <3>1. 0 \in 0 .. Len(q) /\ 0 + 1 = 1
      BY <1>1
    <3> QED BY <1>1, <1>5, <1>6, <3>1
  <2>2. ms.off + Len(q) \in Int
    BY <1>1, <1>2
  <2> QED BY <1>2, <1>3, <1>4, <1>6, <2>1, <2>2
<1>7. ASSUME st = "PSYNC", q # <<>>, q[1].t = "CONTINUE"
      PROVE  AtBy(Whole(d, q, 1), ms.run, ms.off + Len(q) - 1, runid', mro', backlog', data')
  <2>1. Whole(d, q, 1) \in Seq(Writes)
    <3>1. 1 \in 0 .. Len(q) /\ 1 + 1 = 2
      BY <1>1, <1>7, <1>n
    <3> QED BY <1>1, <1>5, <1>7, <3>1
  <2>2. ms.off + Len(q) - 1 \in Int
    BY <1>1, <1>2
  <2> QED BY <1>2, <1>3, <1>4, <1>7, <2>1, <2>2
<1>8. ASSUME st = "PSYNC", Len(q) > 1, q[1].t = "FULLRESYNC", q[2].t = "bulk"
      PROVE  AtBy(Whole(d, q, 2), q[1].run, q[1].off + Len(q) - 2, runid', mro', backlog', data')
  <2>1. Whole(d, q, 2) \in Seq(Writes)
    <3>1. 2 \in 0 .. Len(q) /\ 2 + 1 = 3
      BY <1>1, <1>8
    <3> QED BY <1>1, <1>5, <1>8, <3>1
  <2>2. q[1].run \in Runs /\ q[1].off \in Int
    <3>1. q[1] \in Lines
      BY <1>1, <1>8
    <3> QED BY <3>1 DEF Lines
  <2>3. q[1].off + Len(q) - 2 \in Int
    BY <1>1, <2>2
  <2> QED BY <1>3, <1>4, <1>8, <2>1, <2>2, <2>3
<1>9. ASSUME st = "TRANSFER", fl.off # -1, q # <<>>, q[1].t = "bulk"
      PROVE  AtBy(Whole(d, q, 1), fl.run, fl.off + Len(q) - 1, runid', mro', backlog', data')
  <2>1. Whole(d, q, 1) \in Seq(Writes)
    <3>1. 1 \in 0 .. Len(q) /\ 1 + 1 = 2
      BY <1>1, <1>9, <1>n
    <3> QED BY <1>1, <1>5, <1>9, <3>1
  <2>2. fl.off + Len(q) - 1 \in Int
    BY <1>1, <1>2
  <2> QED BY <1>2, <1>3, <1>4, <1>9, <2>1, <2>2
<1>10. ReachBy(d, q, st, ms, fl, runid', mro', backlog', data')
  BY <1>6, <1>7, <1>8, <1>9 DEF ReachBy
<1> QED BY <1>10 DEF q, d, st, ms, fl

\* An ONLINE slave, with the lines in flight, stands where its master does.
LEMMA Stands ==
  ASSUME Below, NEW s \in Servers, Hop(s)
  PROVE  Reach(s) /\ At(data[s], master[s].run, master[s].off)
<1> DEFINE q == conn[s].in
           c == conn[s]
           d == data[s]
           m == c.to
           st == repl_state[s]
           ms == master[s]
           fl == full[s]
<1>1. /\ q \in Seq(Lines) /\ Carries(q) /\ Len(q) \in Nat
      /\ st = "CONNECTED" => \A i \in 1 .. Len(q) : q[i].t = "unit"
      /\ st = "PSYNC" /\ q # <<>> /\ q[1].t = "CONTINUE" => \A i \in 2 .. Len(q) : q[i].t = "unit"
      /\ q # <<>> /\ q[1].t = "bulk" => \A i \in 2 .. Len(q) : q[i].t = "unit"
      /\ Len(q) > 1 /\ q[2].t = "bulk" => \A i \in 3 .. Len(q) : q[i].t = "unit"
  BY UnitsFollow
<1>2. setup \in Setups /\ d \in Seq(Writes) /\ ms.run \in Runs /\ ms.off \in Int /\ fl.run \in Runs /\ fl.off \in Int
  BY DEF Below, Type, ServerTypes, SlaveTypes, Positions
<1>3. Asked(s) /\ Connected(s) /\ Transfer(s)
  <2>1. ~OverlapBgsave
    BY DEF Below, OneHop, OverlapBgsave
  <2> QED BY <2>1 DEF Below, Offsets, Placed
<1>4. ~ms.pre
  BY DEF Hop, Expected
<1>5. ASSUME Online(c)  PROVE Reach(s)
  <2>1. m \in Masters
    <3>1. Attached(c)
      BY <1>5 DEF Online, Attached
    <3>2. m # None
      BY <3>1, AttachedTo, SetupTypes DEF Below, Type, ServerTypes
    <3> QED BY <3>2, MasterOf DEF Below
  <2>2. PICK k \in Leads(q) : Whole(d, q, k) = data[m]
    BY <1>5 DEF Hop, Given, GivenBy, Online
  <2>3. At(data[m], Run(m), mro[m])
    BY <2>1, AtTop DEF Below
  <2>4. \A j \in Leads(q) : At(Whole(d, q, j), Run(m), mro[m])
    <3>1. \A j \in Leads(q) : j = k
      BY <1>1, LeadsOne
    <3> HIDE DEF q, d, m
    <3> QED BY <2>2, <2>3, <3>1
  <2>5. /\ st = "CONNECTED" => ms.run = Run(m) /\ ms.off + Len(q) - 0 = mro[m]
        /\ st = "PSYNC" /\ q # <<>> /\ q[1].t = "CONTINUE" => ms.run = Run(m) /\ ms.off + Len(q) - 1 = mro[m]
        /\ st = "PSYNC" /\ q # <<>> /\ q[1].t = "FULLRESYNC" => q[1].run = Run(m) /\ q[1].off + Len(q) - (1 + 1) = mro[m]
        /\ st = "TRANSFER" /\ fl.off # -1 => fl.run = Run(m) /\ fl.off + Len(q) - (0 + 1) = mro[m]
    BY <1>3, <1>4, <1>5 DEF Asked, Connected, Transfer, Reads, ReadsTo, Counted, CountsTo
  <2>r. Reach(s) <=> ReachBy(d, q, st, ms, fl, runid, mro, backlog, data)
    BY DEF Reach
  <2> HIDE DEF q, c, d, m, st, ms, fl
  <2>6. ASSUME st = "CONNECTED"  PROVE At(Whole(d, q, 0), ms.run, ms.off + Len(q))
    <3>1. 0 \in Leads(q)
      BY <1>1, <2>6 DEF Leads
    <3>2. ms.off + Len(q) = mro[m]
      BY <1>1, <1>2, <2>5, <2>6
    <3> QED BY <2>4, <2>5, <2>6, <3>1, <3>2
  <2>7. ASSUME st = "PSYNC", q # <<>>, q[1].t = "CONTINUE"  PROVE At(Whole(d, q, 1), ms.run, ms.off + Len(q) - 1)
    <3>1. 1 \in Leads(q)
      <4>1. Len(q) >= 1
        BY <1>1, <2>7
      <4> QED BY <1>1, <2>7, <4>1 DEF Leads
    <3> QED BY <2>4, <2>5, <2>7, <3>1
  <2>8. ASSUME st = "PSYNC", Len(q) > 1, q[1].t = "FULLRESYNC", q[2].t = "bulk"
        PROVE  At(Whole(d, q, 2), q[1].run, q[1].off + Len(q) - 2)
    <3>1. 2 \in Leads(q)
      BY <1>1, <2>8 DEF Leads
    <3>2. q # <<>>
      BY <1>1, <2>8
    <3>3. q[1].run = Run(m) /\ q[1].off + Len(q) - (1 + 1) = mro[m]
      BY <2>5, <2>8, <3>2
    <3>4. q[1].off + Len(q) - 2 = mro[m]
      BY <3>3
    <3> QED BY <2>4, <3>1, <3>3, <3>4
  <2>9. ASSUME st = "TRANSFER", fl.off # -1, q # <<>>, q[1].t = "bulk"
        PROVE  At(Whole(d, q, 1), fl.run, fl.off + Len(q) - 1)
    <3>1. 1 \in Leads(q)
      <4>1. Len(q) >= 1
        BY <1>1, <2>9
      <4> QED BY <1>1, <2>9, <4>1 DEF Leads
    <3>3. fl.run = Run(m) /\ fl.off + Len(q) - (0 + 1) = mro[m]
      BY <2>5, <2>9
    <3>4. fl.off + Len(q) - 1 = mro[m]
      BY <3>3
    <3> QED BY <2>4, <3>1, <3>3, <3>4
  <2>10. ReachBy(d, q, st, ms, fl, runid, mro, backlog, data)
    BY <2>6, <2>7, <2>8, <2>9 DEF ReachBy, At
  <2> QED BY <2>r, <2>10
<1>6. Reach(s)
  BY <1>5 DEF Hop, Resumes
<1>7. At(data[s], master[s].run, master[s].off)
  <2>1. CASE st # "CONNECTED"
    BY <2>1 DEF Hop, Resumes
  <2>2. CASE st = "CONNECTED"
    <3> DEFINE u == Offs(q, 0)
    <3>1. At(Whole(d, q, 0), ms.run, ms.off + Len(q))
      BY <1>6, <2>2 DEF Reach, ReachBy, At
    <3>2. u \in Seq(Writes) /\ Len(u) = Len(q)
      <4> HIDE DEF q
      <4>1. 0 \in 0 .. Len(q) /\ 0 + 1 = 1 /\ Len(q) - 0 = Len(q)
        BY <1>1
      <4> QED BY <1>1, <1>2, <2>2, <4>1, OffsType
    <3>3. Whole(d, q, 0) = d \o u
      BY DEF Whole
    <3> HIDE DEF q, u, d, ms
    <3>4. At(d \o u, ms.run, ms.off + Len(u))
      BY <3>1, <3>2, <3>3
    <3>5. At(d, ms.run, ms.off)
      BY <1>2, <3>2, <3>4, AtShrink DEF Below
    <3> QED BY <3>5 DEF d, ms
  <2> QED BY <2>1, <2>2
<1> QED BY <1>6, <1>7

----------------------------------------------------------------------------
(* What one step makes of one slave.                                       *)

LEMMA AtStays ==
  ASSUME Below, Kept, NEW s \in Servers, Hop(s)
  PROVE  AtBy(data[s], master[s].run, master[s].off, runid', mro', backlog', data')
<1>1. At(data[s], master[s].run, master[s].off)
  BY Stands
<1>2. data[s] \in Seq(Writes) /\ master[s].run \in Runs /\ master[s].off \in Int
  BY DEF Below, Type, ServerTypes, SlaveTypes, Positions
<1> QED BY <1>1, <1>2 DEF Kept

\* A slave between two attempts.
LEMMA HopIdle ==
  ASSUME Below, Kept, NEW s \in Servers, Hop(s),
         repl_state'[s] \in {"NONE", "CONNECT", "CONNECTING", "RECEIVE_PONG"},
         conn'[s].cmds = <<>>, conn'[s].in = <<>>, conn'[s].replstate = "NONE",
         master'[s] = NoMaster \/ (master'[s] = master[s] /\ data'[s] = data[s]), setup' = setup
  PROVE  Hop(s)'
<1>1. At(data[s], master[s].run, master[s].off)'
  <2>1. CASE master'[s] = NoMaster
    <3>1. setup \in Setups
      BY DEF Below, Type, ServerTypes
    <3>2. AtBy(data'[s], NoRun, master'[s].off, runid', mro', backlog', data')
      BY <3>1, AtNone
    <3>3. master'[s].run = NoRun
      BY <2>1 DEF NoMaster
    <3>4. Masters' = Masters
      BY DEF Masters
    <3>5. AtBy(data'[s], master'[s].run, master'[s].off, runid', mro', backlog', data')
      BY <3>2, <3>3
    <3> QED BY <3>4, <3>5 DEF At, AtBy
  <2>2. CASE master'[s] = master[s] /\ data'[s] = data[s]
    <3>1. AtBy(data'[s], master'[s].run, master'[s].off, runid', mro', backlog', data')
      BY <2>2, AtStays
    <3>2. Masters' = Masters
      BY DEF Masters
    <3> QED BY <3>1, <3>2 DEF At, AtBy
  <2> QED BY <2>1, <2>2
<1>2. Resumes(s)'
  BY <1>1 DEF Resumes, Reach, ReachBy
<1>3. Pending(s)'
  BY DEF Pending
<1>4. Expected(s)'
  BY DEF Hop, Expected, NoMaster
<1>5. Given(s)'
  BY DEF Given, GivenBy
<1> QED BY <1>2, <1>3, <1>4, <1>5 DEF Hop

\* A slave that takes no step; its master may send units, close, or ignore a request.
LEMMA HopStays ==
  ASSUME Below, Kept, setup' = setup, NEW s \in Servers, Hop(s), SameSlave(s), data'[s] = data[s],
         NEW w,
         \/ conn'[s].in = conn[s].in
         \/ w \in Writes /\ Online(conn[s]) /\ Online(conn'[s]) /\ conn'[s].in = Append(conn[s].in, Unit(w)),
         \/ conn'[s].cmds = conn[s].cmds
         \/ conn'[s].cmds = <<>> /\ ~conn'[s].up
         \/ Attached(conn[s]) /\ conn[s].cmds # <<>> /\ conn'[s].cmds = Tail(conn[s].cmds),
         conn'[s].up => conn[s].up, Attached(conn'[s]) => Attached(conn[s])
  PROVE  Resumes(s)' /\ Pending(s)' /\ Expected(s)'
<1> DEFINE c == conn[s]
           e == conn'[s]
           q == c.in
           p == e.in
<1>m. Masters' = Masters
  BY DEF Masters
<1>0. /\ setup \in Setups /\ q \in Seq(Lines) /\ c.cmds \in Seq(Requests)
      /\ \A v \in Writes : Unit(v) \in Lines /\ Unit(v).t = "unit"
  BY TypeParts, ConnTypes, LineTypes DEF Below, Type, ServerTypes
<1>1. /\ repl_state'[s] = repl_state[s] /\ master'[s] = master[s] /\ full'[s] = full[s]
  BY DEF SameSlave
\* The lines that were there are there.
<1>2. /\ p = q \/ (Online(c) /\ Online(e) /\ p # <<>>)
      /\ q # <<>> => p # <<>> /\ p[1] = q[1]
      /\ \A i \in 1 .. Len(p) : p[i].t = "FULLRESYNC" => i \in 1 .. Len(q) /\ p[i] = q[i]
  <2>1. CASE p = q
    BY <2>1
  <2>2. CASE w \in Writes /\ Online(c) /\ Online(e) /\ p = Append(q, Unit(w))
    <3> HIDE DEF c, e, q, p
    <3>1. /\ p \in Seq(Lines) /\ Len(p) = Len(q) + 1 /\ Len(q) \in Nat /\ (\A i \in 1 .. Len(q) : p[i] = q[i])
          /\ p[Len(q) + 1].t = "unit" /\ p # <<>>
      BY <1>0, <2>2, AppendProperties
    <3>2. q # <<>> => Len(q) >= 1
      BY <1>0
    <3>3. \A i \in 1 .. Len(p) : i \in 1 .. Len(q) \/ i = Len(q) + 1
      BY <3>1
    <3> QED BY <2>2, <3>1, <3>2, <3>3
  <2> QED BY <2>1, <2>2
<1>3. Asked(s)
  <2>1. ~OverlapBgsave
    BY DEF Below, OneHop, OverlapBgsave
  <2> QED BY <2>1 DEF Below, Offsets, Placed
<1>a. Online(c) => Attached(c)
  BY DEF Online, Attached
<1>4. Resumes(s)'
  <2>1. repl_state'[s] # "CONNECTED" => At(data[s], master[s].run, master[s].off)'
    <3>1. AtBy(data'[s], master'[s].run, master'[s].off, runid', mro', backlog', data')
      BY <1>1, AtStays
    <3> QED BY <1>m, <3>1 DEF At, AtBy
  <2>2. ASSUME ~Online(e)  PROVE Reach(s)'
    <3>1. p = q
      BY <1>2, <2>2
    <3>2. ReachBy(data[s], conn[s].in, repl_state[s], master[s], full[s], runid', mro', backlog', data')
      BY Stands, ReachKept
    <3>3. ReachBy(data'[s], conn'[s].in, repl_state'[s], master'[s], full'[s], runid', mro', backlog', data')
      BY <1>1, <3>1, <3>2
    <3> QED BY <1>m, <3>3 DEF Reach, ReachBy, AtBy
  <2> QED BY <2>1, <2>2 DEF Resumes
<1>5. Pending(s)'
  <2> SUFFICES ASSUME NEW i \in 1 .. Len(e.cmds), e.cmds[i].name = "PSYNC"
               PROVE  /\ i = 1 /\ e.in = <<>> /\ ~Attached(e)
                      /\ repl_state'[s] \in {"PSYNC", "TRANSFER"}
                      /\ At(data[s], conn[s].cmds[1].run, conn[s].cmds[1].off - 1)'
    BY DEF Pending
  <2>p. \A j \in 1 .. Len(c.cmds) : c.cmds[j].name = "PSYNC" =>
          /\ j = 1 /\ c.in = <<>> /\ ~Attached(c) /\ repl_state[s] \in {"PSYNC", "TRANSFER"}
          /\ At(data[s], c.cmds[1].run, c.cmds[1].off - 1)
    BY DEF Hop, Pending
  <2>1. e.cmds = c.cmds
    <3>1. e.cmds # <<>>
      OBVIOUS
    <3>2. ASSUME Attached(c), c.cmds # <<>>, e.cmds = Tail(c.cmds)  PROVE FALSE
      <4> HIDE DEF c, e
      <4>1. Len(e.cmds) = Len(c.cmds) - 1 /\ Len(c.cmds) \in Nat /\ \A j \in 1 .. Len(c.cmds) - 1 : e.cmds[j] = c.cmds[j + 1]
        BY <1>0, <3>2, HeadTailProperties
      <4>2. i + 1 \in 1 .. Len(c.cmds) /\ e.cmds[i] = c.cmds[i + 1]
        BY <4>1
      <4> QED BY <2>p, <3>2, <4>2
    <3> QED BY <3>1, <3>2
  <2>2. /\ i = 1 /\ c.in = <<>> /\ ~Attached(c) /\ repl_state[s] \in {"PSYNC", "TRANSFER"}
        /\ At(data[s], c.cmds[1].run, c.cmds[1].off - 1)
    BY <2>1, <2>p
  <2>3. ~Online(c) /\ p = q
    BY <1>2, <1>a, <2>2
  <2>4. AtBy(data[s], c.cmds[1].run, c.cmds[1].off - 1, runid', mro', backlog', data')
    <3>1. c.cmds[1] \in Requests
      BY <1>0, <2>1, <2>2
    <3>2. c.cmds[1].run \in Runs /\ c.cmds[1].off \in Int /\ data[s] \in Seq(Writes)
      BY <3>1 DEF Requests, Below, Type, ServerTypes
    <3>3. c.cmds[1].off - 1 \in Int
      BY <3>2
    <3> QED BY <2>2, <3>2, <3>3 DEF Kept
  <2>5. AtBy(data'[s], e.cmds[1].run, e.cmds[1].off - 1, runid', mro', backlog', data')
    BY <2>1, <2>4
  <2>6. At(data[s], conn[s].cmds[1].run, conn[s].cmds[1].off - 1)'
    BY <1>m, <2>5 DEF At, AtBy
  <2> QED BY <1>1, <2>2, <2>3, <2>6
<1>6. Expected(s)'
  <2>x. /\ ~master[s].pre
        /\ \A i \in 1 .. Len(q) : q[i].t = "FULLRESYNC" => q[i].off >= 0
        /\ repl_state[s] = "PSYNC" /\ q # <<>> => q[1].t \in {"FULLRESYNC", "CONTINUE"}
        /\ repl_state[s] = "TRANSFER" /\ full[s].off = -1 =>
             /\ q = <<>> => ~Attached(c) /\ (c.up => c.cmds # <<>> /\ c.cmds[1].name = "PSYNC")
             /\ q # <<>> => q[1].t \in {"FULLRESYNC", "CONTINUE"}
    BY DEF Hop, Expected
  <2>0. repl_state[s] = "PSYNC" /\ q = <<>> => ~Attached(c)
    BY <1>3 DEF Asked
  <2>1. \A i \in 1 .. Len(p) : p[i].t = "FULLRESYNC" => p[i].off >= 0
    BY <1>2, <2>x
  <2>2. repl_state[s] = "PSYNC" /\ p # <<>> => p[1].t \in {"FULLRESYNC", "CONTINUE"}
    BY <1>2, <1>a, <2>0, <2>x
  <2>3. ASSUME repl_state[s] = "TRANSFER", full[s].off = -1
        PROVE  /\ p = <<>> => ~Attached(e) /\ (e.up => e.cmds # <<>> /\ e.cmds[1].name = "PSYNC")
               /\ p # <<>> => p[1].t \in {"FULLRESYNC", "CONTINUE"}
    BY <1>2, <1>a, <2>3, <2>x
  <2> QED BY <1>1, <2>1, <2>2, <2>3, <2>x DEF Expected
<1> QED BY <1>4, <1>5, <1>6

\* Nothing happens to s, nor to what it waits for.
LEMMA HopSame ==
  ASSUME Below, Kept, setup' = setup, NEW s \in Servers, Hop(s), SameSlave(s), data'[s] = data[s], conn'[s] = conn[s],
         Attached(conn[s]) => data'[conn[s].to] = data[conn[s].to],
         conn[s].replstate = "WAIT_BGSAVE_END" => child'[conn[s].to] = child[conn[s].to]
  PROVE  Hop(s)'
<1>1. Resumes(s)' /\ Pending(s)' /\ Expected(s)'
  BY HopStays
<1>2. Given(s)'
  BY DEF Hop, Given, GivenBy, Attached
<1> QED BY <1>1, <1>2 DEF Hop

\* The master has closed its end.
LEMMA HopClosed ==
  ASSUME Below, Kept, setup' = setup, NEW s \in Servers, Hop(s), SameSlave(s), data'[s] = data[s],
         conn'[s].in = conn[s].in, ~conn'[s].up, conn'[s].replstate = "NONE",
         conn'[s].cmds = conn[s].cmds \/ conn'[s].cmds = <<>>
  PROVE  Hop(s)'
<1>1. ~Attached(conn'[s])
  BY DEF Attached
<1>2. Resumes(s)' /\ Pending(s)' /\ Expected(s)'
  BY <1>1, HopStays
<1>3. Given(s)'
  BY DEF Given, GivenBy
<1> QED BY <1>2, <1>3 DEF Hop

\* Only the connection of s changes.
LEMMA HopOwn ==
  ASSUME Below, Kept, setup' = setup, NEW s \in Servers, OnlyConn(s), Hop(s)', \A x \in Servers : Hop(x),
         \A x \in Servers \ {s} : SameSlave(x) /\ data'[x] = data[x], s \in Masters => data'[s] = data[s],
         \A x \in Servers \ {s} : conn[x].replstate = "WAIT_BGSAVE_END" => child'[conn[x].to] = child[conn[x].to]
  PROVE  \A x \in Servers : Hop(x)'
<1> SUFFICES ASSUME NEW x \in Servers \ {s}  PROVE Hop(x)'
  OBVIOUS
<1>1. conn'[x] = conn[x]
  BY DEF OnlyConn
<1>2. Attached(conn[x]) => data'[conn[x].to] = data[conn[x].to]
  <2> SUFFICES ASSUME Attached(conn[x])  PROVE data'[conn[x].to] = data[conn[x].to]
    OBVIOUS
  <2>1. conn[x].to \in Servers /\ conn[x].to # None
    BY AttachedTo, SetupTypes DEF Below, Type, ServerTypes
  <2>2. conn[x].to \in Masters
    BY <2>1, MasterOf DEF Below
  <2> QED BY <2>1, <2>2
<1> QED BY <1>1, <1>2, HopSame

----------------------------------------------------------------------------
(* The answers to SYNC and PSYNC.                                          *)

\* What the first request is, and what may be in flight when it is answered.
LEMMA ToAnswer ==
  ASSUME Below, NEW m \in Servers, NEW s \in Servers, Hop(s), SyncRequest(m, s), ~Attached(conn[s])
  PROVE  LET c == conn[s]  st == repl_state[s]
         IN  /\ \/ c.cmds[1].name = "PSYNC" /\ c.in = <<>> /\ At(data[s], c.cmds[1].run, c.cmds[1].off - 1)
                \/ /\ c.cmds[1].name = "SYNC" /\ st = "TRANSFER"
                   /\ c.in # <<>> /\ c.in[1].t \in {"FULLRESYNC", "CONTINUE"}
             /\ st = "PSYNC" \/ (st = "TRANSFER" /\ full[s].off = -1)
             /\ c.cmds \in Seq(Requests) /\ c.cmds # <<>> /\ c.in \in Seq(Lines) /\ Cmd(s) = c.cmds[1]
             /\ \A i \in 1 .. Len(c.cmds) : c.cmds[i].name = "PSYNC" => i = 1
             /\ m \in Masters /\ c.to = m /\ c.up
<1> DEFINE c == conn[s]
           st == repl_state[s]
<1>1. /\ c.cmds \in Seq(Requests) /\ c.cmds # <<>> /\ c.in \in Seq(Lines) /\ c.to = m /\ c.up /\ m # None
      /\ ~Online(c) /\ ~Attached(c) /\ m \in Masters
  <2>1. TypeOK /\ setup \in Setups
    BY TypeParts DEF Below, Type, ServerTypes
  <2>2. c.to = m /\ c.cmds # <<>> /\ c.up /\ m # None
    BY <2>1, SetupTypes DEF SyncRequest
  <2>3. m \in Masters
    BY <2>2, MasterOf DEF Below
  <2> QED BY <2>1, <2>2, <2>3, ConnTypes DEF Online, Attached
<1>2. Asked(s) /\ Connected(s) /\ Transfer(s)
  <2>1. ~OverlapBgsave
    BY DEF Below, OneHop, OverlapBgsave
  <2> QED BY <2>1 DEF Below, Offsets, Placed
<1>3. st \in {"PSYNC", "TRANSFER"}
  <2>1. Control(s) /\ st \in {"NONE", "CONNECT", "CONNECTING", "RECEIVE_PONG", "PSYNC", "TRANSFER", "CONNECTED"}
    BY DEF Below, Connections, Ctl, Type, SlaveTypes
  <2> QED BY <1>1, <1>2, <2>1 DEF Control, Connected
<1>4. Cmd(s) = c.cmds[1] /\ 1 \in 1 .. Len(c.cmds) /\ c.cmds[1] \in Requests
  <2> HIDE DEF c
  <2>1. Head(c.cmds) = c.cmds[1] /\ Len(c.cmds) \in Nat /\ Len(c.cmds) >= 1
    BY <1>1
  <2>2. Cmd(s) = Head(c.cmds)
    BY DEF Cmd, c
  <2> QED BY <1>1, <2>1, <2>2
<1>5. c.cmds[1].name \in {"SYNC", "PSYNC"}
  BY <1>4 DEF Requests
<1>6. \A i \in 1 .. Len(c.cmds) : c.cmds[i].name = "PSYNC" =>
        i = 1 /\ c.in = <<>> /\ At(data[s], c.cmds[1].run, c.cmds[1].off - 1)
  BY DEF Hop, Pending
<1>7. /\ st = "PSYNC" /\ c.in # <<>> => c.in[1].t \in {"FULLRESYNC", "CONTINUE"}
      /\ st = "TRANSFER" /\ full[s].off = -1 =>
           /\ c.in = <<>> => c.cmds[1].name = "PSYNC"
           /\ c.in # <<>> => c.in[1].t \in {"FULLRESYNC", "CONTINUE"}
  BY <1>1 DEF Hop, Expected
<1>8. st = "TRANSFER" => full[s].off = -1
  BY <1>1, <1>2 DEF Transfer, AfterFull
<1>9. st = "PSYNC" => c.in = <<>> /\ c.cmds = <<Psync(master[s])>>
  <2>1. st = "PSYNC" /\ c.in # <<>> => FALSE
    BY <1>1, <1>2, <1>7 DEF Asked, AfterFull
  <2> QED BY <1>1, <1>2, <2>1 DEF Asked
<1>10. st = "PSYNC" => c.cmds[1].name = "PSYNC"
  BY <1>9 DEF Psync
<1> HIDE DEF c, st
<1> QED BY <1>1, <1>3, <1>4, <1>5, <1>6, <1>7, <1>8, <1>9, <1>10 DEF c, st

LEMMA HopReplied ==
  ASSUME Below, Kept, setup' = setup, NEW m \in Servers, NEW s \in Servers, Hop(s), SyncRequest(m, s), ~Attached(conn[s]),
         SameSlave(s), data'[s] = data[s], conn'[s].cmds = Tail(conn[s].cmds),
         NEW ls \in Seq(Lines), conn'[s].in = conn[s].in \o ls,
         Cmd(s).name = "PSYNC" =>
           /\ ls # <<>> /\ (Len(ls) > 1 => ls[2].t # "bulk")
           /\ ls[1].t = "FULLRESYNC" \/ (ls[1].t = "CONTINUE" /\ Online(conn'[s])),
         \A i \in 1 .. Len(ls) : ls[i].t = "FULLRESYNC" => Cmd(s).name = "PSYNC" /\ ls[i].off >= 0
  PROVE  Resumes(s)' /\ Pending(s)' /\ Expected(s)'
<1> DEFINE c == conn[s]
           e == conn'[s]
           q == c.in
           p == e.in
           st == repl_state[s]
<1>m. Masters' = Masters
  BY DEF Masters
<1>1. /\ \/ c.cmds[1].name = "PSYNC" /\ q = <<>>
         \/ c.cmds[1].name = "SYNC" /\ st = "TRANSFER" /\ q # <<>> /\ q[1].t \in {"FULLRESYNC", "CONTINUE"}
      /\ st = "PSYNC" \/ (st = "TRANSFER" /\ full[s].off = -1)
      /\ c.cmds \in Seq(Requests) /\ c.cmds # <<>> /\ q \in Seq(Lines) /\ Cmd(s) = c.cmds[1]
      /\ \A i \in 1 .. Len(c.cmds) : c.cmds[i].name = "PSYNC" => i = 1
  BY ToAnswer
<1>2. repl_state'[s] = st /\ master'[s] = master[s] /\ full'[s] = full[s]
  BY DEF SameSlave
<1>3. /\ p \in Seq(Lines) /\ Len(p) = Len(q) + Len(ls) /\ Len(q) \in Nat /\ Len(ls) \in Nat
      /\ \A i \in 1 .. Len(q) + Len(ls) : p[i] = IF i <= Len(q) THEN q[i] ELSE ls[i - Len(q)]
  <2>1. p = q \o ls
    OBVIOUS
  <2> HIDE DEF q, p
  <2> QED BY <1>1, <2>1, ConcatProperties
<1>4. c.cmds[1].name = "PSYNC" => p = ls
  <2>1. p = q \o ls
    OBVIOUS
  <2> HIDE DEF q, p
  <2> QED BY <1>1, <2>1
<1>5. c.cmds[1].name # "PSYNC" => q # <<>> /\ p # <<>> /\ p[1] = q[1] /\ st = "TRANSFER"
  <2> HIDE DEF p, q
  <2>1. q # <<>> => Len(q) >= 1
    BY <1>1, <1>3
  <2> QED BY <1>1, <1>3, <2>1, SMTT(30)
<1>6. Resumes(s)'
  <2>1. repl_state'[s] # "CONNECTED" => At(data[s], master[s].run, master[s].off)'
    <3>1. AtBy(data'[s], master'[s].run, master'[s].off, runid', mro', backlog', data')
      BY <1>2, AtStays
    <3> QED BY <1>m, <3>1 DEF At, AtBy
  <2>2. ASSUME ~Online(e)  PROVE Reach(s)'
    <3>1. st = "PSYNC" => p = ls /\ ls # <<>> /\ (Len(ls) > 1 => ls[2].t # "bulk") /\ ls[1].t = "FULLRESYNC"
      BY <1>1, <1>4, <2>2
    <3>2. repl_state'[s] = "PSYNC" \/ (repl_state'[s] = "TRANSFER" /\ full'[s].off = -1)
      BY <1>1, <1>2
    <3>3. repl_state'[s] = "PSYNC" => conn'[s].in[1].t = "FULLRESYNC" /\ (Len(conn'[s].in) > 1 => conn'[s].in[2].t # "bulk")
      BY <1>2, <3>1
    <3> QED BY <3>2, <3>3 DEF Reach, ReachBy
  <2> QED BY <2>1, <2>2 DEF Resumes
<1>7. Pending(s)'
  <2> HIDE DEF c, e
  <2>1. e.cmds = Tail(c.cmds)
    BY DEF c, e
  <2>2. Len(e.cmds) = Len(c.cmds) - 1 /\ Len(c.cmds) \in Nat /\ \A j \in 1 .. Len(c.cmds) - 1 : e.cmds[j] = c.cmds[j + 1]
    BY <1>1, <2>1, HeadTailProperties
  <2>3. \A i \in 1 .. Len(e.cmds) : e.cmds[i].name # "PSYNC"
    <3> SUFFICES ASSUME NEW i \in 1 .. Len(e.cmds), e.cmds[i].name = "PSYNC"  PROVE FALSE
      OBVIOUS
    <3>1. i + 1 \in 1 .. Len(c.cmds) /\ e.cmds[i] = c.cmds[i + 1] /\ i + 1 # 1
      BY <2>2
    <3> QED BY <1>1, <3>1
  <2> QED BY <2>3 DEF Pending, e
<1>8. Expected(s)'
  <2>x. ~master[s].pre /\ \A i \in 1 .. Len(q) : q[i].t = "FULLRESYNC" => q[i].off >= 0
    BY DEF Hop, Expected
  <2>1. \A i \in 1 .. Len(p) : p[i].t = "FULLRESYNC" => p[i].off >= 0
    <3> HIDE DEF p, q
    <3> SUFFICES ASSUME NEW i \in 1 .. Len(p), p[i].t = "FULLRESYNC"  PROVE p[i].off >= 0
      OBVIOUS
    <3>1. CASE i <= Len(q)
      BY <1>3, <2>x, <3>1
    <3>2. CASE ~(i <= Len(q))
      <4>1. i - Len(q) \in 1 .. Len(ls) /\ p[i] = ls[i - Len(q)]
        BY <1>3, <3>2
      <4> QED BY <4>1
    <3> QED BY <3>1, <3>2
  <2>2. p # <<>> /\ p[1].t \in {"FULLRESYNC", "CONTINUE"}
    <3>1. CASE c.cmds[1].name = "PSYNC"
      BY <1>1, <1>4, <3>1
    <3>2. CASE c.cmds[1].name # "PSYNC"
      BY <1>1, <1>5, <3>2
    <3> QED BY <3>1, <3>2
  <2> QED BY <1>2, <2>1, <2>2, <2>x DEF Expected
<1> QED BY <1>6, <1>7, <1>8

\* A partial resynchronization sends what the data set lacks.
LEMMA PartialGives ==
  ASSUME Below, setup' = setup, NEW m \in Servers, NEW s \in Servers, Hop(s), SyncPartial(m, s)
  PROVE  Given(s)'
<1> DEFINE c == conn[s]
           e == conn'[s]
           p == e.in
           d == data[s]
           o == Cmd(s).off
           n == mro[m] - o + 1
           g == backlog[m]
           b == BacklogFrom(m, o)
           l == <<Line("CONTINUE")>>
           us == Offs(p, 1)
<1>0. TypeOK /\ setup \in Setups /\ SyncRequest(m, s) /\ ~Attached(c) /\ PsyncAccepted(m, s) /\ data' = data
  BY TypeParts DEF Below, Type, ServerTypes, SyncPartial, SyncServed, Attached, serverVars
<1>1. /\ c.in = <<>> /\ At(d, c.cmds[1].run, c.cmds[1].off - 1) /\ Cmd(s) = c.cmds[1] /\ m \in Masters /\ c.to = m
      /\ Cmd(s).run = Run(m) /\ HasBacklog(m) /\ c.cmds # <<>>
  <2>1. Cmd(s).name = "PSYNC" /\ Cmd(s).run = Run(m) /\ HasBacklog(m)
    BY <1>0 DEF PsyncAccepted
  <2> QED BY <1>0, <2>1, ToAnswer
<1>2. /\ o \in Int /\ mro[m] \in Int /\ g \in Seq(Writes) /\ n \in 0 .. Len(g) /\ b \in Seq(Lines) /\ Len(b) = n
      /\ \A i \in 1 .. n : b[i] = Unit(g[Len(g) - n + i])
  BY <1>0, <1>1, BacklogFromType
<1>3. e.replstate = "ONLINE" /\ e.to = m /\ p = l \o b
  <2>1. e.replstate = "ONLINE" /\ e.to = c.to /\ p = c.in \o l \o b
    BY <1>0, SyncPartialEffect
  <2>2. Line("CONTINUE") \in Lines
    BY <1>0, LineTypes
  <2>3. l \in Seq(Lines)
    BY <2>2
  <2> HIDE DEF l, b, c, e, p
  <2>4. <<>> \o l = l
    BY <2>3
  <2> QED BY <1>1, <2>1, <2>4
<1>4. l \in Seq(Lines) /\ Len(l) = 1 /\ l[1].t = "CONTINUE"
  <2>1. Line("CONTINUE") \in Lines /\ Line("CONTINUE").t = "CONTINUE"
    BY <1>0, LineTypes
  <2> QED BY <2>1
<1>5. d \in Seq(Writes) /\ data[m] \in Seq(Writes) /\ Ends(g, data[m]) /\ Len(g) \in Nat
  <2>1. Window(m)
    BY <1>1 DEF Below, Top
  <2>2. d \in Seq(Writes) /\ data[m] \in Seq(Writes)
    BY DEF Below, Type, ServerTypes
  <2> QED BY <1>1, <1>2, <2>1, <2>2 DEF Window
<1>6. Begins(d, data[m]) /\ Len(data[m]) - Len(d) = n
  <2>1. Run(m)[1] = m /\ Run(m)[2] = runid[m]
    BY DEF Run
  <2>2. /\ Begins(d, data[m])
        /\ g # NoBacklog /\ mro[m] - (o - 1) <= Len(g) => Len(data[m]) - Len(d) = mro[m] - (o - 1)
    BY <1>1, <2>1 DEF At, AtBy
  <2>3. g # NoBacklog
    BY <1>1 DEF HasBacklog
  <2>4. mro[m] - (o - 1) = n /\ n <= Len(g)
    BY <1>2, <1>5
  <2> QED BY <2>2, <2>3, <2>4
<1> HIDE DEF n, g, b, l
<1>7. /\ p \in Seq(Lines) /\ Len(p) = 1 + n /\ n \in Nat /\ p[1] = l[1] /\ \A i \in 1 .. n : p[1 + i] = b[i]
  <2>1. p \in Seq(Lines) /\ Len(p) = Len(l) + Len(b)
        /\ \A i \in 1 .. Len(l) + Len(b) : p[i] = IF i <= Len(l) THEN l[i] ELSE b[i - Len(l)]
    <3> HIDE DEF p
    <3> QED BY <1>2, <1>3, <1>4, ConcatProperties
  <2>2. n \in Nat
    BY <1>2, <1>5
  <2> HIDE DEF p
  <2>3. p[1] = l[1]
    <3>1. 1 \in 1 .. Len(l) + Len(b) /\ 1 <= Len(l)
      BY <1>2, <1>4, <2>2
    <3> QED BY <2>1, <3>1
  <2>4. ASSUME NEW i \in 1 .. n  PROVE p[1 + i] = b[i]
    <3>1. 1 + i \in 1 .. Len(l) + Len(b) /\ ~(1 + i <= Len(l)) /\ 1 + i - Len(l) = i
      BY <1>2, <1>4, <2>2
    <3> QED BY <2>1, <3>1
  <2>5. Len(p) = 1 + n
    BY <1>2, <1>4, <2>1
  <2> QED BY <2>1, <2>2, <2>3, <2>4, <2>5
<1>w. \A i \in 1 .. n : g[Len(g) - n + i] \in Writes
  <2>1. \A i \in 1 .. n : Len(g) - n + i \in 1 .. Len(g)
    BY <1>2, <1>5
  <2> QED BY <1>2, <2>1, ElementOfSeq
<1>8. \A i \in 1 .. n : b[i].t = "unit" /\ b[i].off = g[Len(g) - n + i]
  BY <1>0, <1>2, <1>w, LineTypes
<1>9. us = [i \in 1 .. n |-> g[Len(g) - n + i]]
  <2> HIDE DEF p
  <2>1. Len(p) - 1 = n
    BY <1>7
  <2>2. us = [i \in 1 .. n |-> p[1 + i].off]
    BY <2>1 DEF Offs
  <2> HIDE DEF us
  <2> QED BY <1>7, <1>8, <2>2
<1>10. us \in Seq(Writes) /\ Len(us) = n /\ \A i \in 1 .. n : us[i] = g[Len(g) - n + i]
  <2>1. [i \in 1 .. n |-> g[Len(g) - n + i]] \in Seq(Writes)
    BY <1>7, <1>w, IsASeq
  <2>2. Len([i \in 1 .. n |-> g[Len(g) - n + i]]) = n
    BY <1>7
  <2> HIDE DEF us
  <2> QED BY <1>9, <2>1, <2>2
<1>11. 1 \in Leads(p)
  <2> HIDE DEF p
  <2>1. ASSUME NEW i \in 1 + 1 .. Len(p)  PROVE p[i].t = "unit"
    <3>1. i - 1 \in 1 .. n /\ 1 + (i - 1) = i
      BY <1>7
    <3> QED BY <1>7, <1>8, <3>1
  <2>2. 1 \in 0 .. Len(p)
    BY <1>7
  <2> QED BY <1>4, <1>7, <2>1, <2>2 DEF Leads
<1>12. Whole(d, p, 1) = d \o us
  BY <1>4, <1>7 DEF Whole
<1> HIDE DEF us, d, p
<1>13. d \o us = data[m]
  <2>1. n \in 0 .. Len(g) /\ g \in Seq(Writes)
    BY <1>2
  <2>2. \A i \in 1 .. n : us[i] = g[Len(g) - n + i]
    BY <1>10
  <2> DEFINE e0 == data[m]
  <2>3. e0 \in Seq(Writes) /\ Begins(d, e0) /\ Ends(g, e0) /\ Len(e0) - Len(d) = n
    BY <1>5, <1>6
  <2> HIDE DEF e0
  <2>4. d \o us = e0
    BY <1>5, <1>10, <2>1, <2>2, <2>3, EndsComplete
  <2> QED BY <2>4 DEF e0
<1>14. Whole(data'[s], e.in, 1) = data'[e.to]
  BY <1>0, <1>3, <1>12, <1>13 DEF d, p
<1> QED BY <1>3, <1>11, <1>14 DEF Given, GivenBy, p

LEMMA HopAnswer ==
  ASSUME Below, Kept, setup' = setup, \A x \in Servers : Hop(x), NEW m \in Servers, NEW s \in Servers, SyncCommand(m, s)
  PROVE  \A x \in Servers : Hop(x)'
<1>0. /\ TypeOK /\ setup \in Setups /\ Hop(s) /\ SyncRequest(m, s) /\ data' = data
      /\ \A x \in Servers : SameSlave(x)
  <2>1. SyncRequest(m, s) /\ data' = data /\ UNCHANGED slaveVars
    BY DEF SyncCommand, SyncIgnored, SyncRefused, SyncPartial, SyncDuringBgsave, SyncStartsBgsave, SyncForkFails,
       SyncServed, serverVars
  <2> QED BY <2>1, TypeParts DEF Below, Type, ServerTypes, slaveVars, SameSlave
<1>n. conn[s].replstate = "NONE" => ~Attached(conn[s])
  BY DEF Attached
<1>f. /\ FullReply(m, s) \in Seq(Lines)
      /\ Cmd(s).name # "PSYNC" => FullReply(m, s) = <<>>
      /\ Cmd(s).name = "PSYNC" => FullReply(m, s) = <<FullLine(Run(m), FullOffset(m))>>
      /\ FullLine(Run(m), FullOffset(m)) \in Lines
      /\ FullLine(Run(m), FullOffset(m)).t = "FULLRESYNC" /\ FullLine(Run(m), FullOffset(m)).off = FullOffset(m)
  <2>1. FullReply(m, s) \in Seq(Lines) /\ Run(m) \in Runs /\ FullOffset(m) \in Int
    BY <1>0, FullReplyType
  <2>2. /\ Cmd(s).name # "PSYNC" => FullReply(m, s) = <<>>
        /\ Cmd(s).name = "PSYNC" => FullReply(m, s) = <<FullLine(Run(m), FullOffset(m))>>
    BY DEF FullReply
  <2> QED BY <1>0, <2>1, <2>2, LineTypes
<1>o. ~Attached(conn[s]) => FullOffset(m) >= 0
  <2> SUFFICES ASSUME ~Attached(conn[s])  PROVE FullOffset(m) >= 0
    OBVIOUS
  <2>1. m \in Masters
    BY <1>0, ToAnswer
  <2>2. mro[m] \in Int /\ mro[m] >= 0
    BY <2>1 DEF Below, Top, Window, Type, ServerTypes
  <2> QED BY <2>2 DEF FullOffset
<1>e. Line("ERR") \in Lines /\ Line("ERR").t = "ERR" /\ <<Line("ERR")>> \in Seq(Lines)
  <2>1. Line("ERR") \in Lines /\ Line("ERR").t = "ERR"
    BY <1>0, LineTypes
  <2> QED BY <2>1
<1>b. ~OverlapBgsave
  BY DEF Below, OneHop, OverlapBgsave
<1>1. CASE SyncIgnored(m, s)
  <2>1. /\ OnlyConn(s) /\ conn'[s].to = conn[s].to /\ conn'[s].up = conn[s].up /\ conn'[s].cmds = Tail(conn[s].cmds)
        /\ conn'[s].in = conn[s].in /\ conn'[s].replstate = conn[s].replstate /\ conn'[s].obuf = conn[s].obuf
        /\ conn'[s].snap = conn[s].snap
    BY <1>0, <1>1, SyncIgnoredEffect
  <2>2. Attached(conn[s]) /\ conn[s].cmds # <<>> /\ child' = child
    BY <1>1 DEF SyncIgnored, SyncRequest, Attached, serverVars
  <2>3. Attached(conn'[s]) => Attached(conn[s])
    BY <2>2
  <2>4. Resumes(s)' /\ Pending(s)' /\ Expected(s)'
    BY <1>0, <2>1, <2>2, <2>3, HopStays
  <2>5. Given(s)'
    BY <1>0, <2>1, <2>2 DEF Hop, Given, GivenBy
  <2>6. Hop(s)'
    BY <2>4, <2>5 DEF Hop
  <2> QED BY <1>0, <2>1, <2>2, <2>6, HopOwn
<1>2. CASE SyncRefused(m, s)
  <2>1. ~Attached(conn[s]) /\ masterhost[m] # None
    BY <1>2, <1>n DEF SyncRefused
  <2>2. m \in Masters
    BY <1>0, <2>1, ToAnswer
  <2> QED BY <2>1, <2>2, RootFree DEF Below
<1>3. CASE SyncPartial(m, s)
  <2> DEFINE b == BacklogFrom(m, Cmd(s).off)
             l == <<Line("CONTINUE")>>
             ls == l \o b
             q == conn[s].in
  <2>1. /\ OnlyConn(s) /\ conn'[s].cmds = Tail(conn[s].cmds) /\ conn'[s].in = (q \o l) \o b
        /\ conn'[s].replstate = "ONLINE"
    BY <1>0, <1>3, SyncPartialEffect
  <2>2. ~Attached(conn[s]) /\ PsyncAccepted(m, s) /\ child' = child /\ Cmd(s).name = "PSYNC"
    BY <1>3, <1>n DEF SyncPartial, SyncServed, PsyncAccepted, serverVars
  <2>3. b \in Seq(Lines) /\ q \in Seq(Lines) /\ \A i \in 1 .. Len(b) : b[i].t = "unit"
    <3> DEFINE n == mro[m] - Cmd(s).off + 1
               g == backlog[m]
    <3>0. conn[s].cmds # <<>> /\ q \in Seq(Lines)
      BY <1>0, ConnTypes DEF SyncRequest
    <3>1. /\ b \in Seq(Lines) /\ g \in Seq(Writes) /\ n \in 0 .. Len(g) /\ Len(b) = n
          /\ \A i \in 1 .. n : b[i] = Unit(g[Len(g) - n + i])
      BY <1>0, <2>2, <3>0, BacklogFromType
    <3> HIDE DEF n, b, g
    <3>2. \A i \in 1 .. n : Len(g) - n + i \in 1 .. Len(g)
      BY <3>1
    <3>3. \A i \in 1 .. n : g[Len(g) - n + i] \in Writes
      BY <3>1, <3>2, ElementOfSeq
    <3>4. \A i \in 1 .. n : b[i].t = "unit"
      BY <1>0, <3>1, <3>3, LineTypes
    <3> QED BY <3>0, <3>1, <3>4
  <2>4. l \in Seq(Lines) /\ Len(l) = 1 /\ l[1].t = "CONTINUE"
    <3>1. Line("CONTINUE") \in Lines /\ Line("CONTINUE").t = "CONTINUE"
      BY <1>0, LineTypes
    <3> QED BY <3>1
  <2> HIDE DEF l, b
  <2>5. /\ ls \in Seq(Lines) /\ ls # <<>> /\ ls[1].t = "CONTINUE" /\ \A i \in 2 .. Len(ls) : ls[i].t = "unit"
    <3>1. ls \in Seq(Lines) /\ Len(ls) = Len(l) + Len(b) /\ Len(b) \in Nat
          /\ \A i \in 1 .. Len(l) + Len(b) : ls[i] = IF i <= Len(l) THEN l[i] ELSE b[i - Len(l)]
      BY <2>3, <2>4, ConcatProperties, LenProperties
    <3> DEFINE n == Len(b)
               k == Len(ls)
    <3>2. k = 1 + n /\ n \in Nat /\ \A i \in 1 .. 1 + n : ls[i] = IF i <= 1 THEN l[i] ELSE b[i - 1]
      BY <2>3, <2>4, <3>1
    <3> HIDE DEF ls, n, k
    <3>3. ls[1] = l[1] /\ 1 \in 1 .. k
      <4>1. 1 \in 1 .. 1 + n /\ 1 <= 1
        BY <3>2
      <4> QED BY <3>2, <4>1
    <3>4. ASSUME NEW i \in 2 .. k  PROVE ls[i].t = "unit"
      <4>1. i \in 1 .. 1 + n /\ ~(i <= 1) /\ i - 1 \in 1 .. n
        BY <3>2
      <4>2. b[i - 1].t = "unit"
        BY <2>3, <4>1 DEF n
      <4> QED BY <3>2, <4>1, <4>2
    <3>5. ls # <<>>
      BY <3>3 DEF k
    <3> QED BY <2>4, <3>1, <3>3, <3>4, <3>5 DEF k
  <2>6. conn'[s].in = q \o ls
    <3> HIDE DEF q
    <3> QED BY <2>1, <2>3, <2>4, ConcatAssociative
  <2> HIDE DEF ls
  <2>7. Online(conn'[s]) /\ \A i \in 1 .. Len(ls) : ls[i].t # "FULLRESYNC"
    <3>1. \A i \in 1 .. Len(ls) : i = 1 \/ i \in 2 .. Len(ls)
      BY <2>5
    <3> QED BY <2>1, <2>5, <3>1 DEF Online
  <2>8. Len(ls) > 1 => ls[2].t # "bulk"
    BY <2>5
  <2>9. Resumes(s)' /\ Pending(s)' /\ Expected(s)'
    BY <1>0, <2>1, <2>2, <2>5, <2>6, <2>7, <2>8, HopReplied
  <2>10. Given(s)'
    BY <1>0, <1>3, PartialGives
  <2>11. Hop(s)'
    BY <2>9, <2>10 DEF Hop
  <2> QED BY <1>0, <2>1, <2>2, <2>11, HopOwn
<1>4. CASE SyncDuringBgsave(m, s)
  BY <1>4, <1>b DEF SyncDuringBgsave
<1>5. CASE SyncStartsBgsave(m, s)
  <2> DEFINE ls == FullReply(m, s)
  <2>1. /\ OnlyConn(s) /\ conn'[s].to = conn[s].to /\ conn'[s].cmds = Tail(conn[s].cmds) /\ conn'[s].in = conn[s].in \o ls
        /\ conn'[s].replstate = "WAIT_BGSAVE_END" /\ conn'[s].obuf = <<>>
    <3> DEFINE ob == <<>>
    <3>1. "WAIT_BGSAVE_END" \in States /\ ob \in Seq(Writes)
      BY DEF States
    <3>2. AttachSlave(m, s, "WAIT_BGSAVE_END", ob)
      BY <1>5 DEF SyncStartsBgsave
    <3> HIDE DEF ob, ls
    <3>3. OnlyConn(s) /\ conn'[s].to = conn[s].to /\ conn'[s].cmds = Tail(conn[s].cmds)
          /\ conn'[s].in = conn[s].in \o FullReply(m, s)
          /\ conn'[s].replstate = "WAIT_BGSAVE_END" /\ conn'[s].obuf = ob
      BY <1>0, <3>1, <3>2, AttachSlaveEffect
    <3> QED BY <3>3 DEF ob, ls
  <2>2. /\ ~Attached(conn[s]) /\ child[m] = NoChild /\ child' = [child EXCEPT ![m] = data[m]]
    BY <1>5, <1>n DEF SyncStartsBgsave, SyncServed
  <2>3. conn[s].to = m /\ DOMAIN child = Servers /\ data[m] \in Seq(Writes)
    BY <1>0 DEF SyncRequest, Below, Type, ServerTypes
  <2>4. /\ ls \in Seq(Lines)
        /\ Cmd(s).name = "PSYNC" => ls # <<>> /\ (Len(ls) > 1 => ls[2].t # "bulk") /\ ls[1].t = "FULLRESYNC"
        /\ \A i \in 1 .. Len(ls) : ls[i].t = "FULLRESYNC" => Cmd(s).name = "PSYNC" /\ ls[i].off >= 0
    BY <1>f, <1>o, <2>2
  <2> HIDE DEF ls
  <2>5. Resumes(s)' /\ Pending(s)' /\ Expected(s)'
    BY <1>0, <2>1, <2>2, <2>4, HopReplied
  <2>6. Given(s)'
    <3>1. child'[m] = data[m] /\ data[m] \o <<>> = data[m]
      BY <2>2, <2>3
    <3>2. child'[conn'[s].to] \o conn'[s].obuf = data'[conn'[s].to]
      BY <1>0, <2>1, <2>3, <3>1
    <3> QED BY <2>1, <3>2 DEF Given, GivenBy
  <2>7. Hop(s)'
    BY <2>5, <2>6 DEF Hop
  <2>8. \A x \in Servers \ {s} : conn[x].replstate = "WAIT_BGSAVE_END" => child'[conn[x].to] = child[conn[x].to]
    <3> SUFFICES ASSUME NEW x \in Servers \ {s}, conn[x].replstate = "WAIT_BGSAVE_END"
                 PROVE  child'[conn[x].to] = child[conn[x].to]
      OBVIOUS
    <3>1. child[conn[x].to] # NoChild
      BY <1>b DEF Below, Connections, Ctl, Waits, Waiting
    <3>2. conn[x].to \in Servers
      BY AttachedTo DEF Below, Attached
    <3> QED BY <2>2, <2>3, <3>1, <3>2
  <2> QED BY <1>0, <2>1, <2>7, <2>8, HopOwn
<1>6. CASE SyncForkFails(m, s)
  <2> DEFINE f == FullReply(m, s)
             r == <<Line("ERR")>>
             ls == f \o r
             q == conn[s].in
  <2>1. /\ OnlyConn(s) /\ conn'[s].cmds = Tail(conn[s].cmds) /\ conn'[s].in = (q \o f) \o r
        /\ conn'[s].replstate = conn[s].replstate
    BY <1>0, <1>6, SyncForkFailsEffect
  <2>2. ~Attached(conn[s]) /\ child' = child /\ conn[s].replstate = "NONE" /\ q \in Seq(Lines)
    BY <1>0, <1>6, <1>n, ConnTypes DEF SyncForkFails, SyncServed, serverVars
  <2>3. f \in Seq(Lines) /\ r \in Seq(Lines) /\ Len(r) = 1 /\ r[1].t = "ERR"
    BY <1>e, <1>f
  <2>4. /\ Cmd(s).name # "PSYNC" => Len(f) = 0
        /\ Cmd(s).name = "PSYNC" => Len(f) = 1 /\ f[1].t = "FULLRESYNC" /\ f[1].off >= 0
    BY <1>f, <1>o, <2>2
  <2> HIDE DEF f, r, q
  <2>5. /\ ls \in Seq(Lines) /\ Len(ls) = Len(f) + 1 /\ Len(f) \in Nat
        /\ \A i \in 1 .. Len(f) + 1 : ls[i] = IF i <= Len(f) THEN f[i] ELSE r[i - Len(f)]
    <3>1. ls \in Seq(Lines) /\ Len(ls) = Len(f) + Len(r) /\ Len(f) \in Nat
          /\ \A i \in 1 .. Len(f) + Len(r) : ls[i] = IF i <= Len(f) THEN f[i] ELSE r[i - Len(f)]
      BY <2>3, ConcatProperties, LenProperties
    <3> HIDE DEF ls
    <3> QED BY <2>3, <3>1
  <2>6. conn'[s].in = q \o ls
    BY <2>1, <2>2, <2>3, ConcatAssociative
  <2> HIDE DEF ls
  <2>7. /\ Cmd(s).name = "PSYNC" => ls # <<>> /\ (Len(ls) > 1 => ls[2].t # "bulk") /\ ls[1].t = "FULLRESYNC"
        /\ \A i \in 1 .. Len(ls) : ls[i].t = "FULLRESYNC" => Cmd(s).name = "PSYNC" /\ ls[i].off >= 0
    <3>1. CASE Cmd(s).name # "PSYNC"
      BY <2>3, <2>4, <2>5, <3>1
    <3>2. CASE Cmd(s).name = "PSYNC"
      <4> DEFINE l == Len(ls)
                 k == Len(f)
      <4>0. k = 1 /\ l = k + 1 /\ \A i \in 1 .. k + 1 : ls[i] = IF i <= k THEN f[i] ELSE r[i - k]
        BY <2>4, <2>5, <3>2
      <4> HIDE DEF l, k
      <4>1. l = 2 /\ ls[1] = f[1] /\ ls[2] = r[1] /\ \A i \in 1 .. l : i = 1 \/ i = 2
        BY <4>0
      <4>2. ls # <<>> /\ \A i \in 1 .. Len(ls) : i = 1 \/ i = 2
        BY <2>5, <4>1 DEF l
      <4>3. f[1].t = "FULLRESYNC" /\ f[1].off >= 0 /\ r[1].t = "ERR"
        BY <2>3, <2>4, <3>2
      <4>4. ls[2].t # "bulk" /\ ls[1].t = "FULLRESYNC" /\ ls[1].off >= 0 /\ ls[2].t # "FULLRESYNC"
        BY <4>1, <4>3
      <4> QED BY <3>2, <4>2, <4>4
    <3> QED BY <3>1, <3>2
  <2>8. conn'[s].in = conn[s].in \o ls
    BY <2>6 DEF q
  <2>9. Resumes(s)' /\ Pending(s)' /\ Expected(s)'
    BY <1>0, <2>1, <2>2, <2>5, <2>7, <2>8, HopReplied
  <2>10. Given(s)'
    BY <2>1, <2>2 DEF Given, GivenBy
  <2>11. Hop(s)'
    BY <2>9, <2>10 DEF Hop
  <2> QED BY <1>0, <2>1, <2>2, <2>11, HopOwn
<1> QED BY <1>1, <1>2, <1>3, <1>4, <1>5, <1>6 DEF SyncCommand

----------------------------------------------------------------------------
(* The other steps of a master.                                            *)

LEMMA ConcatAppend ==
  ASSUME NEW S, NEW a \in Seq(S), NEW b \in Seq(S), NEW w \in S
  PROVE  a \o Append(b, w) = Append(a \o b, w)
<1> DEFINE bw == Append(b, w)
           x == a \o bw
           ab == a \o b
           y == Append(ab, w)
           n == Len(a)
           l == Len(b)
<1>1. n \in Nat /\ l \in Nat
  OBVIOUS
<1>2. bw \in Seq(S) /\ Len(bw) = l + 1 /\ (\A i \in 1 .. l : bw[i] = b[i]) /\ bw[l + 1] = w
  BY AppendProperties
<1>3. ab \in Seq(S) /\ Len(ab) = n + l /\ \A i \in 1 .. n + l : ab[i] = IF i <= n THEN a[i] ELSE b[i - n]
  BY ConcatProperties
<1> HIDE DEF bw, ab
<1>4. x \in Seq(S) /\ Len(x) = n + Len(bw) /\ \A i \in 1 .. n + Len(bw) : x[i] = IF i <= n THEN a[i] ELSE bw[i - n]
  BY <1>2, ConcatProperties, Zenon
<1>5. y \in Seq(S) /\ Len(y) = Len(ab) + 1 /\ (\A i \in 1 .. Len(ab) : y[i] = ab[i]) /\ y[Len(ab) + 1] = w
  BY <1>3, AppendProperties, ZenonT(40)
<1> HIDE DEF x, y, n, l
<1>6. /\ Len(x) = n + l + 1 /\ \A i \in 1 .. n + l + 1 : x[i] = IF i <= n THEN a[i] ELSE bw[i - n]
      /\ Len(y) = n + l + 1 /\ (\A i \in 1 .. n + l : y[i] = ab[i]) /\ y[n + l + 1] = w
  BY <1>1, <1>2, <1>3, <1>4, <1>5
<1>7. ASSUME NEW i \in 1 .. n + l + 1  PROVE x[i] = y[i]
  <2>1. CASE i <= n
    BY <1>1, <1>3, <1>6, <2>1
  <2>2. CASE i > n /\ i <= n + l
    <3>1. i - n \in 1 .. l /\ i \in 1 .. n + l /\ ~(i <= n)
      BY <1>1, <2>2
    <3> QED BY <1>2, <1>3, <1>6, <3>1
  <2>3. CASE i = n + l + 1
    <3>1. i - n = l + 1 /\ ~(i <= n)
      BY <1>1, <2>3
    <3> QED BY <1>2, <1>6, <2>3, <3>1
  <2> QED BY <1>1, <2>1, <2>2, <2>3
<1>8. x = y
  BY <1>4, <1>5, <1>6, <1>7, SeqEqual
<1> QED BY <1>8 DEF x, y, bw, ab

\* A server without a master, whatever happens to its data set.
LEMMA HopFree ==
  ASSUME Below, setup' = setup, NEW s \in Servers, Hop(s), SameSlave(s), masterhost[s] = None,
         conn'[s].in = conn[s].in, conn'[s].cmds = conn[s].cmds, ~Attached(conn'[s])
  PROVE  Hop(s)'
<1>m. Masters' = Masters /\ setup \in Setups
  BY DEF Masters, Below, Type, ServerTypes
<1>1. repl_state[s] = "NONE" /\ master[s].run = NoRun
  BY DEF Below, Connections, Ctl, Control, Top, Root
<1>2. repl_state'[s] = "NONE" /\ master'[s] = master[s]
  BY <1>1 DEF SameSlave
<1>3. Resumes(s)'
  <2>1. AtBy(data'[s], NoRun, master'[s].off, runid', mro', backlog', data')
    BY <1>m, AtNone
  <2>2. AtBy(data'[s], master'[s].run, master'[s].off, runid', mro', backlog', data')
    BY <1>1, <1>2, <2>1
  <2>3. At(data[s], master[s].run, master[s].off)'
    BY <1>m, <2>2 DEF At, AtBy
  <2> QED BY <1>2, <2>3 DEF Resumes, Reach, ReachBy
<1>4. Pending(s)'
  BY <1>1 DEF Hop, Pending
<1>5. Expected(s)'
  BY <1>2 DEF Hop, Expected
<1>6. Given(s)'
  BY DEF Given, GivenBy, Attached
<1> QED BY <1>3, <1>4, <1>5, <1>6 DEF Hop

LEMMA HopWrite ==
  ASSUME Below, Kept, setup' = setup, \A x \in Servers : Hop(x), NEW m \in Servers, Write(m)
  PROVE  \A x \in Servers : Hop(x)'
<1> DEFINE w == writes'
<1>0. TypeOK /\ setup \in Setups
  BY TypeParts DEF Below, Type, ServerTypes
<1>1. w \in Writes /\ Feeds(conn, m, w)
  BY <1>0, WriteEffect
<1>2. /\ data' = [data EXCEPT ![m] = Append(@, w)] /\ masterhost[m] = None /\ child' = child
      /\ \A x \in Servers : SameSlave(x)
  BY DEF Write, SameSlave, slaveVars
<1>3. data \in [Servers -> Seq(Writes)]
  BY DEF Below, Type, ServerTypes
<1>4. data'[m] = Append(data[m], w) /\ \A x \in Servers \ {m} : data'[x] = data[x]
  BY <1>2, <1>3
<1> HIDE DEF w
<1>5. Hop(m)'
  <2>1. conn[m].to = None /\ ~Attached(conn[m]) /\ None # m
    BY <1>0, <1>2, SetupTypes DEF Below, Connections, Ctl, Control
  <2>2. conn'[m].in = conn[m].in /\ conn'[m].cmds = conn[m].cmds /\ ~Attached(conn'[m])
    BY <1>1, <2>1 DEF Feeds, Attached
  <2> QED BY <1>2, <2>2, HopFree
<1>6. ASSUME NEW x \in Servers \ {m}  PROVE Hop(x)'
  <2> DEFINE c == conn[x]
             e == conn'[x]
             d == data[x]
  <2>1. /\ e.to = c.to /\ e.up = c.up /\ e.cmds = c.cmds /\ e.replstate = c.replstate /\ e.snap = c.snap
        /\ e.obuf = IF c.to = m /\ Fed(c) THEN Append(c.obuf, w) ELSE c.obuf
        /\ e.in = IF c.to = m /\ Online(c) THEN Append(c.in, Unit(w)) ELSE c.in
    BY <1>1 DEF Feeds
  <2>2. Resumes(x)' /\ Pending(x)' /\ Expected(x)'
    <3>1. Hop(x) /\ SameSlave(x) /\ data'[x] = data[x]
      BY <1>2, <1>4
    <3>2. (Online(e) <=> Online(c)) /\ (Attached(e) => Attached(c))
      BY <2>1 DEF Online, Attached
    <3> QED BY <1>1, <2>1, <3>1, <3>2, HopStays
  <2>3. Given(x)
    BY DEF Hop
  <2>4. Given(x)'
    <3>1. CASE c.to # m /\ Attached(c)
      <4>1. c.to \in Servers
        BY <3>1, AttachedTo DEF Below
      <4> QED BY <1>2, <1>4, <2>1, <2>3, <3>1, <4>1 DEF Given, GivenBy
    <3>2. CASE ~Attached(c)
      BY <2>1, <3>2 DEF Given, GivenBy, Attached
    <3>3. CASE c.to = m /\ Attached(c)
      <4>1. /\ c.in \in Seq(Lines) /\ c.obuf \in Seq(Writes) /\ c.snap \in Seq(Writes) /\ Carries(c.in)
            /\ d \in Seq(Writes) /\ data[m] \in Seq(Writes)
        BY <1>0, <1>3, ConnTypes DEF Below, Type
      <4>2. c.replstate = "WAIT_BGSAVE_END" => child[m] \in Seq(Writes)
        <5> SUFFICES ASSUME c.replstate = "WAIT_BGSAVE_END"  PROVE child[m] \in Seq(Writes)
          OBVIOUS
        <5>1. ~OverlapBgsave
          BY DEF Below, OneHop, OverlapBgsave
        <5>2. child[m] # NoChild
          BY <3>3, <5>1 DEF Below, Connections, Ctl, Waits, Waiting
        <5> QED BY <5>2 DEF Below, Type, ServerTypes
      <4>3. CASE c.replstate = "WAIT_BGSAVE_END"
        <5>1. child[m] \o c.obuf = data[m]
          BY <2>3, <3>3, <4>3 DEF Given, GivenBy
        <5>2. e.obuf = Append(c.obuf, w)
          BY <2>1, <3>3, <4>3 DEF Fed
        <5>3. child[m] \o Append(c.obuf, w) = Append(child[m] \o c.obuf, w)
          <6> DEFINE a == child[m]
                     b == c.obuf
          <6>1. a \in Seq(Writes) /\ b \in Seq(Writes)
            BY <4>1, <4>2, <4>3
          <6> HIDE DEF a, b
          <6>2. a \o Append(b, w) = Append(a \o b, w)
            BY <1>1, <6>1, ConcatAppend
          <6> QED BY <6>2 DEF a, b
        <5>4. child[m] \o e.obuf = data'[m]
          BY <1>4, <5>1, <5>2, <5>3
        <5> QED BY <1>2, <2>1, <3>3, <4>3, <5>4 DEF Given, GivenBy
      <4>4. CASE c.replstate = "SEND_BULK"
        <5>1. c.snap \o c.obuf = data[m]
          BY <2>3, <3>3, <4>4 DEF Given, GivenBy
        <5>2. e.obuf = Append(c.obuf, w)
          BY <2>1, <3>3, <4>4 DEF Fed
        <5>3. c.snap \o Append(c.obuf, w) = Append(c.snap \o c.obuf, w)
          <6> DEFINE a == c.snap
                     b == c.obuf
          <6>1. a \in Seq(Writes) /\ b \in Seq(Writes)
            BY <4>1
          <6> HIDE DEF a, b
          <6>2. a \o Append(b, w) = Append(a \o b, w)
            BY <1>1, <6>1, ConcatAppend
          <6> QED BY <6>2 DEF a, b
        <5>4. e.snap \o e.obuf = data'[m]
          BY <1>4, <2>1, <5>1, <5>2, <5>3
        <5> QED BY <2>1, <3>3, <4>4, <5>4 DEF Given, GivenBy
      <4>5. CASE c.replstate = "ONLINE"
        <5>1. PICK k \in Leads(c.in) : Whole(d, c.in, k) = data[m]
          BY <2>3, <3>3, <4>5 DEF Given, GivenBy
        <5>2. e.in = Append(c.in, Unit(w))
          BY <2>1, <3>3, <4>5 DEF Online
        <5>3. k \in Leads(Append(c.in, Unit(w))) /\ Whole(d, Append(c.in, Unit(w)), k) = Append(Whole(d, c.in, k), w)
          BY <1>0, <1>1, <4>1, WholeFeed
        <5>4. k \in Leads(e.in) /\ Whole(data'[x], e.in, k) = data'[m]
          BY <1>4, <5>1, <5>2, <5>3
        <5> QED BY <2>1, <3>3, <4>5, <5>4 DEF Given, GivenBy
      <4>6. CASE c.replstate \notin {"WAIT_BGSAVE_END", "SEND_BULK", "ONLINE"}
        BY <2>1, <4>6 DEF Given, GivenBy
      <4> QED BY <4>3, <4>4, <4>5, <4>6
    <3> QED BY <3>1, <3>2, <3>3
  <2> QED BY <2>2, <2>4 DEF Hop
<1> QED BY <1>5, <1>6

LEMMA HopBgsaveDone ==
  ASSUME Below, Kept, setup' = setup, \A x \in Servers : Hop(x), NEW m \in Servers, NEW ok \in BOOLEAN, BgsaveDone(m, ok)
  PROVE  \A x \in Servers : Hop(x)'
<1> SUFFICES ASSUME NEW x \in Servers  PROVE Hop(x)'
  OBVIOUS
<1> DEFINE c == conn[x]
           e == conn'[x]
<1>0. TypeOK /\ conn \in [Servers -> Conns] /\ c \in Conns /\ child[m] \in Seq(Writes) /\ DOMAIN child = Servers
  BY TypeParts, ConnTypes DEF Below, Type, ServerTypes, BgsaveDone
<1>1. SameSlave(x) /\ data' = data /\ Hop(x)
  BY DEF BgsaveDone, SameSlave, slaveVars
<1>2. BgsaveEnded(m, c, ok, child[m], e)
  <2>1. e = AfterBgsave(m, c, ok, child[m])
    BY DEF BgsaveDone
  <2> QED BY <1>0, <2>1, AfterBgsaveFields
<1>3. \A y \in Servers \ {m} : child'[y] = child[y]
  BY <1>0 DEF BgsaveDone
<1>4. c.replstate \in States /\ c.replstate # "WAIT_BGSAVE_START" /\ (Attached(c) => c.to \in Servers)
  <2>1. ~OverlapBgsave
    BY DEF Below, OneHop, OverlapBgsave
  <2>2. Attached(c) => c.to \in Servers
    BY AttachedTo DEF Below
  <2> QED BY <1>0, <2>1, <2>2, ConnTypes DEF Below, Connections, Ctl, Once
<1>5. CASE c.to # m \/ c.replstate \in {"NONE", "SEND_BULK", "ONLINE"}
  <2>1. e = c
    BY <1>2, <1>5 DEF BgsaveEnded
  <2>2. c.replstate = "WAIT_BGSAVE_END" => child'[c.to] = child[c.to]
    BY <1>3, <1>4, <1>5 DEF Attached
  <2> QED BY <1>1, <2>1, <2>2, HopSame
<1>6. CASE c.to = m /\ c.replstate = "WAIT_BGSAVE_END" /\ ok
  <2>1. /\ e.to = c.to /\ e.cmds = c.cmds /\ e.in = c.in /\ e.replstate = "SEND_BULK" /\ e.up = c.up /\ e.obuf = c.obuf
        /\ e.snap = child[m]
    BY <1>2, <1>6 DEF BgsaveEnded
  <2>2. Attached(c)
    BY <1>6 DEF Attached
  <2>3. Resumes(x)' /\ Pending(x)' /\ Expected(x)'
    BY <1>1, <2>1, <2>2, HopStays
  <2>4. child[m] \o c.obuf = data[m]
    BY <1>1, <1>6 DEF Hop, Given, GivenBy
  <2>5. Given(x)'
    BY <1>1, <1>6, <2>1, <2>4 DEF Given, GivenBy
  <2> QED BY <2>3, <2>5 DEF Hop
<1>7. CASE c.to = m /\ c.replstate = "WAIT_BGSAVE_END" /\ ~ok
  <2>1. e.cmds = c.cmds /\ e.in = c.in /\ e.replstate = "NONE" /\ ~e.up
    BY <1>2, <1>7 DEF BgsaveEnded
  <2> QED BY <1>1, <2>1, HopClosed
<1> QED BY <1>4, <1>5, <1>6, <1>7 DEF States

\* p is q, one element of b, and us.
IsBetween(S, p, q, b, us) ==
  LET k == Len(q) + 1
  IN  /\ p \in Seq(S) /\ Len(p) = k + Len(us)
      /\ \A i \in 1 .. Len(q) : p[i] = q[i]
      /\ p[k] = b[1]
      /\ \A i \in 1 .. Len(us) : p[k + i] = us[i]

LEMMA BetweenAll ==
  ASSUME NEW S, NEW q \in Seq(S), NEW b \in Seq(S), Len(b) = 1, NEW us \in Seq(S)
  PROVE  IsBetween(S, (q \o b) \o us, q, b, us)
<1> DEFINE qb == q \o b
           p == qb \o us
           n == Len(q)
           l == Len(us)
           k == n + 1
<1>1. n \in Nat /\ l \in Nat
  OBVIOUS
<1>2. qb \in Seq(S) /\ Len(qb) = Len(q) + Len(b)
      /\ \A i \in 1 .. Len(q) + Len(b) : qb[i] = IF i <= Len(q) THEN q[i] ELSE b[i - Len(q)]
  BY ConcatProperties
<1> HIDE DEF qb
<1>3. /\ p \in Seq(S) /\ Len(p) = Len(qb) + Len(us)
      /\ \A i \in 1 .. Len(qb) + Len(us) : p[i] = IF i <= Len(qb) THEN qb[i] ELSE us[i - Len(qb)]
  <2>1. qb \in Seq(S) /\ us \in Seq(S)
    BY <1>2
  <2> QED BY <2>1, ConcatProperties, Zenon
<1> HIDE DEF p
<1>4. /\ Len(qb) = n + 1
      /\ \A i \in 1 .. n + 1 : qb[i] = IF i <= n THEN q[i] ELSE b[i - n]
  BY <1>1, <1>2
<1>5. /\ Len(p) = n + 1 + l
      /\ \A i \in 1 .. n + 1 + l : p[i] = IF i <= n + 1 THEN qb[i] ELSE us[i - (n + 1)]
  BY <1>1, <1>3, <1>4
<1> HIDE DEF n, l
<1>6. ASSUME NEW i \in 1 .. n  PROVE p[i] = q[i]
  <2>1. i \in 1 .. n + 1 + l /\ i <= n + 1 /\ i \in 1 .. n + 1 /\ i <= n
    BY <1>1
  <2> QED BY <1>4, <1>5, <2>1
<1>7. p[k] = b[1]
  <2>1. n + 1 \in 1 .. n + 1 + l /\ n + 1 <= n + 1 /\ n + 1 \in 1 .. n + 1 /\ ~(n + 1 <= n) /\ n + 1 - n = 1
    BY <1>1
  <2>2. p[n + 1] = qb[n + 1]
    BY <1>1, <1>5, <2>1
  <2>3. qb[n + 1] = b[n + 1 - n]
    BY <1>1, <1>4, <2>1
  <2> QED BY <2>1, <2>2, <2>3
<1>8. ASSUME NEW i \in 1 .. l  PROVE p[k + i] = us[i]
  <2>1. n + 1 + i \in 1 .. n + 1 + l /\ ~(n + 1 + i <= n + 1) /\ n + 1 + i - (n + 1) = i
    BY <1>1
  <2>2. p[n + 1 + i] = us[n + 1 + i - (n + 1)]
    BY <1>1, <1>5, <2>1
  <2> QED BY <2>1, <2>2
<1>9. IsBetween(S, p, q, b, us)
  BY <1>3, <1>5, <1>6, <1>7, <1>8 DEF n, l, IsBetween
<1> QED BY <1>9 DEF p, qb

\* The bulk and the differences are sent: they are the data set.
LEMMA HopSendBulk ==
  ASSUME Below, Kept, setup' = setup, \A x \in Servers : Hop(x), NEW m \in Servers, NEW s \in Servers, SendBulk(m, s)
  PROVE  \A x \in Servers : Hop(x)'
<1> DEFINE c == conn[s]
           e == conn'[s]
           q == c.in
           p == e.in
           ob == c.obuf
           sn == c.snap
           b == <<Bulk(sn)>>
           us == [i \in DOMAIN ob |-> Unit(ob[i])]
           k == Len(q) + 1
           d == data[s]
<1>m. Masters' = Masters
  BY DEF Masters
<1>0. TypeOK /\ setup \in Setups /\ c.to = m /\ c.replstate = "SEND_BULK" /\ data' = data /\ child' = child
      /\ SameSlave(s) /\ Attached(c) /\ Hop(s)
  BY TypeParts DEF Below, Type, ServerTypes, SendBulk, serverVars, slaveVars, SameSlave, Attached
<1>1. /\ OnlyConn(s) /\ e.to = c.to /\ e.up = c.up /\ e.cmds = c.cmds /\ p = q \o b \o us /\ e.replstate = "ONLINE"
      /\ us \in Seq(Lines) /\ Len(us) = Len(ob)
  BY <1>0, SendBulkEffect
<1>2. q \in Seq(Lines) /\ ob \in Seq(Writes) /\ sn \in Seq(Writes) /\ Len(q) \in Nat /\ Len(ob) \in Nat
  BY <1>0, ConnTypes
<1>3. b \in Seq(Lines) /\ Len(b) = 1 /\ b[1].t = "bulk" /\ b[1].data = sn
  <2>1. Bulk(sn) \in Lines /\ Bulk(sn).t = "bulk" /\ Bulk(sn).data = sn
    BY <1>0, <1>2, LineTypes
  <2> QED BY <2>1
<1>4. \A i \in 1 .. Len(ob) : us[i].t = "unit" /\ us[i].off = ob[i]
  <2>1. \A i \in 1 .. Len(ob) : us[i] = Unit(ob[i]) /\ ob[i] \in Writes
    BY <1>2, ElementOfSeq
  <2>2. \A w \in Writes : Unit(w).t = "unit" /\ Unit(w).off = w
    BY <1>0, LineTypes
  <2> HIDE DEF us, ob
  <2> QED BY <2>1, <2>2
<1> HIDE DEF b, us
<1>5. /\ p \in Seq(Lines) /\ Len(p) = k + Len(ob)
      /\ \A i \in 1 .. Len(q) : p[i] = q[i]
      /\ p[k] = b[1]
      /\ \A i \in 1 .. Len(ob) : p[k + i] = us[i]
  <2> DEFINE u == Len(us)
  <2>1. us \in Seq(Lines) /\ u = Len(ob) /\ p = (q \o b) \o us
    BY <1>1
  <2>2. q \in Seq(Lines)
    BY <1>2
  <2> HIDE DEF p, q, ob
  <2>b. b \in Seq(Lines) /\ Len(b) = 1
    BY <1>3
  <2>3. IsBetween(Lines, (q \o b) \o us, q, b, us)
    BY <2>1, <2>2, <2>b, BetweenAll
  <2>4. IsBetween(Lines, p, q, b, us)
    BY <2>1, <2>3
  <2> QED BY <2>1, <2>4 DEF IsBetween
<1> DEFINE n == Len(q)
           l == Len(ob)
<1>6. /\ n \in Nat /\ l \in Nat /\ k = n + 1 /\ Len(p) = k + l
      /\ \A i \in 1 .. n : p[i] = q[i]
      /\ p[k].t = "bulk" /\ p[k].data = sn /\ \A i \in 1 .. l : p[k + i].t = "unit" /\ p[k + i].off = ob[i]
  <2>1. n \in Nat /\ l \in Nat /\ k = n + 1
    BY <1>2
  <2> HIDE DEF p, q, ob, sn, k
  <2>2. Len(p) = k + l /\ \A i \in 1 .. n : p[i] = q[i]
    BY <1>5
  <2>3. p[k].t = "bulk" /\ p[k].data = sn
    BY <1>3, <1>5
  <2>4. \A i \in 1 .. l : p[k + i].t = "unit" /\ p[k + i].off = ob[i]
    BY <1>4, <1>5
  <2> QED BY <2>1, <2>2, <2>3, <2>4
<1>7. Expected(s)'
  <2> HIDE DEF p, q, ob, sn, k
  <2>x. /\ ~master[s].pre
        /\ \A i \in 1 .. Len(q) : q[i].t = "FULLRESYNC" => q[i].off >= 0
        /\ repl_state[s] = "PSYNC" /\ q # <<>> => q[1].t \in {"FULLRESYNC", "CONTINUE"}
        /\ repl_state[s] = "TRANSFER" /\ full[s].off = -1 =>
             /\ q # <<>>
             /\ q[1].t \in {"FULLRESYNC", "CONTINUE"}
    BY <1>0 DEF Hop, Expected, q
  <2>0. repl_state[s] = "PSYNC" => q # <<>>
    <3>1. ~OverlapBgsave
      BY DEF Below, OneHop, OverlapBgsave
    <3> QED BY <1>0, <3>1 DEF Below, Offsets, Placed, Asked, q
  <2>1. ASSUME NEW i \in 1 .. Len(p), p[i].t = "FULLRESYNC"  PROVE p[i].off >= 0
    <3>1. i \in 1 .. n \/ i = k \/ i - k \in 1 .. l
      <4> HIDE DEF n, l
      <4> QED BY <1>6
    <3>2. i # k
      BY <1>6, <2>1
    <3>3. i - k \notin 1 .. l
      <4>1. k + (i - k) = i
        BY <1>6
      <4> QED BY <1>6, <2>1, <4>1
    <3> QED BY <1>6, <2>1, <2>x, <3>1, <3>2, <3>3
  <2>2. q # <<>> => p[1] = q[1]
    <3>1. q # <<>> => 1 \in 1 .. n
      BY <1>2
    <3> QED BY <1>6, <3>1
  <2>3. p # <<>>
    <3>1. 1 \in 1 .. Len(p)
      <4> HIDE DEF n, l
      <4> QED BY <1>6
    <3> QED BY <3>1
  <2>4. /\ repl_state'[s] = repl_state[s] /\ master'[s] = master[s] /\ full'[s] = full[s]
    BY <1>0 DEF SameSlave
  <2>5. /\ ~master'[s].pre
        /\ \A i \in 1 .. Len(p) : p[i].t = "FULLRESYNC" => p[i].off >= 0
        /\ repl_state'[s] = "PSYNC" /\ p # <<>> => p[1].t \in {"FULLRESYNC", "CONTINUE"}
        /\ repl_state'[s] = "TRANSFER" /\ full'[s].off = -1 =>
             /\ p # <<>>
             /\ p[1].t \in {"FULLRESYNC", "CONTINUE"}
    BY <2>x, <2>0, <2>1, <2>2, <2>3, <2>4
  <2> QED BY <2>5 DEF Expected, p
<1>8. Pending(s)'
  <2>1. \A i \in 1 .. Len(c.cmds) : c.cmds[i].name # "PSYNC"
    BY <1>0 DEF Hop, Pending
  <2> QED BY <1>1, <2>1 DEF Pending
<1>9. Resumes(s)'
  <2>1. AtBy(data[s], master[s].run, master[s].off, runid', mro', backlog', data')
    BY <1>0, AtStays
  <2>2. AtBy(data'[s], master'[s].run, master'[s].off, runid', mro', backlog', data')
    BY <1>0, <2>1 DEF SameSlave
  <2>3. At(data[s], master[s].run, master[s].off)'
    BY <1>m, <2>2 DEF At, AtBy
  <2>4. Online(conn'[s])
    BY <1>1 DEF Online
  <2> QED BY <2>3, <2>4 DEF Resumes
<1>10. Given(s)'
  <2> HIDE DEF p, q, ob, sn, k
  <2>1. sn \o ob = data[m]
    BY <1>0 DEF Hop, Given, GivenBy, sn, ob
  <2>2. k \in Leads(p)
    <3>1. ASSUME NEW i \in k + 1 .. Len(p)  PROVE p[i].t = "unit"
      <4>1. i - k \in 1 .. l /\ k + (i - k) = i
        <5> HIDE DEF n, l
        <5> QED BY <1>6
      <4> QED BY <1>6, <4>1
    <3>2. k \in 0 .. Len(p)
      <4> HIDE DEF n, l
      <4> QED BY <1>6
    <3> QED BY <1>6, <3>1, <3>2 DEF Leads
  <2>3. Offs(p, k) = ob
    <3>1. Len(p) - k = l
      <4> HIDE DEF n, l
      <4> QED BY <1>6
    <3>2. Offs(p, k) = [i \in 1 .. l |-> ob[i]]
      BY <1>6, <3>1 DEF Offs
    <3> QED BY <1>2, <3>2
  <2>4. Whole(d, p, k) = sn \o ob
    <3>1. k > 0
      <4> HIDE DEF n, l
      <4> QED BY <1>6
    <3> QED BY <1>6, <2>3, <3>1 DEF Whole
  <2>5. k \in Leads(e.in) /\ Whole(data'[s], e.in, k) = data'[e.to]
    BY <1>0, <1>1, <2>1, <2>2, <2>4 DEF p
  <2> QED BY <1>1, <2>5 DEF Given, GivenBy
<1>11. Hop(s)'
  BY <1>7, <1>8, <1>9, <1>10 DEF Hop
<1>12. \A x \in Servers \ {s} : SameSlave(x) /\ data'[x] = data[x]
  BY <1>0 DEF SendBulk, slaveVars, SameSlave
<1> QED BY <1>0, <1>1, <1>11, <1>12, HopOwn

LEMMA HopMaster ==
  ASSUME Below, Kept, setup' = setup, \A x \in Servers : Hop(x), NEW m \in Servers,
         \/ Write(m) \/ Bgsave(m) \/ FreeBacklog(m) \/ \E ok \in BOOLEAN : BgsaveDone(m, ok)
         \/ \E s \in Servers : SendBulk(m, s) \/ DropSlave(m, s)
  PROVE  \A x \in Servers : Hop(x)'
<1>1. CASE Write(m)
  BY <1>1, HopWrite
<1>2. CASE Bgsave(m)
  BY <1>2 DEF Bgsave, Below, OneHop, OverlapBgsave
<1>3. CASE FreeBacklog(m)
  <2>1. ASSUME NEW x \in Servers  PROVE Hop(x)'
    <3>1. SameSlave(x) /\ data' = data /\ conn' = conn /\ child' = child /\ Hop(x)
      BY <1>3 DEF FreeBacklog, SameSlave, slaveVars
    <3> QED BY <3>1, HopSame
  <2> QED BY <2>1
<1>4. CASE \E ok \in BOOLEAN : BgsaveDone(m, ok)
  BY <1>4, HopBgsaveDone
<1>5. ASSUME NEW s \in Servers, SendBulk(m, s)  PROVE \A x \in Servers : Hop(x)'
  BY <1>5, HopSendBulk
<1>6. ASSUME NEW s \in Servers, DropSlave(m, s)  PROVE \A x \in Servers : Hop(x)'
  <2>1. TypeOK
    BY TypeParts DEF Below
  <2>2. OnlyConn(s) /\ Closed(conn[s], conn'[s])
    BY <1>6, <2>1, DropEffect
  <2>3. data' = data /\ child' = child /\ \A x \in Servers : SameSlave(x)
    BY <1>6 DEF DropSlave, serverVars, slaveVars, SameSlave
  <2>4. Hop(s)'
    BY <2>2, <2>3, HopClosed DEF Closed
  <2> QED BY <2>2, <2>3, <2>4, HopOwn
<1> QED BY <1>1, <1>2, <1>3, <1>4, <1>5, <1>6

----------------------------------------------------------------------------
(* The steps of a slave.                                                   *)

LEMMA TailLines ==
  ASSUME NEW q \in Seq(Lines), q # <<>>
  PROVE  /\ Tail(q) \in Seq(Lines) /\ Len(q) \in Nat /\ Len(q) >= 1 /\ Len(Tail(q)) = Len(q) - 1 /\ Head(q) = q[1]
         /\ Len(q) > 1 => Tail(q)[1] = q[2]
         /\ Tail(q) # <<>> => Len(q) > 1
         /\ (\A i \in 1 .. Len(q) : q[i].t = "FULLRESYNC" => q[i].off >= 0) =>
              \A i \in 1 .. Len(Tail(q)) : Tail(q)[i].t = "FULLRESYNC" => Tail(q)[i].off >= 0
         /\ (\A i \in 1 .. Len(q) : q[i].t = "unit") => \A i \in 1 .. Len(Tail(q)) : Tail(q)[i].t = "unit"
<1> DEFINE p == Tail(q)
<1>1. p \in Seq(Lines) /\ Len(q) \in Nat /\ Len(q) >= 1 /\ Len(p) = Len(q) - 1 /\ Head(q) = q[1]
  OBVIOUS
<1>2. \A i \in 1 .. Len(p) : i + 1 \in 1 .. Len(q) /\ p[i] = q[i + 1]
  OBVIOUS
<1> HIDE DEF p
<1>3. Len(q) > 1 => p[1] = q[2]
  <2> SUFFICES ASSUME Len(q) > 1  PROVE p[1] = q[2]
    OBVIOUS
  <2>1. 1 \in 1 .. Len(p) /\ 1 + 1 = 2
    BY <1>1
  <2> QED BY <1>2, <2>1
<1>4. p # <<>> => Len(q) > 1
  <2>1. p # <<>> => Len(p) > 0
    BY <1>1
  <2> QED BY <1>1, <2>1
<1>5. (\A i \in 1 .. Len(q) : q[i].t = "FULLRESYNC" => q[i].off >= 0) =>
        \A i \in 1 .. Len(p) : p[i].t = "FULLRESYNC" => p[i].off >= 0
  BY <1>2
<1>6. (\A i \in 1 .. Len(q) : q[i].t = "unit") => \A i \in 1 .. Len(p) : p[i].t = "unit"
  BY <1>2
<1> QED BY <1>1, <1>3, <1>4, <1>5, <1>6 DEF p

\* Reading an answer leaves the property as it is.
LEMMA GivenTail ==
  ASSUME Below, setup' = setup, NEW s \in Servers, Hop(s), conn[s].in # <<>>, conn[s].in[1].t \notin {"unit", "bulk"},
         data' = data, child' = child, conn'[s].to = conn[s].to, conn'[s].in = Tail(conn[s].in),
         conn'[s].replstate = conn[s].replstate, conn'[s].obuf = conn[s].obuf, conn'[s].snap = conn[s].snap
  PROVE  Given(s)'
<1> DEFINE c == conn[s]
           q == c.in
           p == Tail(q)
           d == data[s]
<1>0. q \in Seq(Lines) /\ q # <<>> /\ Given(s)
  BY UnitsFollow DEF Hop
<1>1. CASE c.replstate # "ONLINE"
  BY <1>0, <1>1 DEF Given, GivenBy
<1>2. CASE c.replstate = "ONLINE"
  <2>1. PICK k \in Leads(q) : Whole(d, q, k) = data[c.to]
    BY <1>0, <1>2 DEF Given, GivenBy
  <2>2. Len(q) \in Nat /\ Len(q) >= 1
    BY <1>0, TailLines
  <2> HIDE DEF q
  <2>3. k \in 0 .. Len(q) /\ k > 0
    <3>1. k \in 0 .. Len(q)
      BY DEF Leads
    <3>2. k # 0
      <4> SUFFICES ASSUME k = 0  PROVE FALSE
        OBVIOUS
      <4>1. 1 \in k + 1 .. Len(q)
        BY <2>2
      <4>2. q[1].t = "unit"
        BY <4>1 DEF Leads
      <4> QED BY <4>2 DEF q
    <3> QED BY <2>2, <3>1, <3>2
  <2>4. k - 1 \in Leads(p)
    BY <1>0, <2>3, LeadsTail
  <2>5. Whole(IF k = 1 /\ q[1].t = "bulk" THEN q[1].data ELSE d, p, k - 1) = Whole(d, q, k)
    <3>1. k \in 1 .. Len(q)
      BY <2>2, <2>3
    <3> QED BY <1>0, <3>1, WholeTail
  <2>6. Whole(d, p, k - 1) = Whole(d, q, k)
    BY <2>5 DEF q
  <2>7. k - 1 \in Leads(conn'[s].in) /\ Whole(data'[s], conn'[s].in, k - 1) = data'[conn'[s].to]
    BY <2>1, <2>4, <2>6 DEF q
  <2> QED BY <1>2, <2>7 DEF Given, GivenBy
<1> QED BY <1>1, <1>2

\* A position before a step is one after it.
LEMMA AtAfter ==
  ASSUME Below, Kept, NEW d \in Seq(Writes), NEW r \in Runs, NEW o \in Int, At(d, r, o)
  PROVE  AtBy(d, r, o, runid', mro', backlog', data')
BY DEF Kept

LEMMA HopReplyFull ==
  ASSUME Below, Kept, setup' = setup, NEW s \in Servers, Hop(s), ReplyFull(s)
  PROVE  Hop(s)'
<1> DEFINE c == conn[s]
           e == conn'[s]
           q == c.in
           p == e.in
           d == data[s]
<1>m. Masters' = Masters /\ setup \in Setups /\ TypeOK
  BY TypeParts DEF Masters, Below, Type, ServerTypes
<1>0. q \in Seq(Lines) /\ q # <<>> /\ q[1].t = "FULLRESYNC" /\ repl_state[s] = "PSYNC" /\ data' = data /\ child' = child
  <2>1. q \in Seq(Lines) /\ q # <<>> /\ Head(q).t = "FULLRESYNC"
    BY UnitsFollow DEF ReplyFull
  <2> QED BY <2>1, TailLines DEF ReplyFull, Blocked, serverVars
<1>1. e.to = c.to /\ e.up = c.up /\ e.cmds = c.cmds /\ p = Tail(q) /\ e.replstate = c.replstate /\ e.obuf = c.obuf /\ e.snap = c.snap
  BY <1>m, <1>0, TailEffect DEF ReplyFull
<1>2. repl_state'[s] = "TRANSFER" /\ master'[s] = NoMaster /\ full'[s].run = q[1].run /\ full'[s].off = q[1].off
  <2>1. Head(q) = q[1]
    BY <1>0, TailLines
  <2> QED BY <2>1 DEF ReplyFull, Below, Type, SlaveTypes
<1>3. (\A i \in 1 .. Len(q) : q[i].t = "FULLRESYNC" => q[i].off >= 0) /\ q[1].off >= 0 /\ q[1].off \in Int
  <2>1. \A i \in 1 .. Len(q) : q[i].t = "FULLRESYNC" => q[i].off >= 0
    BY DEF Hop, Expected
  <2>2. 1 \in 1 .. Len(q) /\ q[1] \in Lines
    BY <1>0, TailLines
  <2> QED BY <1>0, <2>1, <2>2 DEF Lines
<1>4. c.cmds = <<>>
  <2>1. ~OverlapBgsave
    BY DEF Below, OneHop, OverlapBgsave
  <2> QED BY <1>0, <2>1 DEF Below, Offsets, Placed, Asked, AfterFull
<1>5. Resumes(s)'
  <2>1. At(data[s], master[s].run, master[s].off)'
    <3>1. AtBy(data'[s], NoRun, master'[s].off, runid', mro', backlog', data')
      BY <1>m, AtNone
    <3>2. AtBy(data'[s], master'[s].run, master'[s].off, runid', mro', backlog', data')
      BY <1>2, <3>1 DEF NoMaster
    <3> QED BY <1>m, <3>2 DEF At, AtBy
  <2>2. ReachBy(data'[s], conn'[s].in, repl_state'[s], master'[s], full'[s], runid', mro', backlog', data')
    <3> SUFFICES ASSUME p # <<>>, p[1].t = "bulk"
                 PROVE  AtBy(Whole(data'[s], p, 1), full'[s].run, full'[s].off + Len(p) - 1, runid', mro', backlog', data')
      BY <1>2 DEF ReachBy
    <3>1. Len(q) > 1 /\ q[2].t = "bulk" /\ Len(p) = Len(q) - 1 /\ Len(q) \in Nat
      BY <1>0, <1>1, TailLines
    <3>2. ReachBy(d, q, repl_state[s], master[s], full[s], runid', mro', backlog', data')
      BY Stands, ReachKept
    <3>3. AtBy(Whole(d, q, 2), q[1].run, q[1].off + Len(q) - 2, runid', mro', backlog', data')
      BY <1>0, <3>1, <3>2 DEF ReachBy
    <3>4. Whole(d, p, 1) = Whole(d, q, 2)
      <4>1. 2 \in 1 .. Len(q)
        BY <3>1
      <4>2. Whole(IF 2 = 1 /\ q[1].t = "bulk" THEN q[1].data ELSE d, Tail(q), 2 - 1) = Whole(d, q, 2)
        BY <1>0, <4>1, WholeTail
      <4> QED BY <1>1, <4>2
    <3>5. full'[s].off + Len(p) - 1 = q[1].off + Len(q) - 2
      BY <1>2, <1>3, <3>1
    <3> QED BY <1>0, <1>2, <3>3, <3>4, <3>5
  <2> QED BY <1>m, <2>1, <2>2 DEF Resumes, Reach, ReachBy, AtBy
<1>6. Pending(s)'
  BY <1>1, <1>4 DEF Pending
<1>7. Expected(s)'
  <2>1. \A i \in 1 .. Len(p) : p[i].t = "FULLRESYNC" => p[i].off >= 0
    BY <1>0, <1>1, <1>3, TailLines
  <2>2. full'[s].off # -1
    BY <1>2, <1>3
  <2> QED BY <1>2, <2>1, <2>2 DEF Expected, NoMaster
<1>8. Given(s)'
  BY <1>0, <1>1, GivenTail
<1> QED BY <1>5, <1>6, <1>7, <1>8 DEF Hop

LEMMA HopReplyContinue ==
  ASSUME Below, Kept, setup' = setup, NEW s \in Servers, Hop(s), ReplyContinue(s)
  PROVE  Hop(s)'
<1> DEFINE c == conn[s]
           e == conn'[s]
           q == c.in
           p == e.in
           d == data[s]
<1>m. Masters' = Masters /\ setup \in Setups /\ TypeOK
  BY TypeParts DEF Masters, Below, Type, ServerTypes
<1>0. q \in Seq(Lines) /\ q # <<>> /\ q[1].t = "CONTINUE" /\ repl_state[s] = "PSYNC" /\ data' = data /\ child' = child
  <2>1. q \in Seq(Lines) /\ q # <<>> /\ Head(q).t = "CONTINUE"
    BY UnitsFollow DEF ReplyContinue
  <2> QED BY <2>1, TailLines DEF ReplyContinue, Blocked, serverVars
<1>1. e.to = c.to /\ e.up = c.up /\ e.cmds = c.cmds /\ p = Tail(q) /\ e.replstate = c.replstate /\ e.obuf = c.obuf /\ e.snap = c.snap
  BY <1>m, <1>0, TailEffect DEF ReplyContinue
<1>2. repl_state'[s] = "CONNECTED" /\ master'[s] = master[s] /\ master[s].off \in Int
  BY DEF ReplyContinue, Below, Type, SlaveTypes, Positions
<1>5. Resumes(s)'
  <2>2. ReachBy(data'[s], conn'[s].in, repl_state'[s], master'[s], full'[s], runid', mro', backlog', data')
    <3>1. Len(p) = Len(q) - 1 /\ Len(q) \in Nat /\ Len(q) >= 1
      BY <1>0, <1>1, TailLines
    <3>2. ReachBy(d, q, repl_state[s], master[s], full[s], runid', mro', backlog', data')
      BY Stands, ReachKept
    <3>3. AtBy(Whole(d, q, 1), master[s].run, master[s].off + Len(q) - 1, runid', mro', backlog', data')
      BY <1>0, <3>2 DEF ReachBy
    <3>4. Whole(d, p, 0) = Whole(d, q, 1)
      <4>1. 1 \in 1 .. Len(q)
        BY <3>1
      <4>2. Whole(IF 1 = 1 /\ q[1].t = "bulk" THEN q[1].data ELSE d, Tail(q), 1 - 1) = Whole(d, q, 1)
        BY <1>0, <4>1, WholeTail
      <4> QED BY <1>0, <1>1, <4>2
    <3>5. master'[s].off + Len(p) = master[s].off + Len(q) - 1
      BY <1>2, <3>1
    <3>6. AtBy(Whole(data'[s], p, 0), master'[s].run, master'[s].off + Len(p), runid', mro', backlog', data')
      BY <1>0, <1>2, <3>3, <3>4, <3>5
    <3> QED BY <1>2, <3>6 DEF ReachBy
  <2> QED BY <1>m, <1>2, <2>2 DEF Resumes, Reach, ReachBy, AtBy
<1>6. Pending(s)'
  <2>1. \A i \in 1 .. Len(c.cmds) : c.cmds[i].name # "PSYNC"
    BY <1>0 DEF Hop, Pending
  <2> QED BY <1>1, <2>1 DEF Pending
<1>7. Expected(s)'
  <2>1. \A i \in 1 .. Len(p) : p[i].t = "FULLRESYNC" => p[i].off >= 0
    <3>1. \A i \in 1 .. Len(q) : q[i].t = "FULLRESYNC" => q[i].off >= 0
      BY DEF Hop, Expected
    <3> QED BY <1>0, <1>1, <3>1, TailLines
  <2>2. ~master[s].pre
    BY DEF Hop, Expected
  <2> QED BY <1>2, <2>1, <2>2 DEF Expected
<1>8. Given(s)'
  BY <1>0, <1>1, GivenTail
<1> QED BY <1>5, <1>6, <1>7, <1>8 DEF Hop

LEMMA HopReadBulk ==
  ASSUME Below, Kept, setup' = setup, NEW s \in Servers, Hop(s), ReadBulk(s)
  PROVE  Hop(s)'
<1> DEFINE c == conn[s]
           e == conn'[s]
           q == c.in
           p == e.in
           d == data[s]
<1>m. Masters' = Masters /\ setup \in Setups /\ TypeOK
  BY TypeParts DEF Masters, Below, Type, ServerTypes
<1>0. q \in Seq(Lines) /\ q # <<>> /\ q[1].t = "bulk" /\ repl_state[s] = "TRANSFER" /\ child' = child /\ Head(q) = q[1]
  <2>1. q \in Seq(Lines) /\ q # <<>> /\ Head(q).t = "bulk"
    BY UnitsFollow DEF ReadBulk
  <2> QED BY <2>1, TailLines DEF ReadBulk
<1>1. e.to = c.to /\ e.up = c.up /\ e.cmds = c.cmds /\ p = Tail(q) /\ e.replstate = c.replstate /\ e.obuf = c.obuf /\ e.snap = c.snap
  BY <1>m, <1>0, TailEffect DEF ReadBulk
<1>2. /\ data'[s] = q[1].data /\ \A x \in Servers \ {s} : data'[x] = data[x]
  BY <1>0 DEF ReadBulk, Below, Type, ServerTypes
<1>3. full[s].off # -1 /\ full[s].off \in Int
  BY <1>0 DEF Hop, Expected, Below, Type, SlaveTypes
<1>4. repl_state'[s] = "CONNECTED" /\ master'[s].run = full[s].run /\ master'[s].off = full[s].off /\ ~master'[s].pre
  BY <1>3 DEF ReadBulk, Below, Type, SlaveTypes
<1>w. Len(p) = Len(q) - 1 /\ Len(q) \in Nat /\ Len(q) >= 1 /\ Whole(data'[s], p, 0) = Whole(d, q, 1)
  <2>1. Len(p) = Len(q) - 1 /\ Len(q) \in Nat /\ Len(q) >= 1
    BY <1>0, <1>1, TailLines
  <2>2. 1 \in 1 .. Len(q)
    BY <2>1
  <2>3. Whole(IF 1 = 1 /\ q[1].t = "bulk" THEN q[1].data ELSE d, Tail(q), 1 - 1) = Whole(d, q, 1)
    BY <1>0, <2>2, WholeTail
  <2> QED BY <1>0, <1>1, <1>2, <2>1, <2>3
<1>5. Resumes(s)'
  <2>2. ReachBy(data'[s], conn'[s].in, repl_state'[s], master'[s], full'[s], runid', mro', backlog', data')
    <3>2. ReachBy(d, q, repl_state[s], master[s], full[s], runid', mro', backlog', data')
      BY Stands, ReachKept
    <3>3. AtBy(Whole(d, q, 1), full[s].run, full[s].off + Len(q) - 1, runid', mro', backlog', data')
      BY <1>0, <1>3, <3>2 DEF ReachBy
    <3>5. master'[s].off + Len(p) = full[s].off + Len(q) - 1
      BY <1>3, <1>4, <1>w
    <3>6. AtBy(Whole(data'[s], p, 0), master'[s].run, master'[s].off + Len(p), runid', mro', backlog', data')
      BY <1>w, <1>4, <3>3, <3>5
    <3> QED BY <1>4, <3>6 DEF ReachBy
  <2> QED BY <1>m, <1>4, <2>2 DEF Resumes, Reach, ReachBy, AtBy
<1>6. Pending(s)'
  <2>1. \A i \in 1 .. Len(c.cmds) : c.cmds[i].name # "PSYNC"
    BY <1>0 DEF Hop, Pending
  <2> QED BY <1>1, <2>1 DEF Pending
<1>7. Expected(s)'
  <2>1. \A i \in 1 .. Len(p) : p[i].t = "FULLRESYNC" => p[i].off >= 0
    <3>1. \A i \in 1 .. Len(q) : q[i].t = "FULLRESYNC" => q[i].off >= 0
      BY DEF Hop, Expected
    <3> QED BY <1>0, <1>1, <3>1, TailLines
  <2> QED BY <1>4, <2>1 DEF Expected
<1>8. Given(s)'
  <2>1. Attached(c) => c.to \in Servers \ {s}
    <3> SUFFICES ASSUME Attached(c)  PROVE c.to \in Servers \ {s}
      OBVIOUS
    <3>1. c.to \in Servers /\ c.to # None
      BY <1>m, AttachedTo, SetupTypes DEF Below
    <3>2. c.to \in Masters /\ s \notin Masters
      BY <3>1, MasterOf DEF Below
    <3> QED BY <3>1, <3>2
  <2>2. CASE c.replstate # "ONLINE"
    BY <1>0, <1>1, <1>2, <2>1, <2>2 DEF Hop, Given, GivenBy, Attached
  <2>3. CASE c.replstate = "ONLINE"
    <3>1. PICK k \in Leads(q) : Whole(d, q, k) = data[c.to]
      BY <2>3 DEF Hop, Given, GivenBy
    <3>2. 1 \in Leads(q)
      <4>1. \A i \in 1 + 1 .. Len(q) : q[i].t = "unit"
        BY <1>0, UnitsFollow
      <4>2. 1 \in 0 .. Len(q)
        BY <1>w
      <4> QED BY <1>0, <4>1, <4>2 DEF Leads
    <3>3. k = 1
      BY <1>w, <3>2, LeadsOne
    <3>4. 0 \in Leads(p)
      <4>1. (k > 0 => k - 1 \in Leads(Tail(q)))
        BY <1>0, LeadsTail
      <4> QED BY <1>1, <3>3, <4>1
    <3>5. data'[e.to] = data[c.to]
      BY <1>1, <1>2, <2>1, <2>3 DEF Attached
    <3>6. 0 \in Leads(e.in) /\ Whole(data'[s], e.in, 0) = data'[e.to]
      BY <1>w, <3>1, <3>3, <3>4, <3>5
    <3> QED BY <1>1, <2>3, <3>6 DEF Given, GivenBy
  <2> QED BY <2>2, <2>3
<1> QED BY <1>5, <1>6, <1>7, <1>8 DEF Hop

LEMMA HopReadUnit ==
  ASSUME Below, Kept, setup' = setup, \A x \in Servers : Hop(x), NEW s \in Servers, ReadUnit(s)
  PROVE  \A x \in Servers : Hop(x)'
<1> DEFINE w == Head(conn[s].in).off
           cn == [conn EXCEPT ![s].in = Tail(@)]
           c == conn[s]
           e == conn'[s]
           q == c.in
           p == e.in
           d == data[s]
<1>m. Masters' = Masters /\ setup \in Setups /\ TypeOK
  BY TypeParts DEF Masters, Below, Type, ServerTypes
<1>0. /\ q \in Seq(Lines) /\ q # <<>> /\ repl_state[s] = "CONNECTED" /\ child' = child /\ Head(q) = q[1] /\ Carries(q)
      /\ \A i \in 1 .. Len(q) : q[i].t = "unit"
  <2>1. repl_state[s] = "CONNECTED" /\ child' = child /\ q # <<>>
    BY DEF ReadUnit
  <2> QED BY <2>1, UnitsFollow, TailLines
<1>1. w \in Writes
  BY NextUnit DEF Below
<1>s. s \notin Masters /\ \A x \in Servers : conn[x].to # s
  <2>1. c.to # None
    BY <1>0 DEF Below, Connections, Ctl, Control
  <2> QED BY <2>1, MasterOf, NobodysMaster DEF Below
<1>2. \A x \in Servers : /\ conn'[x].to = conn[x].to /\ conn'[x].up = conn[x].up /\ conn'[x].cmds = conn[x].cmds
                         /\ conn'[x].replstate = conn[x].replstate /\ conn'[x].obuf = conn[x].obuf
                         /\ conn'[x].snap = conn[x].snap
                         /\ conn'[x].in = IF x = s THEN Tail(conn[s].in) ELSE conn[x].in
  <2>1. /\ Feeds(cn, s, w)
        /\ \A x \in Servers :
             /\ cn[x].to = conn[x].to /\ cn[x].up = conn[x].up /\ cn[x].cmds = conn[x].cmds
             /\ cn[x].replstate = conn[x].replstate /\ cn[x].obuf = conn[x].obuf /\ cn[x].snap = conn[x].snap
             /\ cn[x].in = IF x = s THEN Tail(conn[s].in) ELSE conn[x].in
    BY <1>m, <1>1, ReadUnitEffect
  <2> HIDE DEF cn, w
  <2> QED BY <1>s, <2>1 DEF Feeds
<1>3. data'[s] = Append(d, w) /\ \A x \in Servers \ {s} : data'[x] = data[x]
  <2>1. data' = [data EXCEPT ![s] = Append(@, w)]
    BY DEF ReadUnit
  <2> QED BY <2>1 DEF Below, Type, ServerTypes
<1>4. /\ repl_state'[s] = "CONNECTED" /\ master'[s].run = master[s].run /\ master'[s].off = master[s].off + 1
      /\ master'[s].pre = master[s].pre /\ master[s].off \in Int
      /\ \A x \in Servers \ {s} : SameSlave(x)
  BY <1>0 DEF ReadUnit, Below, Type, SlaveTypes, Positions, SameSlave
<1>p. p = Tail(q)
  BY <1>2
<1>w. Len(p) = Len(q) - 1 /\ Len(q) \in Nat /\ Len(q) >= 1 /\ Whole(data'[s], p, 0) = Whole(d, q, 0)
  <2>1. Len(p) = Len(q) - 1 /\ Len(q) \in Nat /\ Len(q) >= 1
    BY <1>0, <1>p, TailLines
  <2>2. d \in Seq(Writes)
    BY DEF Below, Type, ServerTypes
  <2>3. Whole(Append(d, q[1].off), Tail(q), 0) = Whole(d, q, 0)
    BY <1>m, <1>0, <2>2, WholeUnit
  <2> QED BY <1>0, <1>p, <1>3, <2>1, <2>3
<1> HIDE DEF w, cn
<1>to. \A x \in Servers : Attached(conn[x]) => conn[x].to \in Servers \ {s}
  BY <1>s, AttachedTo DEF Below
<1>5. Resumes(s)'
  <2>2. ReachBy(data'[s], conn'[s].in, repl_state'[s], master'[s], full'[s], runid', mro', backlog', data')
    <3>2. ReachBy(d, q, repl_state[s], master[s], full[s], runid', mro', backlog', data')
      BY Stands, ReachKept
    <3>3. AtBy(Whole(d, q, 0), master[s].run, master[s].off + Len(q), runid', mro', backlog', data')
      BY <1>0, <3>2 DEF ReachBy
    <3>5. master'[s].off + Len(p) = master[s].off + Len(q)
      <4> DEFINE lp == Len(p)
                 lq == Len(q)
                 o == master[s].off
                 o1 == master'[s].off
      <4>1. lp = lq - 1 /\ lq \in Nat /\ o \in Int /\ o1 = o + 1
        BY <1>4, <1>w
      <4> HIDE DEF lp, lq, o, o1
      <4>2. o1 + lp = o + lq
        BY <4>1
      <4> QED BY <4>2 DEF lp, lq, o, o1
    <3>6. AtBy(Whole(data'[s], p, 0), master'[s].run, master'[s].off + Len(p), runid', mro', backlog', data')
      BY <1>w, <1>4, <3>3, <3>5
    <3> QED BY <1>4, <3>6 DEF ReachBy
  <2> QED BY <1>m, <1>4, <2>2 DEF Resumes, Reach, ReachBy, AtBy
<1>6. Pending(s)'
  <2>1. \A i \in 1 .. Len(c.cmds) : c.cmds[i].name # "PSYNC"
    BY <1>0 DEF Hop, Pending
  <2> QED BY <1>2, <2>1 DEF Pending
<1>7. Expected(s)'
  <2>1. \A i \in 1 .. Len(p) : p[i].t = "FULLRESYNC" => p[i].off >= 0
    <3>1. \A i \in 1 .. Len(p) : p[i].t = "unit"
      BY <1>0, <1>p, TailLines
    <3> QED BY <3>1
  <2>2. ~master[s].pre
    BY DEF Hop, Expected
  <2> QED BY <1>4, <2>1, <2>2 DEF Expected
<1>8. Given(s)'
  <2>2. CASE c.replstate # "ONLINE"
    <3>1. Attached(c) => data'[c.to] = data[c.to]
      BY <1>3, <1>to
    <3>2. e.to = c.to /\ e.replstate = c.replstate /\ e.obuf = c.obuf /\ e.snap = c.snap
      BY <1>2
    <3> QED BY <1>0, <2>2, <3>1, <3>2 DEF Hop, Given, GivenBy, Attached
  <2>3. CASE c.replstate = "ONLINE"
    <3>1. PICK k \in Leads(q) : Whole(d, q, k) = data[c.to]
      BY <2>3 DEF Hop, Given, GivenBy
    <3>2. 0 \in Leads(q)
      <4>1. \A i \in 0 + 1 .. Len(q) : q[i].t = "unit"
        BY <1>0
      <4>2. 0 \in 0 .. Len(q)
        BY <1>w
      <4> QED BY <4>1, <4>2 DEF Leads
    <3>3. k = 0
      BY <1>w, <3>2, LeadsOne
    <3>4. 0 \in Leads(p)
      <4>1. k = 0 => 0 \in Leads(Tail(q))
        BY <1>0, LeadsTail
      <4> QED BY <1>p, <3>3, <4>1
    <3>5. data'[e.to] = data[c.to]
      BY <1>2, <1>3, <1>to, <2>3 DEF Attached
    <3>6. 0 \in Leads(e.in) /\ Whole(data'[s], e.in, 0) = data'[e.to]
      BY <1>w, <3>1, <3>3, <3>4, <3>5
    <3> QED BY <1>2, <2>3, <3>6 DEF Given, GivenBy
  <2> QED BY <2>2, <2>3
<1>9. ASSUME NEW x \in Servers \ {s}  PROVE Hop(x)'
  <2>1. /\ conn'[x].to = conn[x].to /\ conn'[x].up = conn[x].up /\ conn'[x].cmds = conn[x].cmds
        /\ conn'[x].replstate = conn[x].replstate /\ conn'[x].obuf = conn[x].obuf
        /\ conn'[x].snap = conn[x].snap /\ conn'[x].in = conn[x].in
    BY <1>2
  <2>2. Resumes(x)' /\ Pending(x)' /\ Expected(x)'
    <3>1. Attached(conn'[x]) => Attached(conn[x])
      BY <2>1 DEF Attached
    <3> QED BY <1>3, <1>4, <2>1, <3>1, HopStays
  <2>3. Given(x)'
    <3>1. Attached(conn[x]) => data'[conn[x].to] = data[conn[x].to]
      BY <1>3, <1>to
    <3>2. data'[x] = data[x] /\ child' = child /\ Given(x)
      BY <1>0, <1>3 DEF Hop
    <3> QED BY <2>1, <3>1, <3>2 DEF Given, GivenBy, Attached
  <2> QED BY <2>2, <2>3 DEF Hop
<1>10. Hop(s)'
  BY <1>5, <1>6, <1>7, <1>8 DEF Hop
<1> QED BY <1>9, <1>10

\* The request: it asks for the position of the data set.
LEMMA HopSendPsync ==
  ASSUME Below, Kept, setup' = setup, NEW s \in Servers, Hop(s), SendPsync(s)
  PROVE  Hop(s)'
<1> DEFINE c == conn[s]
           e == conn'[s]
           r == Psync(master[s])
<1>m. Masters' = Masters /\ TypeOK
  BY TypeParts DEF Masters, Below
<1>0. c.cmds = <<>> /\ c.in = <<>> /\ ~Attached(c) /\ data' = data
  BY DEF SendPsync, Below, Connections, Ctl, Control, serverVars
<1>1. e.cmds = Append(c.cmds, r) /\ e.in = c.in /\ e.replstate = c.replstate
  <2>1. r \in Requests
    BY <1>m, RequestTypes
  <2> HIDE DEF r
  <2>2. conn' = [conn EXCEPT ![s].cmds = Append(@, r)]
    BY DEF SendPsync, r
  <2> QED BY <1>m, <2>1, <2>2, AskEffect
<1>2. repl_state'[s] = "PSYNC" /\ master'[s] = master[s] /\ master[s].off \in Int
  BY DEF SendPsync, Below, Type, SlaveTypes, Positions
<1>3. e.cmds = <<r>> /\ Len(e.cmds) = 1 /\ e.cmds[1] = r /\ ~Attached(e)
  <2> HIDE DEF r
  <2>1. e.cmds = <<r>>
    BY <1>0, <1>1
  <2> QED BY <1>0, <1>1, <2>1 DEF Attached
<1>4. AtBy(data'[s], master'[s].run, master'[s].off, runid', mro', backlog', data')
  <2>1. AtBy(data[s], master[s].run, master[s].off, runid', mro', backlog', data')
    BY AtStays
  <2> QED BY <1>0, <1>2, <2>1
<1>5. Resumes(s)'
  <2>1. At(data[s], master[s].run, master[s].off)'
    BY <1>m, <1>4 DEF At, AtBy
  <2>2. Reach(s)'
    BY <1>0, <1>1, <1>2 DEF Reach, ReachBy
  <2> QED BY <2>1, <2>2 DEF Resumes
<1>6. Pending(s)'
  <2>1. e.cmds[1].run = master'[s].run /\ e.cmds[1].off - 1 = master'[s].off
    BY <1>2, <1>3 DEF Psync
  <2>2. AtBy(data'[s], e.cmds[1].run, e.cmds[1].off - 1, runid', mro', backlog', data')
    BY <1>4, <2>1
  <2>3. At(data[s], conn[s].cmds[1].run, conn[s].cmds[1].off - 1)'
    BY <1>m, <2>2 DEF At, AtBy
  <2>4. \A i \in 1 .. Len(e.cmds) : i = 1
    BY <1>3
  <2> QED BY <1>0, <1>1, <1>2, <1>3, <2>3, <2>4 DEF Pending
<1>7. Expected(s)'
  BY <1>0, <1>1, <1>2 DEF Hop, Expected
<1>8. Given(s)'
  BY <1>3 DEF Given, GivenBy, Attached
<1> QED BY <1>5, <1>6, <1>7, <1>8 DEF Hop

\* No answer came: SYNC follows the request.
LEMMA HopTimeout ==
  ASSUME Below, Kept, setup' = setup, NEW s \in Servers, Hop(s), PsyncTimeout(s)
  PROVE  Hop(s)'
<1> DEFINE c == conn[s]
           e == conn'[s]
           r == Psync(master[s])
<1>m. Masters' = Masters /\ TypeOK /\ setup \in Setups
  BY TypeParts DEF Masters, Below, Type, ServerTypes
<1>0. /\ c.in = <<>> /\ c.cmds = <<r>> /\ full[s].off = -1 /\ ~Attached(c) /\ data' = data /\ repl_state[s] = "PSYNC"
  <2>1. ~OverlapBgsave
    BY DEF Below, OneHop, OverlapBgsave
  <2>2. Asked(s)
    BY <2>1 DEF Below, Offsets, Placed
  <2> QED BY <2>2 DEF PsyncTimeout, Blocked, Asked, serverVars
<1>1. e.cmds = Append(c.cmds, Sync) /\ e.in = c.in /\ e.replstate = c.replstate
  <2>1. Sync \in Requests
    BY <1>m, RequestTypes
  <2>2. conn' = [conn EXCEPT ![s].cmds = Append(@, Sync)]
    BY DEF PsyncTimeout
  <2> QED BY <1>m, <2>1, <2>2, AskEffect
<1>2. repl_state'[s] = "TRANSFER" /\ master'[s] = NoMaster /\ full'[s] = full[s]
  BY DEF PsyncTimeout, Below, Type, SlaveTypes
<1>3. Len(e.cmds) = 2 /\ e.cmds[1] = r /\ e.cmds[2] = Sync /\ e.cmds # <<>> /\ r.name = "PSYNC" /\ Sync.name = "SYNC"
  <2>1. r.name = "PSYNC" /\ Sync.name = "SYNC"
    BY DEF Psync, Sync
  <2>2. r \in Requests /\ Sync \in Requests
    BY <1>m, RequestTypes
  <2> DEFINE v == <<r>>
             a == Append(v, Sync)
  <2> HIDE DEF r
  <2>3. v \in Seq(Requests) /\ Len(v) = 1 /\ v[1] = r
    BY <2>2
  <2> HIDE DEF v
  <2>4. a \in Seq(Requests) /\ Len(a) = Len(v) + 1 /\ (\A i \in 1 .. Len(v) : a[i] = v[i]) /\ a[Len(v) + 1] = Sync
    BY <2>2, <2>3, AppendProperties, ZenonT(40)
  <2> HIDE DEF a
  <2>5. a \in Seq(Requests) /\ Len(a) = 2 /\ a[1] = r /\ a[2] = Sync
    BY <2>3, <2>4
  <2>6. a # <<>>
    BY <2>5
  <2>7. e.cmds = a
    BY <1>0, <1>1 DEF a, v
  <2> QED BY <2>1, <2>5, <2>6, <2>7
<1>4. ~Attached(e)
  BY <1>0, <1>1 DEF Attached
<1>5. Resumes(s)'
  <2>1. At(data[s], master[s].run, master[s].off)'
    <3>1. AtBy(data'[s], NoRun, master'[s].off, runid', mro', backlog', data')
      BY <1>m, AtNone
    <3>2. AtBy(data'[s], master'[s].run, master'[s].off, runid', mro', backlog', data')
      BY <1>2, <3>1 DEF NoMaster
    <3> QED BY <1>m, <3>2 DEF At, AtBy
  <2>2. Reach(s)'
    BY <1>0, <1>1, <1>2 DEF Reach, ReachBy
  <2> QED BY <2>1, <2>2 DEF Resumes
<1>6. Pending(s)'
  <2>1. At(data[s], c.cmds[1].run, c.cmds[1].off - 1)
    <3>1. 1 \in 1 .. Len(c.cmds) /\ c.cmds[1].name = "PSYNC"
      BY <1>0, <1>3
    <3> QED BY <3>1 DEF Hop, Pending
  <2>2. c.cmds[1] = r
    BY <1>0
  <2>3. r.run \in Runs /\ r.off \in Int /\ data[s] \in Seq(Writes)
    <3>1. r \in Requests
      BY <1>m, RequestTypes
    <3> QED BY <3>1 DEF Requests, Below, Type, ServerTypes
  <2> HIDE DEF r, c, e
  <2>4. AtBy(data[s], r.run, r.off - 1, runid', mro', backlog', data')
    <3>1. r.off - 1 \in Int
      BY <2>3
    <3>2. At(data[s], r.run, r.off - 1)
      BY <2>1, <2>2
    <3> QED BY <2>3, <3>1, <3>2, AtAfter
  <2>5. AtBy(data'[s], e.cmds[1].run, e.cmds[1].off - 1, runid', mro', backlog', data')
    BY <1>0, <1>3, <2>4
  <2>6. At(data[s], conn[s].cmds[1].run, conn[s].cmds[1].off - 1)'
    BY <1>m, <2>5 DEF At, AtBy, e
  <2>7. \A i \in 1 .. Len(e.cmds) : e.cmds[i].name = "PSYNC" => i = 1
    BY <1>3
  <2> QED BY <1>0, <1>1, <1>2, <1>4, <2>6, <2>7 DEF Pending, e
<1>7. Expected(s)'
  BY <1>0, <1>1, <1>2, <1>3, <1>4 DEF Expected, NoMaster
<1>8. Given(s)'
  BY <1>4 DEF Given, GivenBy, Attached
<1> QED BY <1>5, <1>6, <1>7, <1>8 DEF Hop

\* An attempt is over.
LEMMA HopCloseLink ==
  ASSUME Below, Kept, setup' = setup, \A x \in Servers : Hop(x), NEW s \in Servers, CloseLink(s), conn[s].to # None
  PROVE  \A x \in Servers : Hop(x)'
<1>1. Slaves(s) = {}
  BY MasterOf, NobodysMaster DEF Below
<1>2. Cut(s, {})
  <2>1. TypeOK
    BY TypeParts DEF Below
  <2> QED BY <1>1, <2>1, CloseLinkEffect
<1>3. OnlyConn(s) /\ conn'[s] = NoConn
  BY <1>2 DEF Cut, OnlyConn
<1>4. /\ repl_state'[s] = "CONNECT" /\ (master'[s] = NoMaster \/ master'[s] = master[s])
      /\ data' = data /\ child' = child /\ \A x \in Servers \ {s} : SameSlave(x)
  BY DEF CloseLink, Below, Type, SlaveTypes, serverVars, SameSlave
<1>5. repl_state'[s] = "CONNECT"
  BY DEF CloseLink, Below, Type, SlaveTypes
<1>6. Hop(s)'
  BY <1>3, <1>4, <1>5, NoConnType, HopIdle
<1> QED BY <1>3, <1>4, <1>6, HopOwn

\* SLAVEOF, and the process starts again.
LEMMA HopCut ==
  ASSUME Below, Kept, setup' = setup, \A x \in Servers : Hop(x), NEW s \in Servers,
         \/ ReplicationUnsetMaster(s) \/ Restart(s)
         \/ \E m \in Servers : ReplicationSetMaster(s, m)
  PROVE  \A x \in Servers : Hop(x)'
<1>0. TypeOK /\ None \notin Servers
  BY TypeParts, SetupTypes DEF Below, Type, ServerTypes
<1>1. ASSUME NEW m \in Servers, ReplicationSetMaster(s, m)  PROVE \A x \in Servers : Hop(x)'
  <2>1. Slaves(s) = {}
    BY <1>1, CutMasters, NobodysMaster DEF Below
  <2>2. Cut(s, {})
    <3>1. conn' = [ClosedByMaster(conn, Slaves(s)) EXCEPT ![s] = NoConn]
      BY <1>1 DEF ReplicationSetMaster
    <3>2. Cut(s, Slaves(s))
      BY <1>0, <3>1, CutEffect
    <3> QED BY <2>1, <3>2
  <2>3. OnlyConn(s) /\ conn'[s] = NoConn
    BY <2>2 DEF Cut, OnlyConn
  <2>4. /\ repl_state'[s] = "CONNECT" /\ master'[s] = NoMaster
        /\ data' = data /\ child' = child /\ \A x \in Servers \ {s} : SameSlave(x)
    BY <1>1 DEF ReplicationSetMaster, Below, Type, SlaveTypes, SameSlave
  <2>5. Hop(s)'
    BY <2>3, <2>4, NoConnType, HopIdle
  <2> QED BY <2>3, <2>4, <2>5, HopOwn
<1>2. CASE ReplicationUnsetMaster(s)
  <2>1. Cut(s, {})
    <3>1. conn' = [conn EXCEPT ![s] = NoConn]
      BY <1>2 DEF ReplicationUnsetMaster
    <3> QED BY <1>0, <3>1, CutEffect
  <2>3. OnlyConn(s) /\ conn'[s] = NoConn
    BY <2>1 DEF Cut, OnlyConn
  <2>4. /\ repl_state'[s] = "NONE" /\ master'[s] = NoMaster
        /\ data' = data /\ child' = child /\ \A x \in Servers \ {s} : SameSlave(x)
    BY <1>2 DEF ReplicationUnsetMaster, Below, Type, SlaveTypes, SameSlave
  <2>5. Hop(s)'
    BY <2>3, <2>4, NoConnType, HopIdle
  <2> QED BY <2>3, <2>4, <2>5, HopOwn
<1>3. CASE Restart(s)
  <2> DEFINE S == {x \in Servers : conn[x].to = s}
  <2>1. Cut(s, S)
    <3>1. conn' = [ClosedByMaster(conn, S) EXCEPT ![s] = NoConn]
      BY <1>3 DEF Restart
    <3> HIDE DEF S
    <3> QED BY <1>0, <3>1, CutEffect
  <2>4. /\ repl_state'[s] \in {"NONE", "CONNECT"} /\ master'[s] = NoMaster
        /\ (\A x \in Servers \ {s} : data'[x] = data[x] /\ child'[x] = child[x])
        /\ \A x \in Servers \ {s} : SameSlave(x)
    BY <1>3 DEF Restart, Below, Type, ServerTypes, SlaveTypes, SameSlave
  <2>5. Hop(s)'
    <3>1. conn'[s] = NoConn
      BY <2>1 DEF Cut
    <3> QED BY <2>4, <3>1, NoConnType, HopIdle
  <2>6. ASSUME NEW x \in Servers \ {s}  PROVE Hop(x)'
    <3>1. CASE conn[x].to = s
      <4>1. Closed(conn[x], conn'[x])
        BY <2>1, <3>1 DEF Cut
      <4> QED BY <2>4, <4>1, HopClosed DEF Closed
    <3>2. CASE conn[x].to # s
      <4>1. conn'[x] = conn[x]
        BY <2>1, <3>2 DEF Cut
      <4>2. Attached(conn[x]) => data'[conn[x].to] = data[conn[x].to] /\ child'[conn[x].to] = child[conn[x].to]
        BY <2>4, <3>2, AttachedTo DEF Below
      <4>3. conn[x].replstate = "WAIT_BGSAVE_END" => Attached(conn[x])
        BY DEF Attached
      <4> QED BY <2>4, <4>1, <4>2, <4>3, HopSame
    <3> QED BY <3>1, <3>2
  <2> QED BY <2>5, <2>6
<1> QED BY <1>1, <1>2, <1>3

LEMMA HopSlave ==
  ASSUME Below, Kept, setup' = setup, \A x \in Servers : Hop(x), NEW s \in Servers,
         \/ SlaveStep(s) \/ LoseMaster(s) \/ PsyncTimeout(s) \/ ReplicationUnsetMaster(s) \/ Restart(s)
         \/ \E m \in Servers : ReplicationSetMaster(s, m)
  PROVE  \A x \in Servers : Hop(x)'
<1>0. TypeOK
  BY TypeParts DEF Below
<1>t. repl_state[s] \in {"TRANSFER", "PSYNC"} => conn[s].to # None /\ repl_state[s] \notin {"NONE", "CONNECT"}
  BY DEF Below, Connections, Ctl, Control
\* Only s and its connection change, and no data set.
<1>o. ASSUME OnlyConn(s), Hop(s)', UNCHANGED serverVars, \A x \in Servers \ {s} : SameSlave(x)
      PROVE  \A x \in Servers : Hop(x)'
  BY <1>o, HopOwn DEF serverVars
<1>1. CASE ReadUnit(s)
  BY <1>1, HopReadUnit
<1>2. CASE ConnectWithMaster(s)
  <2>1. OnlyConn(s) /\ conn'[s].cmds = <<>> /\ conn'[s].in = <<>> /\ conn'[s].replstate = "NONE"
    BY <1>0, <1>2, ConnectEffect
  <2>2. /\ repl_state'[s] = "CONNECTING" /\ master' = master /\ UNCHANGED serverVars /\ data' = data
        /\ \A x \in Servers \ {s} : SameSlave(x)
    BY <1>2 DEF ConnectWithMaster, Below, Type, SlaveTypes, SameSlave, serverVars
  <2>3. Hop(s)'
    BY <2>1, <2>2, HopIdle
  <2> QED BY <1>o, <2>1, <2>2, <2>3
<1>3. CASE SendPing(s)
  <2>1. conn' = conn /\ OnlyConn(s)
    BY <1>3 DEF SendPing, OnlyConn, Below, Type
  <2>2. conn[s].cmds = <<>> /\ conn[s].in = <<>> /\ conn[s].replstate = "NONE"
    BY <1>3 DEF SendPing, Below, Connections, Ctl, Control, Attached
  <2>3. /\ repl_state'[s] = "RECEIVE_PONG" /\ master' = master /\ UNCHANGED serverVars /\ data' = data
        /\ \A x \in Servers \ {s} : SameSlave(x)
    BY <1>3 DEF SendPing, Below, Type, SlaveTypes, SameSlave, serverVars
  <2>4. Hop(s)'
    BY <2>1, <2>2, <2>3, HopIdle
  <2> QED BY <1>o, <2>1, <2>3, <2>4
<1>4. CASE SendPsync(s)
  <2>1. OnlyConn(s)
    <3> DEFINE r == Psync(master[s])
    <3>1. r \in Requests
      BY <1>0, RequestTypes
    <3>2. conn' = [conn EXCEPT ![s].cmds = Append(@, r)]
      BY <1>4 DEF SendPsync
    <3> HIDE DEF r
    <3> QED BY <1>0, <3>1, <3>2, AskEffect
  <2>2. Hop(s)'
    BY <1>4, HopSendPsync
  <2>3. UNCHANGED serverVars /\ \A x \in Servers \ {s} : SameSlave(x)
    BY <1>4 DEF SendPsync, SameSlave, Below, Type, SlaveTypes
  <2> QED BY <1>o, <2>1, <2>2, <2>3
<1>5. CASE ReplyFull(s)
  <2>1. OnlyConn(s)
    BY <1>0, <1>5, TailEffect DEF ReplyFull
  <2>2. Hop(s)'
    BY <1>5, HopReplyFull
  <2>3. UNCHANGED serverVars /\ \A x \in Servers \ {s} : SameSlave(x)
    BY <1>5 DEF ReplyFull, SameSlave, Below, Type, SlaveTypes
  <2> QED BY <1>o, <2>1, <2>2, <2>3
<1>6. CASE ReplyContinue(s)
  <2>1. OnlyConn(s)
    BY <1>0, <1>6, TailEffect DEF ReplyContinue
  <2>2. Hop(s)'
    BY <1>6, HopReplyContinue
  <2>3. UNCHANGED serverVars /\ \A x \in Servers \ {s} : SameSlave(x)
    BY <1>6 DEF ReplyContinue, SameSlave, Below, Type, SlaveTypes
  <2> QED BY <1>o, <2>1, <2>2, <2>3
<1>7. CASE FallBackToSync(s)
  <2> DEFINE q == conn[s].in
  <2>1. q \in Seq(Lines) /\ q # <<>> /\ Head(q).t = "ERR" /\ repl_state[s] = "PSYNC"
    BY <1>7, UnitsFollow DEF FallBackToSync, Blocked
  <2>2. Head(q) = q[1]
    BY <2>1, TailLines
  <2>3. q[1].t \in {"FULLRESYNC", "CONTINUE"}
    BY <2>1 DEF Hop, Expected
  <2> QED BY <2>1, <2>2, <2>3
<1>8. CASE ReadBulk(s)
  <2>1. OnlyConn(s)
    BY <1>0, <1>8, TailEffect DEF ReadBulk
  <2>2. Hop(s)'
    BY <1>8, HopReadBulk
  <2>3. child' = child /\ \A x \in Servers \ {s} : SameSlave(x) /\ data'[x] = data[x]
    BY <1>8 DEF ReadBulk, SameSlave, Below, Type, ServerTypes, SlaveTypes
  <2>4. s \notin Masters
    BY <1>8, <1>t, MasterOf DEF ReadBulk, Below
  <2> QED BY <2>1, <2>2, <2>3, <2>4, HopOwn
<1>9. CASE AbortTransfer(s)
  BY <1>9, <1>t, HopCloseLink DEF AbortTransfer
<1>10. CASE SeeClosed(s)
  BY <1>10, HopCloseLink DEF SeeClosed
<1>11. CASE LoseMaster(s)
  BY <1>11, HopCloseLink DEF LoseMaster
<1>12. CASE PsyncTimeout(s)
  <2>1. OnlyConn(s)
    <3>1. Sync \in Requests
      BY <1>0, RequestTypes
    <3>2. conn' = [conn EXCEPT ![s].cmds = Append(@, Sync)]
      BY <1>12 DEF PsyncTimeout
    <3> QED BY <1>0, <3>1, <3>2, AskEffect
  <2>2. Hop(s)'
    BY <1>12, HopTimeout
  <2>3. UNCHANGED serverVars /\ \A x \in Servers \ {s} : SameSlave(x)
    BY <1>12 DEF PsyncTimeout, SameSlave, Below, Type, SlaveTypes
  <2> QED BY <1>o, <2>1, <2>2, <2>3
<1>13. CASE ReplicationUnsetMaster(s) \/ Restart(s) \/ \E m \in Servers : ReplicationSetMaster(s, m)
  BY <1>13, HopCut
<1> QED BY <1>1, <1>2, <1>3, <1>4, <1>5, <1>6, <1>7, <1>8, <1>9, <1>10, <1>11, <1>12, <1>13 DEF SlaveStep

----------------------------------------------------------------------------
(* Every step, and the property.                                           *)

LEMMA HopStep ==
  ASSUME Below, Type', [Next]_vars, \A x \in Servers : Hop(x)
  PROVE  \A x \in Servers : Hop(x)'
<1>1. Kept
  BY AllKept
<1>2. CASE UNCHANGED vars
  <2> SUFFICES ASSUME NEW x \in Servers  PROVE Hop(x)'
    OBVIOUS
  <2>1. setup' = setup /\ SameSlave(x) /\ data' = data /\ conn' = conn /\ child' = child
    BY <1>2 DEF vars, SameSlave
  <2> QED BY <1>1, <2>1, HopSame
<1>3. CASE Next
  <2>1. setup' = setup /\ Step
    BY <1>3 DEF Next
  <2>2. ASSUME NEW s \in Servers, Write(s) \/ SlaveStep(s) \/ LoseMaster(s) \/ PsyncTimeout(s)
        PROVE  \A x \in Servers : Hop(x)'
    BY <1>1, <2>1, <2>2, HopMaster, HopSlave
  <2>3. ASSUME NEW m \in Servers, NEW s \in Servers, SyncCommand(m, s) \/ SendBulk(m, s) \/ DropSlave(m, s)
        PROVE  \A x \in Servers : Hop(x)'
    BY <1>1, <2>1, <2>3, HopMaster, HopAnswer
  <2>4. ASSUME NEW m \in Servers, Bgsave(m) \/ FreeBacklog(m) \/ \E ok \in BOOLEAN : BgsaveDone(m, ok)
        PROVE  \A x \in Servers : Hop(x)'
    BY <1>1, <2>1, <2>4, HopMaster
  <2>5. ASSUME NEW s \in Servers, (\E m \in Servers : ReplicationSetMaster(s, m)) \/ ReplicationUnsetMaster(s) \/ Restart(s)
        PROVE  \A x \in Servers : Hop(x)'
    BY <1>1, <2>1, <2>5, HopSlave
  <2> QED BY <2>1, <2>2, <2>3, <2>4, <2>5 DEF Step
<1> QED BY <1>2, <1>3

LEMMA InitHop ==
  ASSUME Init, NEW s \in Servers
  PROVE  Hop(s)
<1>1. /\ conn[s] = NoConn /\ master[s] = NoMaster /\ repl_state[s] \in {"NONE", "CONNECT"} /\ setup \in Setups
  BY DEF Init
<1>2. At(data[s], master[s].run, master[s].off)
  <2>1. AtBy(data[s], NoRun, master[s].off, runid, mro, backlog, data)
    BY <1>1, AtNone
  <2> QED BY <1>1, <2>1 DEF At, NoMaster
<1>3. Resumes(s)
  BY <1>1, <1>2 DEF Resumes, Reach, ReachBy
<1>4. conn[s].cmds = <<>> /\ conn[s].in = <<>> /\ conn[s].replstate = "NONE"
  BY <1>1 DEF NoConn
<1>5. Pending(s)
  BY <1>4 DEF Pending
<1>6. Expected(s)
  BY <1>1, <1>4 DEF Expected, NoMaster
<1>7. Given(s)
  BY <1>4 DEF Given, GivenBy
<1> QED BY <1>3, <1>5, <1>6, <1>7 DEF Hop

\* What is in flight behind the last answer, as Converges counts it.
LEMMA GivenConverges ==
  ASSUME Below, NEW s \in Servers, Given(s), conn[s].replstate = "ONLINE"
  PROVE  Base(s) \o Units(s) = data[conn[s].to]
<1> DEFINE q == conn[s].in
           n == Len(q)
           d == data[s]
<1>1. q \in Seq(Lines) /\ n \in Nat /\ InOrder(q)
  BY UnitsFollow
<1>2. PICK k \in Leads(q) : Whole(d, q, k) = data[conn[s].to]
  BY DEF Given, GivenBy
<1>3. /\ k \in 0 .. n /\ (k > 0 => q[k].t # "unit") /\ \A i \in k + 1 .. n : q[i].t = "unit"
  BY DEF Leads
<1>4. (CHOOSE j \in Leads(q) : TRUE) = k
  <2>1. (CHOOSE j \in Leads(q) : TRUE) \in Leads(q)
    BY <1>2
  <2> DEFINE j0 == CHOOSE j \in Leads(q) : TRUE
  <2> HIDE DEF j0
  <2>2. j0 \in Leads(q)
    BY <2>1 DEF j0
  <2>3. j0 = k
    BY <1>1, <1>2, <2>2, LeadsOne
  <2> QED BY <2>3 DEF j0
<1>5. InFlight(s) = SubSeq(q, k + 1, n)
  BY <1>4 DEF InFlight
<1> HIDE DEF q
<1>6. /\ DOMAIN SubSeq(q, k + 1, n) = 1 .. n - k
      /\ \A i \in 1 .. n - k : SubSeq(q, k + 1, n)[i] = q[k + i]
  <2> DEFINE b == SubSeq(q, k + 1, n)
  <2>1. k + 1 \in Nat /\ n - (k + 1) + 1 = n - k
    BY <1>1, <1>3
  <2>2. DOMAIN b = 1 .. n - (k + 1) + 1 /\ \A i \in 1 .. n - (k + 1) + 1 : b[i] = q[k + 1 + i - 1]
    <3> HIDE DEF n
    <3> QED BY <1>1, <1>3
  <2>3. \A i \in 1 .. n - k : k + 1 + i - 1 = k + i
    BY <1>1, <1>3
  <2> HIDE DEF b
  <2>4. DOMAIN b = 1 .. n - k /\ \A i \in 1 .. n - k : b[i] = q[k + i]
    BY <2>1, <2>2, <2>3
  <2> QED BY <2>4 DEF b
<1>7. Units(s) = Offs(q, k)
  <2>1. Units(s) = [i \in 1 .. n - k |-> q[k + i].off]
    BY <1>5, <1>6 DEF Units
  <2> QED BY <2>1 DEF Offs
<1>8. InBulk(s) = {i \in 1 .. n : q[i].t = "bulk"}
  BY <1>1 DEF InBulk, q
<1>9. \A i \in InBulk(s) : i = k
  <2> SUFFICES ASSUME NEW i \in 1 .. n, q[i].t = "bulk"  PROVE i = k
    BY <1>8
  <2>1. ~(i > k)
    <3>1. i > k => i \in k + 1 .. n
      BY <1>1, <1>3
    <3> QED BY <1>3, <3>1
  <2>2. ~(i < k)
    <3> SUFFICES ASSUME i < k  PROVE FALSE
      OBVIOUS
    <3>1. i \in DOMAIN q /\ k \in DOMAIN q /\ k > 0
      BY <1>1, <1>3
    <3>2. q[k].t = "unit"
      BY <1>1, <3>1 DEF InOrder
    <3> QED BY <1>3, <3>1, <3>2
  <2> QED BY <1>1, <1>3, <2>1, <2>2
<1>10. Base(s) = IF k > 0 /\ q[k].t = "bulk" THEN q[k].data ELSE d
  <2>1. CASE k > 0 /\ q[k].t = "bulk"
    <3>1. InBulk(s) = {k}
      <4>1. k \in 1 .. n
        BY <1>1, <1>3, <2>1
      <4> QED BY <1>8, <1>9, <2>1, <4>1
    <3>2. (CHOOSE i \in InBulk(s) : TRUE) = k
      BY <3>1
    <3> QED BY <2>1, <3>1, <3>2 DEF Base, q
  <2>2. CASE ~(k > 0 /\ q[k].t = "bulk")
    <3>1. InBulk(s) = {}
      <4>1. ASSUME NEW i \in InBulk(s)  PROVE FALSE
        <5>1. i = k /\ i \in 1 .. n /\ q[i].t = "bulk"
          BY <1>8, <1>9
        <5>2. k > 0
          BY <1>1, <5>1
        <5> QED BY <2>2, <5>1, <5>2
      <4> QED BY <4>1
    <3> QED BY <2>2, <3>1 DEF Base
  <2> QED BY <2>1, <2>2
<1> QED BY <1>2, <1>7, <1>10 DEF Whole, q

\* Where nobody's master is or becomes a slave, and no slave asks for a full
\* resynchronization during a BGSAVE, no write is lost, repeated or reordered
\* on the way to an attached slave, for any number of servers, faults and
\* bounds: what addReplyReplicationBacklog sends completes the data set the
\* slave had when it sent PSYNC, and the units it is fed in the meantime
\* complete the snapshot it waits for.  With a second hop it does not hold:
\* a slave of a slave resumes from offsets that a new master has given
\* another meaning.
THEOREM ConvergesCorrect ==
  ASSUME \A u \in Setups : OneHop(u)
  PROVE  Spec => []Converges
<1> DEFINE Inv == Below /\ \A s \in Servers : Hop(s)
<1>1. Init => Inv
  <2> SUFFICES ASSUME Init  PROVE Inv
    OBVIOUS
  <2>1. Type /\ Connections /\ Offsets
    BY InitType, InitCtl, InitOffsets
  <2>2. OneHop(setup)
    BY <2>1 DEF Type, ServerTypes
  <2>3. Top
    BY <2>2, InitTop
  <2> QED BY <2>1, <2>2, <2>3, InitHop DEF Below
<1>2. Inv /\ [Next]_vars => Inv'
  <2> SUFFICES ASSUME Inv, [Next]_vars  PROVE Inv'
    OBVIOUS
  <2>1. Type' /\ Connections' /\ Offsets'
    BY TypeStep, CtlStep, OffsetsStep DEF Below
  <2>2. setup' = setup
    BY DEF Next, vars
  <2>3. OneHop(setup)'
    BY <2>2 DEF Below
  <2>4. Top'
    BY TopStep DEF Below
  <2>5. \A x \in Servers : Hop(x)'
    BY <2>1, HopStep
  <2>6. Servers' = Servers
    BY <2>2, SameSetup
  <2> QED BY <2>1, <2>3, <2>4, <2>5, <2>6 DEF Below
<1>3. Inv => Converges
  <2> SUFFICES ASSUME Inv, NEW s \in Servers
               PROVE  /\ conn[s].replstate = "WAIT_BGSAVE_END" => child[conn[s].to] \o conn[s].obuf = data[conn[s].to]
                      /\ conn[s].replstate = "SEND_BULK" => conn[s].snap \o conn[s].obuf = data[conn[s].to]
                      /\ conn[s].replstate = "ONLINE" => Base(s) \o Units(s) = data[conn[s].to]
    BY DEF Converges
  <2>1. Given(s)
    BY DEF Hop
  <2> QED BY <2>1, GivenConverges DEF Given, GivenBy
<1> QED BY <1>1, <1>2, <1>3, PTL DEF Spec
=============================================================================
