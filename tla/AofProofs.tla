------------------------------ MODULE AofProofs ------------------------------
(***************************************************************************)
(* The safety of module Aof, for any databases, policies and scenarios,    *)
(* but two kinds of scenario in which the code loses what it wrote.        *)
(***************************************************************************)
EXTENDS Aof, SequenceTheorems, WellFoundedInduction, TLAPS

----------------------------------------------------------------------------
(* What is assumed of the scenarios.                                       *)

\* stopAppendOnly keeps the buffer that it could not write.
NothingLeftOver ==
  \A s \in Scenarios : {"config", "resync"} \cap s.may = {} \/ {"write", "ftruncate"} \cap s.may = {}

\* With aof-load-truncated, a file cut inside a MULTI keeps it.
NeverCutInMulti ==
  LoadTruncated => \A s \in Scenarios : "multi" \in s.may => {"ftruncate", "power"} \cap s.may = {}

----------------------------------------------------------------------------
(* Units.  n writes were made, and m says whether there are transactions.  *)

DataSets(n) == Seq(DBs \X (1 .. n))

AllUnits(n) == [op : {"none", "select", "write", "multi", "exec", "base"}, db : DBs,
                write : 0 .. n, data : DataSets(n), half : {1, 2}]

\* The units a file may have.
FileUnits(n, m) == {u \in AllUnits(n) : /\ u.op # "none"
                                        /\ u.op = "base" => u.data # <<>>
                                        /\ u.op = "write" => u.write # 0
                                        /\ u.op = "multi" => m}

\* The units feedAppendOnlyFile adds.
FedUnits(n, m) == {u \in FileUnits(n, m) : u.op # "base"}

Transactions == "multi" \in scenario.may
InFile == FileUnits(nwrites, Transactions)
Fed    == FedUnits(nwrites, Transactions)
Data   == DataSets(nwrites)

----------------------------------------------------------------------------
(* The invariant.                                                          *)

States == {"ON", "OFF", "WAIT_REWRITE"}
CutEvents == {"ftruncate", "power"}

Types ==
  /\ loop \in {"events", "reap", "postponed", "error", "restart", "shutdown", "down"}
  /\ policy \in Policies /\ scenario \in Scenarios
  /\ data \in Data /\ base \in Data
  /\ nwrites \in 0 .. scenario.writes /\ faults \in 0 .. scenario.faults
  /\ acked \subseteq 1 .. nwrites
  /\ aof_state \in States /\ aof_fd \in {"none", "open", "stale"}
  /\ file \in Seq(InFile) /\ aof_buf \in Seq(Fed) /\ rewrite_buf \in Seq(Fed)
  /\ synced \in 0 .. Len(file) /\ current_size \in Nat
  /\ selected_db \in DBs \cup {-1}
  /\ postponed \in NotPostponed .. 2
  /\ write_ok \in BOOLEAN /\ fsync_due \in BOOLEAN /\ rewrite_scheduled \in BOOLEAN
  /\ aof_child_pid \in BOOLEAN /\ rdb_child_pid \in BOOLEAN /\ orphan \in BOOLEAN
  /\ jobs \in Seq({"current", "old"}) /\ fsyncing \in NotSyncing .. Len(file)
  /\ aof_proc \in {"none", "run", "ok", "fail"} /\ rdb_proc \in {"none", "run", "ok"}

\* Where the AOF stands.
Modes ==
  /\ ~Up => /\ aof_state = "OFF" /\ selected_db = -1 /\ postponed = NotPostponed
            /\ jobs = <<>> /\ fsyncing = NotSyncing /\ ~aof_child_pid /\ data = <<>>
  /\ loop = "restart" => aof_state = "OFF"
  /\ aof_state # "OFF" => aof_fd = "open"
  /\ aof_buf # <<>> => aof_state = "ON"
  /\ aof_state = "ON" => current_size = Len(file)
  /\ fsyncing # NotSyncing => jobs # <<>> /\ Head(jobs) = "current"
  /\ aof_proc # "none" => aof_child_pid
  /\ ~aof_child_pid => rewrite_buf = <<>>
  /\ {"config", "resync"} \cap scenario.may = {} => aof_state = "ON" \/ ~Up

\* A reader of f has the data set ds, and is in database d if there is one.
Complete(f) == AtEnd(Load(f))
Makes(f, ds, d) ==
  LET r == Load(f)
  IN  AtEnd(r) /\ r.data = ds /\ r.pdata = ds /\ (d # -1 => r.db = d)

FileSums ==
  /\ aof_state = "ON" => Makes(file \o aof_buf, data, selected_db)
  /\ Transactions /\ CutEvents \cap scenario.may = {} => Complete(file)

RewriteSums ==
  /\ aof_child_pid => Complete(Rewritten(base) \o rewrite_buf)
  /\ aof_child_pid /\ aof_state # "OFF" => Makes(Rewritten(base) \o rewrite_buf, data, selected_db)

\* What is acknowledged, under "always".
Durable ==
  policy = "always" =>
    /\ Up => acked \subseteq WritesOf(data)
    /\ aof_state = "ON" => /\ synced = Len(file) /\ Complete(file)
                           /\ acked \subseteq WritesOf(Load(file).data)
    /\ ~Up => \A n \in synced .. Len(file) : acked \subseteq WritesOf(Load(SubSeq(file, 1, n)).data)

----------------------------------------------------------------------------
(* Induction.                                                              *)

Less == {p \in Nat \X Nat : p[1] < p[2]}

\* A nonempty set of numbers has a least one.
LEMMA LeastNumber ==
  ASSUME NEW T \in SUBSET Nat, T # {}
  PROVE  \E x \in T : \A y \in T : x <= y
<1>1. IsWellFoundedOn(Less, Nat)
  BY NatLessThanWellFounded DEF Less, OpToRel
<1>2. PICK x \in T : \A y \in T : ~(<<y, x>> \in Less)
  BY <1>1, WFMin
<1>3. \A y \in T : ~(y < x)
  BY <1>2 DEF Less
<1> QED BY <1>3

\* A set with 0 and with the successor, up to n, of what it has.
LEMMA Induction ==
  ASSUME NEW n \in Nat, NEW T, 0 \in T, \A k \in 0 .. n - 1 : k \in T => k + 1 \in T
  PROVE  \A k \in 0 .. n : k \in T
<1> DEFINE F == {k \in 0 .. n : k \notin T}
<1> SUFFICES ASSUME F # {}  PROVE FALSE
  OBVIOUS
<1>1. PICK x \in F : \A y \in F : x <= y
  <2>1. F \in SUBSET Nat
    OBVIOUS
  <2> HIDE DEF F
  <2> QED BY <2>1, LeastNumber
<1>2. x \in 1 .. n /\ x \notin T /\ x - 1 \in 0 .. n - 1
  BY <1>1
<1>3. x - 1 \in T
  <2> SUFFICES ASSUME x - 1 \notin T  PROVE FALSE
    OBVIOUS
  <2>1. x - 1 \in F
    BY <1>2
  <2> QED BY <1>1, <1>2, <2>1
<1>4. (x - 1) + 1 \in T
  BY <1>2, <1>3
<1> QED BY <1>2, <1>4

----------------------------------------------------------------------------
(* The reader, one unit after the other.                                   *)

\* g[k] is the reader after k of the n first units of f.
IsReading(g, f, n) ==
  g = [k \in 0 .. n |-> IF k = 0 THEN Reader ELSE ReadUnit(g[k - 1], f[k])]

LEMMA ReadingUnique ==
  ASSUME NEW f, NEW e, NEW n \in Nat, NEW m \in Nat, NEW g, NEW h, n <= m,
         \A k \in 1 .. n : f[k] = e[k], IsReading(g, f, n), IsReading(h, e, m)
  PROVE  g[n] = h[n]
<1> DEFINE T == {k \in 0 .. n : g[k] = h[k]}
<1>0. /\ \A k \in 0 .. n : g[k] = IF k = 0 THEN Reader ELSE ReadUnit(g[k - 1], f[k])
      /\ \A k \in 0 .. m : h[k] = IF k = 0 THEN Reader ELSE ReadUnit(h[k - 1], e[k])
  BY DEF IsReading
<1>1. 0 \in T
  BY <1>0
<1>2. ASSUME NEW k \in 0 .. n - 1, k \in T  PROVE k + 1 \in T
  <2>1. k + 1 \in 1 .. n /\ k + 1 \in 1 .. m /\ (k + 1) - 1 = k /\ g[k] = h[k] /\ f[k + 1] = e[k + 1]
    BY <1>2
  <2>2. g[k + 1] = ReadUnit(g[k], f[k + 1])
    <3>1. g[k + 1] = ReadUnit(g[(k + 1) - 1], f[k + 1])
      BY <1>0, <2>1
    <3> QED BY <2>1, <3>1
  <2>3. h[k + 1] = ReadUnit(h[k], e[k + 1])
    <3>1. h[k + 1] = ReadUnit(h[(k + 1) - 1], e[k + 1])
      BY <1>0, <2>1
    <3> QED BY <2>1, <3>1
  <2>4. g[k + 1] = h[k + 1]
    BY <2>1, <2>2, <2>3
  <2> QED BY <2>1, <2>4
<1> HIDE DEF T
<1>3. \A k \in 0 .. n : k \in T
  BY <1>1, <1>2, Induction
<1>4. n \in 0 .. n
  OBVIOUS
<1> QED BY <1>3, <1>4 DEF T

LEMMA ReadingExists ==
  ASSUME NEW f, NEW n \in Nat
  PROVE  \E g : IsReading(g, f, n)
<1> DEFINE T == {k \in 0 .. n : \E g : IsReading(g, f, k)}
<1>1. 0 \in T
  <2> DEFINE g == [k \in 0 .. 0 |-> Reader]
  <2>1. g = [k \in 0 .. 0 |-> IF k = 0 THEN Reader ELSE ReadUnit(g[k - 1], f[k])]
    <3>1. \A k \in 0 .. 0 : k = 0
      OBVIOUS
    <3> QED BY <3>1
  <2>2. IsReading(g, f, 0)
    BY <2>1 DEF IsReading
  <2> HIDE DEF g
  <2>3. \E x : IsReading(x, f, 0)
    BY <2>2
  <2> QED BY <2>3
<1>2. ASSUME NEW k \in 0 .. n - 1, k \in T  PROVE k + 1 \in T
  <2>1. PICK g : IsReading(g, f, k)
    BY <1>2
  <2> DEFINE h == [j \in 0 .. k + 1 |-> IF j = k + 1 THEN ReadUnit(g[k], f[k + 1]) ELSE g[j]]
  <2>2. h = [j \in 0 .. k + 1 |-> IF j = 0 THEN Reader ELSE ReadUnit(h[j - 1], f[j])]
    <3> SUFFICES ASSUME NEW j \in 0 .. k + 1
                 PROVE  h[j] = IF j = 0 THEN Reader ELSE ReadUnit(h[j - 1], f[j])
      BY Zenon
    <3>0. k \in Nat /\ j \in Nat
      OBVIOUS
    <3>1. \A i \in 0 .. k : g[i] = IF i = 0 THEN Reader ELSE ReadUnit(g[i - 1], f[i])
      BY <2>1 DEF IsReading
    <3>2. CASE j = k + 1
      <4>1. j # 0 /\ j - 1 = k /\ k \in 0 .. k + 1 /\ k # k + 1
        BY <3>0, <3>2
      <4>2. h[j] = ReadUnit(g[k], f[j]) /\ h[j - 1] = g[k]
        BY <3>2, <4>1
      <4> HIDE DEF h
      <4> QED BY <4>1, <4>2
    <3>3. CASE j = 0
      <4>1. 0 \in 0 .. k /\ j # k + 1
        BY <3>0, <3>3
      <4>2. h[j] = g[0] /\ g[0] = Reader
        BY <3>1, <3>3, <4>1
      <4> HIDE DEF h
      <4> QED BY <3>3, <4>2
    <3>4. CASE j \in 1 .. k
      <4>1. j # 0 /\ j # k + 1 /\ j \in 0 .. k /\ j - 1 \in 0 .. k + 1 /\ j - 1 # k + 1
        BY <3>0, <3>4
      <4>2. h[j] = g[j] /\ h[j - 1] = g[j - 1] /\ g[j] = ReadUnit(g[j - 1], f[j])
        BY <3>1, <4>1
      <4> HIDE DEF h
      <4> QED BY <4>1, <4>2
    <3> QED BY <3>0, <3>2, <3>3, <3>4
  <2>3. IsReading(h, f, k + 1)
    BY <2>2 DEF IsReading
  <2> HIDE DEF h
  <2> QED BY <2>3
<1> HIDE DEF T
<1>3. n \in 0 .. n /\ \A k \in 0 .. n : k \in T
  BY <1>1, <1>2, Induction
<1> QED BY <1>3 DEF T

\* Load reads to the end.
LEMMA LoadReads ==
  ASSUME NEW f, Len(f) \in Nat
  PROVE  \E g : IsReading(g, f, Len(f)) /\ Load(f) = g[Len(f)]
<1> DEFINE g == CHOOSE read : read = [n \in 0 .. Len(f) |-> IF n = 0 THEN Reader ELSE ReadUnit(read[n - 1], f[n])]
<1>1. \E h : h = [n \in 0 .. Len(f) |-> IF n = 0 THEN Reader ELSE ReadUnit(h[n - 1], f[n])]
  BY ReadingExists DEF IsReading
<1>2. g = [n \in 0 .. Len(f) |-> IF n = 0 THEN Reader ELSE ReadUnit(g[n - 1], f[n])]
  BY <1>1, Zenon
<1>3. Load(f) = g[Len(f)]
  BY DEF Load
<1> HIDE DEF g
<1> QED BY <1>2, <1>3 DEF IsReading

LEMMA LoadEmpty == Load(<<>>) = Reader
<1>1. Len(<<>>) = 0 /\ 0 \in Nat
  OBVIOUS
<1>2. PICK g : IsReading(g, <<>>, 0) /\ Load(<<>>) = g[0]
  BY <1>1, LoadReads
<1> QED BY <1>2 DEF IsReading

LEMMA LoadExtends ==
  ASSUME NEW f, NEW e, NEW n \in Nat, Len(f) = n, Len(e) = n + 1, \A k \in 1 .. n : f[k] = e[k]
  PROVE  Load(e) = ReadUnit(Load(f), e[n + 1])
<1>1. /\ n \in 0 .. n /\ n + 1 \in Nat /\ n <= n + 1 /\ n + 1 \in 0 .. n + 1
      /\ n + 1 # 0 /\ (n + 1) - 1 = n
  OBVIOUS
<1>2. PICK g : IsReading(g, f, n) /\ Load(f) = g[n]
  BY LoadReads
<1>3. PICK h : IsReading(h, e, n + 1) /\ Load(e) = h[n + 1]
  BY <1>1, LoadReads
<1>4. g[n] = h[n]
  BY <1>1, <1>2, <1>3, ReadingUnique
<1>5. h[n + 1] = ReadUnit(h[(n + 1) - 1], e[n + 1])
  BY <1>1, <1>3 DEF IsReading
<1>6. h[n + 1] = ReadUnit(h[n], e[n + 1])
  BY <1>1, <1>5
<1> QED BY <1>2, <1>3, <1>4, <1>6

LEMMA LoadAppend ==
  ASSUME NEW S, NEW f \in Seq(S), NEW u \in S
  PROVE  Load(Append(f, u)) = ReadUnit(Load(f), u)
<1> DEFINE e == Append(f, u)
           n == Len(f)
<1>1. n \in Nat /\ Len(e) = n + 1 /\ e[n + 1] = u /\ \A k \in 1 .. n : f[k] = e[k]
  BY AppendProperties
<1> HIDE DEF e, n
<1>2. Load(e) = ReadUnit(Load(f), e[n + 1])
  BY <1>1, LoadExtends DEF n
<1> QED BY <1>1, <1>2 DEF e

----------------------------------------------------------------------------
(* Units and readers.                                                      *)

LEMMA Zero == 0 \in DBs /\ DBs \subseteq Nat
BY ConstantsAssumption

LEMMA UnitTypes ==
  ASSUME NEW n \in Nat, NEW m \in BOOLEAN
  PROVE  /\ \A d \in DBs : Select(d) \in FedUnits(n, m)
         /\ \A w \in 1 .. n : WriteCmd(w) \in FedUnits(n, m)
         /\ m => Multi \in FedUnits(n, m)
         /\ Exec \in FedUnits(n, m)
         /\ \A ds \in DataSets(n) : ds # <<>> => Command("base", 0, 0, ds) \in FileUnits(n, m)
<1>1. <<>> \in DataSets(n)
  BY DEF DataSets
<1>2. 0 \in 0 .. n /\ 1 .. n \subseteq 0 .. n
  OBVIOUS
<1>3. \A op \in {"select", "write", "multi", "exec", "base"} : \A d \in DBs : \A w \in 0 .. n : \A ds \in DataSets(n) :
        Command(op, d, w, ds) \in AllUnits(n) /\ Command(op, d, w, ds).op = op
        /\ Command(op, d, w, ds).write = w /\ Command(op, d, w, ds).data = ds
  BY DEF Command, AllUnits
<1>4. \A w \in 1 .. n : w # 0
  OBVIOUS
<1> QED BY <1>1, <1>2, <1>3, <1>4, Zero DEF Select, WriteCmd, Multi, Exec, FedUnits, FileUnits

\* The second half of a command.
LEMMA HalfTypes ==
  ASSUME NEW n \in Nat, NEW m \in BOOLEAN, NEW c \in FileUnits(n, m)
  PROVE  /\ [c EXCEPT !.half = 2] \in FileUnits(n, m)
         /\ [c EXCEPT !.half = 2].half = 2
         /\ c \in FedUnits(n, m) => [c EXCEPT !.half = 2] \in FedUnits(n, m)
         /\ c # NoCommand
<1> DEFINE d == [c EXCEPT !.half = 2]
<1>1. c \in AllUnits(n) /\ d \in AllUnits(n)
  BY DEF FileUnits, AllUnits
<1>2. d.op = c.op /\ d.data = c.data /\ d.write = c.write /\ d.half = 2
  BY <1>1 DEF AllUnits
<1>3. c.op # "none" /\ NoCommand.op = "none"
  BY DEF FileUnits, NoCommand, Command
<1> HIDE DEF d
<1>4. d \in FileUnits(n, m) /\ (c \in FedUnits(n, m) => d \in FedUnits(n, m))
  BY <1>1, <1>2 DEF FileUnits, FedUnits
<1> QED BY <1>2, <1>3, <1>4 DEF d

\* What is fed goes into a file, and there may be more of it later.
LEMMA MoreUnits ==
  ASSUME NEW n \in Nat, NEW k \in Nat, n <= k, NEW m \in BOOLEAN
  PROVE  /\ FedUnits(n, m) \subseteq FileUnits(n, m)
         /\ FileUnits(n, m) \subseteq FileUnits(k, m) /\ FedUnits(n, m) \subseteq FedUnits(k, m)
         /\ DataSets(n) \subseteq DataSets(k)
         /\ Seq(FileUnits(n, m)) \subseteq Seq(FileUnits(k, m))
         /\ Seq(FedUnits(n, m)) \subseteq Seq(FedUnits(k, m))
         /\ Seq(FedUnits(n, m)) \subseteq Seq(FileUnits(n, m))
<1>1. \A S, T : S \subseteq T => Seq(S) \subseteq Seq(T)
  <2> SUFFICES ASSUME NEW S, NEW T, S \subseteq T, NEW q \in Seq(S)  PROVE q \in Seq(T)
    OBVIOUS
  <2>1. q = [i \in 1 .. Len(q) |-> q[i]] /\ Len(q) \in Nat /\ \A i \in 1 .. Len(q) : q[i] \in T
    BY ElementOfSeq
  <2> QED BY <2>1, IsASeq
<1>2. DBs \X (1 .. n) \subseteq DBs \X (1 .. k) /\ 0 .. n \subseteq 0 .. k
  OBVIOUS
<1>3. DataSets(n) \subseteq DataSets(k)
  BY <1>1, <1>2 DEF DataSets
<1>4. AllUnits(n) \subseteq AllUnits(k)
  BY <1>2, <1>3 DEF AllUnits
<1>5. FileUnits(n, m) \subseteq FileUnits(k, m)
  BY <1>4 DEF FileUnits
<1>6. FedUnits(n, m) \subseteq FedUnits(k, m) /\ FedUnits(n, m) \subseteq FileUnits(n, m)
  BY <1>5 DEF FedUnits
<1> QED BY <1>1, <1>3, <1>5, <1>6

LEMMA LastDbIn ==
  ASSUME NEW n \in Nat, NEW ds \in DataSets(n), ds # <<>>
  PROVE  LastDb(ds) \in DBs
<1> DEFINE l == Len(ds) - 1
           T == {k \in 0 .. l : \E j \in 1 .. k + 1 : \A i \in 1 .. k + 1 : ds[i][1] <= ds[j][1]}
<1>1. Len(ds) \in Nat \ {0} /\ l \in Nat /\ l + 1 = Len(ds) /\ DOMAIN ds = 1 .. Len(ds)
      /\ \A i \in 1 .. l + 1 : ds[i][1] \in DBs /\ ds[i][1] \in Nat
  <2>1. ds \in Seq(DBs \X (1 .. n)) /\ Len(ds) # 0
    BY EmptySeq DEF DataSets
  <2>2. \A i \in 1 .. Len(ds) : ds[i] \in DBs \X (1 .. n)
    BY <2>1, ElementOfSeq
  <2>3. \A x \in DBs \X (1 .. n) : x[1] \in DBs
    OBVIOUS
  <2>4. \A i \in 1 .. Len(ds) : ds[i][1] \in DBs /\ ds[i][1] \in Nat
    BY <2>2, <2>3, Zero
  <2>5. Len(ds) \in Nat /\ DOMAIN ds = 1 .. Len(ds)
    BY <2>1, LenProperties
  <2>6. l \in Nat /\ l + 1 = Len(ds)
    BY <2>1, <2>5
  <2> QED BY <2>1, <2>4, <2>5, <2>6
<1> HIDE DEF l
<1>2. 0 \in T
  <2>1. \A i \in 1 .. 0 + 1 : i = 1
    OBVIOUS
  <2>2. 1 \in 1 .. 0 + 1 /\ 0 \in 0 .. l /\ ds[1][1] <= ds[1][1]
    BY <1>1
  <2> QED BY <2>1, <2>2
<1>3. ASSUME NEW k \in 0 .. l - 1, k \in T  PROVE k + 1 \in T
  <2>1. PICK j \in 1 .. k + 1 : \A i \in 1 .. k + 1 : ds[i][1] <= ds[j][1]
    BY <1>3
  <2> DEFINE p == (k + 1) + 1
             x == IF ds[p][1] <= ds[j][1] THEN j ELSE p
  <2>2. p \in 1 .. l + 1 /\ j \in 1 .. l + 1 /\ x \in 1 .. p /\ k + 1 \in 0 .. l
        /\ \A i \in 1 .. p : i \in 1 .. l + 1 /\ (i = p \/ i \in 1 .. k + 1)
    BY <1>1
  <2>3. ASSUME NEW i \in 1 .. p  PROVE ds[i][1] <= ds[x][1]
    <3> DEFINE a == ds[i][1]
               b == ds[j][1]
               c == ds[p][1]
    <3>1. a \in Nat /\ b \in Nat /\ c \in Nat /\ (a = c \/ a <= b)
      <4>1. i \in 1 .. l + 1 /\ (i = p \/ i \in 1 .. k + 1)
        BY <2>2, <2>3
      <4> HIDE DEF p
      <4> QED BY <1>1, <2>1, <2>2, <4>1
    <3>2. ds[x][1] = IF c <= b THEN b ELSE c
      OBVIOUS
    <3> HIDE DEF a, b, c, x
    <3>3. a <= ds[x][1]
      BY <3>1, <3>2
    <3> QED BY <3>3 DEF a
  <2> HIDE DEF x, p
  <2>4. \E y \in 1 .. p : \A i \in 1 .. p : ds[i][1] <= ds[y][1]
    BY <2>2, <2>3
  <2> QED BY <2>2, <2>4 DEF p
<1>4. PICK j \in 1 .. l + 1 : \A i \in 1 .. l + 1 : ds[i][1] <= ds[j][1]
  <2>1. l \in T
    <3> HIDE DEF T
    <3>1. \A k \in 0 .. l : k \in T
      BY <1>1, <1>2, <1>3, Induction
    <3> QED BY <1>1, <3>1
  <2> QED BY <2>1
<1>5. \E d \in DBs : /\ \E i \in DOMAIN ds : ds[i][1] = d
                     /\ \A i \in DOMAIN ds : ds[i][1] <= d
  <2>1. ds[j][1] \in DBs /\ j \in DOMAIN ds /\ DOMAIN ds = 1 .. l + 1
    BY <1>1
  <2> QED BY <1>4, <2>1
<1> QED BY <1>5 DEF LastDb

Readers(n, m) == [data : DataSets(n), pdata : DataSets(n), db : DBs, multi : BOOLEAN,
                  half : FileUnits(n, m) \cup {NoCommand}, valid : Nat, bad : BOOLEAN]

\* The data set of a command that is executed.
Executed(r, c) == CASE c.op = "base"  -> c.data
                    [] c.op = "write" -> Append(r.pdata, <<r.db, c.write>>)
                    [] OTHER -> r.pdata
InMulti(r, c) == c.op = "multi" \/ (r.multi /\ c.op # "exec")
NextDb(r, c) == CASE c.op = "select" -> c.db
                  [] c.op = "base" -> LastDb(c.data)
                  [] OTHER -> r.db

LEMMA RunFields ==
  ASSUME NEW n \in Nat, NEW m \in BOOLEAN, NEW r \in Readers(n, m), NEW c \in FileUnits(n, m)
  PROVE  LET s == Run(r, c)
         IN  /\ s \in Readers(n, m)
             /\ s.pdata = Executed(r, c) /\ s.multi = InMulti(r, c) /\ s.db = NextDb(r, c)
             /\ s.data = IF InMulti(r, c) THEN r.data ELSE Executed(r, c)
             /\ s.half = r.half /\ s.valid = r.valid /\ s.bad = r.bad
<1> DEFINE p == Executed(r, c)
           b == InMulti(r, c)
           d == NextDb(r, c)
           s1 == [r EXCEPT !.pdata = p]
           s2 == [s1 EXCEPT !.data = IF b THEN @ ELSE p]
           s3 == [s2 EXCEPT !.multi = b]
           s4 == [s3 EXCEPT !.db = d]
<1>1. c.op \in {"select", "write", "multi", "exec", "base"} /\ c.db \in DBs /\ c.write \in 0 .. n /\ c.data \in DataSets(n)
      /\ (c.op = "base" => c.data # <<>>) /\ (c.op = "write" => c.write # 0)
  BY DEF FileUnits, AllUnits
<1>2. r.db \in DBs /\ r.pdata \in DataSets(n) /\ r.data \in DataSets(n)
  BY DEF Readers
<1>3. p \in DataSets(n)
  <2>1. CASE c.op = "write"
    <3>1. <<r.db, c.write>> \in DBs \X (1 .. n) /\ r.pdata \in Seq(DBs \X (1 .. n))
      BY <1>1, <1>2, <2>1 DEF DataSets
    <3>2. p = Append(r.pdata, <<r.db, c.write>>)
      BY <2>1 DEF Executed
    <3> HIDE DEF p
    <3> QED BY <3>1, <3>2, AppendProperties DEF DataSets
  <2>2. CASE c.op # "write"
    BY <1>1, <1>2, <2>2 DEF Executed
  <2> QED BY <2>1, <2>2
<1>4. d \in DBs
  BY <1>1, <1>2, LastDbIn DEF NextDb
<1>5. b \in BOOLEAN
  BY DEF InMulti
<1>6. Run(r, c) = s4
  BY DEF Run, Executed, InMulti, NextDb
<1> HIDE DEF p, b, d
<1>7. s1 \in Readers(n, m) /\ s1.pdata = p /\ s1.data = r.data /\ s1.half = r.half /\ s1.valid = r.valid /\ s1.bad = r.bad
  BY <1>3 DEF Readers
<1> HIDE DEF s1
<1>8. s2 \in Readers(n, m) /\ s2.pdata = p /\ (s2.data = IF b THEN r.data ELSE p) /\ s2.half = r.half /\ s2.valid = r.valid
      /\ s2.bad = r.bad
  BY <1>2, <1>3, <1>7 DEF Readers
<1> HIDE DEF s2
<1>9. s3 \in Readers(n, m) /\ s3.pdata = p /\ s3.multi = b /\ s3.data = s2.data /\ s3.half = r.half /\ s3.valid = r.valid
      /\ s3.bad = r.bad
  BY <1>5, <1>8 DEF Readers
<1> HIDE DEF s3
<1>10. s4 \in Readers(n, m) /\ s4.pdata = p /\ s4.multi = b /\ s4.db = d /\ s4.data = s2.data /\ s4.half = r.half
       /\ s4.valid = r.valid /\ s4.bad = r.bad
  BY <1>4, <1>9 DEF Readers
<1> HIDE DEF s4
<1> QED BY <1>6, <1>8, <1>10 DEF p, b, d

\* Every sequence is made by appending.
LEMMA SequenceInduction ==
  ASSUME NEW S, NEW T, <<>> \in T, \A f \in Seq(S) : \A u \in S : f \in T => Append(f, u) \in T
  PROVE  Seq(S) \subseteq T
<1> DEFINE L == {k \in Nat : \E f \in Seq(S) : Len(f) = k /\ f \notin T}
<1> SUFFICES ASSUME L # {}  PROVE FALSE
  <2>1. ASSUME NEW f \in Seq(S), f \notin T  PROVE Len(f) \in L
    BY <2>1, LenProperties
  <2> QED BY <2>1
<1>1. PICK k \in L : \A x \in L : k <= x
  <2>1. L \in SUBSET Nat
    OBVIOUS
  <2> HIDE DEF L
  <2> QED BY <2>1, LeastNumber
<1>2. PICK f \in Seq(S) : Len(f) = k /\ f \notin T
  BY <1>1
<1>3. PICK g \in Seq(S), u \in S : f = Append(g, u)
  BY <1>2, SequenceEmptyOrAppend
<1>4. Len(g) \in Nat /\ Len(f) = Len(g) + 1
  BY <1>3, AppendProperties, LenProperties
<1>5. g \in T
  <2> SUFFICES ASSUME g \notin T  PROVE FALSE
    OBVIOUS
  <2>1. Len(g) \in L
    BY <1>4
  <2>2. k <= Len(g)
    BY <1>1, <2>1
  <2> HIDE DEF L
  <2> QED BY <1>2, <1>4, <2>2
<1> QED BY <1>2, <1>3, <1>5

\* The three cases of ReadUnit.
LEMMA ReadFields ==
  ASSUME NEW n \in Nat, NEW m \in BOOLEAN, NEW r \in Readers(n, m), NEW u \in FileUnits(n, m)
  PROVE  LET s == ReadUnit(r, u)
         IN  /\ s \in Readers(n, m)
             /\ \/ s.bad /\ (r.bad \/ (~(r.half = NoCommand /\ u.half = 1)
                                      /\ ~(r.half # NoCommand /\ u = [r.half EXCEPT !.half = 2])))
                   /\ s.multi = r.multi /\ s.data = r.data /\ s.pdata = r.pdata /\ s.half = r.half
                \/ ~r.bad /\ ~s.bad /\ r.half = NoCommand /\ u.half = 1 /\ s = [r EXCEPT !.half = u] /\ s.half = u
                \/ /\ ~r.bad /\ ~s.bad /\ r.half # NoCommand /\ u = [r.half EXCEPT !.half = 2]
                   /\ s.half = NoCommand /\ s.valid = r.valid + 2
                   /\ s.pdata = Executed(r, r.half) /\ s.multi = InMulti(r, r.half) /\ s.db = NextDb(r, r.half)
                   /\ s.data = IF InMulti(r, r.half) THEN r.data ELSE Executed(r, r.half)
<1> DEFINE s == ReadUnit(r, u)
<1>1. CASE r.bad
  <2>1. s = r
    BY <1>1 DEF ReadUnit
  <2> HIDE DEF s
  <2>2. s \in Readers(n, m) /\ s.bad /\ s.multi = r.multi /\ s.data = r.data /\ s.pdata = r.pdata /\ s.half = r.half
    BY <1>1, <2>1
  <2> QED BY <1>1, <2>2 DEF s
<1>2. CASE ~r.bad /\ r.half = NoCommand /\ u.half = 1
  <2>1. s = [r EXCEPT !.half = u]
    BY <1>2 DEF ReadUnit
  <2> HIDE DEF s
  <2>2. s \in Readers(n, m) /\ s.half = u /\ s.bad = r.bad
    BY <2>1 DEF Readers
  <2> QED BY <1>2, <2>1, <2>2 DEF s
<1>3. CASE ~r.bad /\ r.half # NoCommand /\ u = [r.half EXCEPT !.half = 2]
  <2> DEFINE c == r.half
             p == Run(r, c)
             q == [p EXCEPT !.half = NoCommand]
             t == [q EXCEPT !.valid = @ + 2]
  <2>1. c \in FileUnits(n, m)
    BY <1>3 DEF Readers
  <2>2. s = t
    BY <1>3 DEF ReadUnit
  <2>3. /\ p \in Readers(n, m)
        /\ p.pdata = Executed(r, c) /\ p.multi = InMulti(r, c) /\ p.db = NextDb(r, c)
        /\ p.data = IF InMulti(r, c) THEN r.data ELSE Executed(r, c)
        /\ p.valid = r.valid /\ p.bad = r.bad
    BY <2>1, RunFields
  <2> HIDE DEF p
  <2>4. q \in Readers(n, m) /\ q.pdata = p.pdata /\ q.multi = p.multi /\ q.db = p.db /\ q.data = p.data
        /\ q.valid = p.valid /\ q.bad = p.bad /\ q.half = NoCommand
    BY <2>3 DEF Readers
  <2> HIDE DEF q
  <2>5. t \in Readers(n, m) /\ t.pdata = p.pdata /\ t.multi = p.multi /\ t.db = p.db /\ t.data = p.data
        /\ t.valid = p.valid + 2 /\ t.bad = p.bad /\ t.half = NoCommand
    BY <2>4 DEF Readers
  <2> HIDE DEF t, s
  <2> QED BY <1>3, <2>2, <2>3, <2>5 DEF s
<1>4. CASE ~r.bad /\ ~(r.half = NoCommand /\ u.half = 1) /\ ~(r.half # NoCommand /\ u = [r.half EXCEPT !.half = 2])
  <2>1. s = [r EXCEPT !.bad = TRUE]
    BY <1>4 DEF ReadUnit
  <2> HIDE DEF s
  <2>2. s \in Readers(n, m) /\ s.bad /\ s.multi = r.multi /\ s.data = r.data /\ s.pdata = r.pdata /\ s.half = r.half
    BY <2>1 DEF Readers
  <2> QED BY <1>4, <2>2 DEF s
<1> QED BY <1>1, <1>2, <1>3, <1>4

\* What the reader is like after f.
Shape(f, n, m) ==
  LET r == Load(f)
  IN  /\ r \in Readers(n, m)
      /\ r.multi => m
      /\ ~r.multi => r.data = r.pdata
      /\ ~r.bad /\ r.half = NoCommand => r.valid = Len(f)
      /\ ~r.bad /\ r.half # NoCommand =>
           /\ Len(f) > 0 /\ r.valid = Len(f) - 1
           /\ Load(SubSeq(f, 1, Len(f) - 1)) = [r EXCEPT !.half = NoCommand]

LEMMA ReadShape ==
  ASSUME NEW n \in Nat, NEW m \in BOOLEAN, NEW f \in Seq(FileUnits(n, m))
  PROVE  Shape(f, n, m)
<1> DEFINE S == FileUnits(n, m)
           T == {g \in Seq(S) : Shape(g, n, m)}
<1>1. <<>> \in T
  <2>1. <<>> \in Seq(S) /\ Len(<<>>) = 0
    OBVIOUS
  <2>2. /\ Reader \in Readers(n, m) /\ ~Reader.multi /\ Reader.data = Reader.pdata /\ Reader.half = NoCommand
        /\ Reader.valid = 0
    <3>1. <<>> \in DataSets(n)
      BY DEF DataSets
    <3> QED BY <3>1, Zero DEF Readers, Reader
  <2>3. Shape(<<>>, n, m)
    BY <2>1, <2>2, LoadEmpty DEF Shape
  <2> QED BY <2>1, <2>3
<1>2. ASSUME NEW g \in Seq(S), NEW u \in S, g \in T  PROVE Append(g, u) \in T
  <2> DEFINE e == Append(g, u)
             r == Load(g)
             s == Load(e)
  <2>1. /\ e \in Seq(S) /\ Len(g) \in Nat /\ Len(e) = Len(g) + 1 /\ SubSeq(e, 1, Len(e) - 1) = g
    <3>1. e \in Seq(S) /\ Len(g) \in Nat /\ Len(e) = Len(g) + 1
      BY AppendProperties
    <3>2. SubSeq(e, 1, Len(e) - 1) = g
      <4>1. Len(e) - 1 = Len(g)
        BY <3>1
      <4>2. SubSeq(e, 1, Len(g)) = g
        BY AppendProperties, SubSeqFull
      <4> QED BY <4>1, <4>2
    <3> QED BY <3>1, <3>2
  <2>2. s = ReadUnit(r, u) /\ Shape(g, n, m)
    BY <1>2, LoadAppend
  <2>3. /\ r \in Readers(n, m) /\ (r.multi => m) /\ (~r.multi => r.data = r.pdata)
        /\ ~r.bad /\ r.half = NoCommand => r.valid = Len(g)
        /\ ~r.bad /\ r.half # NoCommand => Len(g) > 0 /\ r.valid = Len(g) - 1
    BY <2>2 DEF Shape
  <2>4. u \in FileUnits(n, m)
    OBVIOUS
  <2> HIDE DEF r, s, e, S
  <2>5. /\ s \in Readers(n, m)
        /\ \/ s.bad /\ s.multi = r.multi /\ s.data = r.data /\ s.pdata = r.pdata
           \/ ~r.bad /\ r.half = NoCommand /\ u.half = 1 /\ s = [r EXCEPT !.half = u] /\ s.half = u
           \/ /\ ~r.bad /\ r.half # NoCommand /\ s.half = NoCommand /\ s.valid = r.valid + 2
              /\ s.pdata = Executed(r, r.half) /\ s.multi = InMulti(r, r.half)
              /\ s.data = IF InMulti(r, r.half) THEN r.data ELSE Executed(r, r.half)
    BY <2>2, <2>3, <2>4, ReadFields
  <2>6. Shape(e, n, m)
    <3>1. CASE s.bad /\ s.multi = r.multi /\ s.data = r.data /\ s.pdata = r.pdata
      BY <2>3, <2>5, <3>1 DEF Shape, s
    <3>2. CASE ~r.bad /\ r.half = NoCommand /\ u.half = 1 /\ s = [r EXCEPT !.half = u] /\ s.half = u
      <4>1. s.multi = r.multi /\ s.data = r.data /\ s.pdata = r.pdata /\ s.valid = r.valid
        BY <2>3, <3>2 DEF Readers
      <4>2. [s EXCEPT !.half = NoCommand] = r
        BY <2>3, <3>2 DEF Readers
      <4>3. u # NoCommand
        BY <2>4, HalfTypes
      <4>4. Len(e) > 0 /\ s.valid = Len(e) - 1
        BY <2>1, <2>3, <3>2, <4>1
      <4>5. Load(SubSeq(e, 1, Len(e) - 1)) = [s EXCEPT !.half = NoCommand]
        BY <2>1, <4>2 DEF r
      <4>6. s.half # NoCommand
        BY <3>2, <4>3
      <4> QED BY <2>3, <2>5, <4>1, <4>4, <4>5, <4>6 DEF Shape, s
    <3>3. CASE /\ ~r.bad /\ r.half # NoCommand /\ s.half = NoCommand /\ s.valid = r.valid + 2
               /\ s.pdata = Executed(r, r.half) /\ s.multi = InMulti(r, r.half)
               /\ s.data = IF InMulti(r, r.half) THEN r.data ELSE Executed(r, r.half)
      <4>1. s.valid = Len(e)
        BY <2>1, <2>3, <3>3
      <4>2. s.multi => m
        BY <2>3, <3>3 DEF InMulti, Readers, FileUnits
      <4>3. ~s.multi => s.data = s.pdata
        BY <3>3
      <4> QED BY <2>5, <3>3, <4>1, <4>2, <4>3 DEF Shape, s
    <3> QED BY <2>5, <3>1, <3>2, <3>3
  <2> QED BY <2>1, <2>6 DEF e
<1>3. Seq(S) \subseteq T
  <2> HIDE DEF T, S
  <2> QED BY <1>1, <1>2, SequenceInduction
<1> QED BY <1>3

----------------------------------------------------------------------------
(* Files.                                                                  *)

LEMMA AppendTwo ==
  ASSUME NEW S, NEW f \in Seq(S), NEW c \in S, NEW d \in S
  PROVE  Append(Append(f, c), d) = f \o <<c, d>>
<1>1. <<c, d>> = <<c>> \o <<d>> /\ <<c>> \in Seq(S) /\ <<d>> \in Seq(S)
  <2>1. <<c>> \in Seq(S) /\ <<d>> \in Seq(S)
    OBVIOUS
  <2>2. Append(<<c>>, d) = <<c>> \o <<d>>
    BY <2>1, AppendIsConcat
  <2>3. Append(<<c>>, d) = <<c, d>>
    <3> DEFINE a == <<c>>
               p == <<c, d>>
               q == Append(a, d)
    <3>1. Len(p) = 2 /\ p[1] = c /\ p[2] = d /\ p \in Seq(S)
      OBVIOUS
    <3>2. a \in Seq(S) /\ Len(a) = 1 /\ a[1] = c
      OBVIOUS
    <3> HIDE DEF a, p
    <3>3. q \in Seq(S) /\ Len(q) = 2 /\ q[1] = c /\ q[2] = d
      <4>1. /\ q \in Seq(S) /\ Len(q) = Len(a) + 1 /\ q[Len(a) + 1] = d
            /\ \A i \in 1 .. Len(a) : q[i] = a[i]
        BY <3>2, AppendProperties, ZenonT(30)
      <4>2. Len(a) + 1 = 2 /\ 1 \in 1 .. Len(a)
        BY <3>2
      <4> HIDE DEF q
      <4> QED BY <3>2, <4>1, <4>2
    <3> HIDE DEF q
    <3>4. \A i \in 1 .. 2 : i = 1 \/ i = 2
      OBVIOUS
    <3>5. \A i \in 1 .. Len(p) : p[i] = q[i]
      BY <3>1, <3>3, <3>4
    <3>6. p = q
      BY <3>1, <3>3, <3>5, SeqEqual
    <3> QED BY <3>6 DEF p, q, a
  <2> QED BY <2>1, <2>2, <2>3
<1>2. Append(f, c) = f \o <<c>> /\ Append(f, c) \in Seq(S)
  BY AppendIsConcat, AppendProperties
<1>3. Append(Append(f, c), d) = (f \o <<c>>) \o <<d>>
  BY <1>2, AppendIsConcat
<1>4. (f \o <<c>>) \o <<d>> = f \o (<<c>> \o <<d>>)
  BY <1>1, ConcatAssociative
<1> QED BY <1>1, <1>3, <1>4

Second(c) == [c EXCEPT !.half = 2]

LEMMA ReadSecondHalf ==
  ASSUME NEW n \in Nat, NEW m \in BOOLEAN, NEW r \in Readers(n, m), NEW u \in FileUnits(n, m), NEW s,
         s = ReadUnit(r, u), ~r.bad, r.half # NoCommand, u = Second(r.half)
  PROVE  /\ ~s.bad /\ s.half = NoCommand
         /\ s.pdata = Executed(r, r.half) /\ s.multi = InMulti(r, r.half) /\ s.db = NextDb(r, r.half)
         /\ s.data = IF InMulti(r, r.half) THEN r.data ELSE Executed(r, r.half)
BY ReadFields DEF Second

\* A command is executed when both of its halves were read.
LEMMA ReadCommand ==
  ASSUME NEW n \in Nat, NEW m \in BOOLEAN, NEW f \in Seq(FileUnits(n, m)), NEW c \in FileUnits(n, m),
         c.half = 1, ~Load(f).bad, Load(f).half = NoCommand
  PROVE  LET r == Load(f)
             s == Load(f \o Units(c))
         IN  /\ f \o Units(c) \in Seq(FileUnits(n, m))
             /\ ~s.bad /\ s.half = NoCommand
             /\ s.pdata = Executed(r, c) /\ s.multi = InMulti(r, c) /\ s.db = NextDb(r, c)
             /\ s.data = IF InMulti(r, c) THEN r.data ELSE Executed(r, c)
<1> DEFINE S == FileUnits(n, m)
           d == [c EXCEPT !.half = 2]
           r == Load(f)
           g == Append(f, c)
           t == Load(g)
           e == Append(g, d)
           s == Load(e)
<1>1. c \in S /\ d \in S /\ c # NoCommand /\ d.half = 2
  BY HalfTypes
<1>2. r \in Readers(n, m)
  BY ReadShape DEF Shape
<1>3. g \in Seq(S) /\ e \in Seq(S) /\ t = ReadUnit(r, c) /\ s = ReadUnit(t, d)
  <2>0. f \in Seq(S)
    OBVIOUS
  <2> HIDE DEF S, d
  <2>1. g \in Seq(S) /\ t = ReadUnit(r, c)
    BY <1>1, <2>0, AppendProperties, LoadAppend
  <2> HIDE DEF g
  <2> QED BY <1>1, <2>1, AppendProperties, LoadAppend
<1>4. f \o Units(c) = e
  <2>1. Units(c) = <<c, d>>
    BY DEF Units
  <2>2. f \o <<c, d>> = Append(Append(f, c), d)
    <3>0. f \in Seq(S) /\ c \in S /\ d \in S
      BY <1>1
    <3> HIDE DEF S, d
    <3> QED BY <3>0, AppendTwo DEF e, g
  <2> QED BY <2>1, <2>2
<1> HIDE DEF r, t, s, g, e, d, S
<1>5. ~r.bad /\ r.half = NoCommand
  BY DEF r
<1>6. c \in FileUnits(n, m) /\ d \in FileUnits(n, m)
  BY <1>1 DEF S
<1>7. t \in Readers(n, m) /\ ~t.bad /\ t = [r EXCEPT !.half = c] /\ t.half = c
  BY <1>2, <1>3, <1>5, <1>6, ReadFields
<1>8. t.data = r.data /\ t.pdata = r.pdata /\ t.multi = r.multi /\ t.db = r.db
  BY <1>2, <1>7 DEF Readers
<1>9. /\ ~s.bad /\ s.half = NoCommand
      /\ s.pdata = Executed(t, c) /\ s.multi = InMulti(t, c) /\ s.db = NextDb(t, c)
      /\ s.data = IF InMulti(t, c) THEN t.data ELSE Executed(t, c)
  <2>1. t.half # NoCommand /\ d = Second(t.half) /\ t.half = c
    BY <1>1, <1>7 DEF d, Second
  <2>2. s = ReadUnit(t, d) /\ d \in FileUnits(n, m) /\ t \in Readers(n, m) /\ ~t.bad
    BY <1>3, <1>6, <1>7
  <2> QED BY <2>1, <2>2, ReadSecondHalf
<1>10. Executed(t, c) = Executed(r, c) /\ InMulti(t, c) = InMulti(r, c) /\ NextDb(t, c) = NextDb(r, c)
  BY <1>8 DEF Executed, InMulti, NextDb
<1> QED BY <1>3, <1>4, <1>8, <1>9, <1>10 DEF r, s, S

\* A reader between commands; in a MULTI if b.
At(f, ds, pds, d, b) ==
  LET r == Load(f)
  IN  ~r.bad /\ r.half = NoCommand /\ r.data = ds /\ r.pdata = pds /\ (d # -1 => r.db = d) /\ (r.multi <=> b)

LEMMA AtMakes ==
  ASSUME NEW f, NEW ds, NEW d
  PROVE  Makes(f, ds, d) <=> At(f, ds, ds, d, FALSE)
BY DEF Makes, At, AtEnd

\* Each kind of command.
LEMMA Reads ==
  ASSUME NEW n \in Nat, NEW m \in BOOLEAN, NEW f \in Seq(FileUnits(n, m)), NEW c \in FileUnits(n, m),
         c.half = 1, NEW ds, NEW pds, NEW e, NEW b \in BOOLEAN, At(f, ds, pds, e, b)
  PROVE  LET g == f \o Units(c)
         IN  /\ g \in Seq(FileUnits(n, m))
             /\ c.op = "select" => At(g, ds, pds, c.db, b)
             /\ c.op = "write" /\ e # -1 /\ b => At(g, ds, Append(pds, <<e, c.write>>), e, TRUE)
             /\ c.op = "write" /\ e # -1 /\ ~b =>
                  At(g, Append(pds, <<e, c.write>>), Append(pds, <<e, c.write>>), e, FALSE)
             /\ c.op = "multi" => At(g, ds, pds, e, TRUE)
             /\ c.op = "exec" => At(g, pds, pds, e, FALSE)
             /\ c.op = "base" /\ ~b => At(g, c.data, c.data, -1, FALSE)
<1> DEFINE g == f \o Units(c)
           r == Load(f)
           s == Load(g)
<1>1. /\ ~r.bad /\ r.half = NoCommand /\ r.data = ds /\ r.pdata = pds /\ (e # -1 => r.db = e) /\ (r.multi <=> b)
  BY DEF At
<1>2. r \in Readers(n, m) /\ (~r.multi => r.data = r.pdata)
  BY ReadShape DEF Shape
<1>3. /\ g \in Seq(FileUnits(n, m))
      /\ ~s.bad /\ s.half = NoCommand
      /\ s.pdata = Executed(r, c) /\ s.multi = InMulti(r, c) /\ s.db = NextDb(r, c)
      /\ s.data = IF InMulti(r, c) THEN r.data ELSE Executed(r, c)
  BY <1>1, ReadCommand
<1> HIDE DEF r
<1>4. /\ c.op = "write" /\ e # -1 => Executed(r, c) = Append(pds, <<e, c.write>>)
      /\ c.op = "base" => Executed(r, c) = c.data
      /\ c.op \notin {"write", "base"} => Executed(r, c) = pds
      /\ c.op = "select" => NextDb(r, c) = c.db
      /\ c.op \notin {"select", "base"} => NextDb(r, c) = r.db
  BY <1>1 DEF Executed, NextDb
<1>5. /\ c.op = "multi" => InMulti(r, c)
      /\ c.op = "exec" => ~InMulti(r, c)
      /\ c.op \notin {"multi", "exec"} => (InMulti(r, c) <=> b)
  BY <1>1 DEF InMulti
<1>6. ~b => ds = pds
  BY <1>1, <1>2
<1> HIDE DEF s, g
<1>7. \A x, y, d : \A k \in BOOLEAN :
        s.data = x /\ s.pdata = y /\ (d # -1 => s.db = d) /\ (s.multi <=> k) => At(g, x, y, d, k)
  BY <1>3 DEF At, s
<1>8. c.op = "select" => At(g, ds, pds, c.db, b)
  <2> SUFFICES ASSUME c.op = "select"  PROVE s.data = ds /\ s.pdata = pds /\ s.db = c.db /\ (s.multi <=> b)
    BY <1>7
  <2> QED BY <1>1, <1>3, <1>4, <1>5, <1>6
<1>9. c.op = "write" /\ e # -1 /\ b => At(g, ds, Append(pds, <<e, c.write>>), e, TRUE)
  <2> SUFFICES ASSUME c.op = "write", e # -1, b
               PROVE  s.data = ds /\ s.pdata = Append(pds, <<e, c.write>>) /\ s.db = e /\ (s.multi <=> TRUE)
    BY <1>7
  <2> QED BY <1>1, <1>3, <1>4, <1>5
<1>10. c.op = "write" /\ e # -1 /\ ~b => At(g, Append(pds, <<e, c.write>>), Append(pds, <<e, c.write>>), e, FALSE)
  <2> SUFFICES ASSUME c.op = "write", e # -1, ~b
               PROVE  /\ s.data = Append(pds, <<e, c.write>>) /\ s.pdata = Append(pds, <<e, c.write>>) /\ s.db = e
                      /\ (s.multi <=> FALSE)
    BY <1>7
  <2> QED BY <1>1, <1>3, <1>4, <1>5
<1>11. c.op = "multi" => At(g, ds, pds, e, TRUE)
  <2> SUFFICES ASSUME c.op = "multi"
               PROVE  s.data = ds /\ s.pdata = pds /\ (e # -1 => s.db = e) /\ (s.multi <=> TRUE)
    BY <1>7
  <2> QED BY <1>1, <1>3, <1>4, <1>5
<1>12. c.op = "exec" => At(g, pds, pds, e, FALSE)
  <2> SUFFICES ASSUME c.op = "exec"
               PROVE  s.data = pds /\ s.pdata = pds /\ (e # -1 => s.db = e) /\ (s.multi <=> FALSE)
    BY <1>7
  <2> QED BY <1>1, <1>3, <1>4, <1>5
<1>13. c.op = "base" /\ ~b => At(g, c.data, c.data, -1, FALSE)
  <2> SUFFICES ASSUME c.op = "base", ~b
               PROVE  s.data = c.data /\ s.pdata = c.data /\ (s.multi <=> FALSE)
    BY <1>7
  <2> QED BY <1>1, <1>3, <1>4, <1>5
<1> QED BY <1>3, <1>8, <1>9, <1>10, <1>11, <1>12, <1>13 DEF g

\* What a rewrite writes makes the data set.
LEMMA RewrittenMakes ==
  ASSUME NEW n \in Nat, NEW m \in BOOLEAN, NEW ds \in DataSets(n)
  PROVE  Rewritten(ds) \in Seq(FileUnits(n, m)) /\ Makes(Rewritten(ds), ds, -1)
<1>1. CASE ds = <<>>
  <2>1. Rewritten(ds) = <<>> /\ <<>> \in Seq(FileUnits(n, m))
    BY <1>1 DEF Rewritten
  <2>2. ASSUME NEW f, f = <<>>  PROVE Makes(f, f, -1)
    <3>1. Load(f) = Reader
      BY <2>2, LoadEmpty
    <3>2. ~Reader.bad /\ Reader.half = NoCommand /\ ~Reader.multi /\ Reader.data = f /\ Reader.pdata = f
      BY <2>2 DEF Reader
    <3> QED BY <3>1, <3>2 DEF Makes, AtEnd
  <2> QED BY <1>1, <2>1, <2>2
<1>2. CASE ds # <<>>
  <2> DEFINE c == Command("base", 0, 0, ds)
  <2>1. c \in FileUnits(n, m)
    BY <1>2, UnitTypes
  <2>2. c.half = 1 /\ c.op = "base" /\ c.data = ds
    BY DEF Command
  <2>3. <<>> \in Seq(FileUnits(n, m)) /\ At(<<>>, <<>>, <<>>, -1, FALSE)
    BY LoadEmpty DEF Reader, At
  <2>4. Rewritten(ds) = <<>> \o Units(c)
    <3>1. Units(c) \in Seq({c, [c EXCEPT !.half = 2]})
      BY DEF Units
    <3> HIDE DEF c
    <3>2. <<>> \o Units(c) = Units(c)
      BY <3>1, ConcatEmptySeq
    <3> QED BY <1>2, <3>2 DEF Rewritten, c
  <2> HIDE DEF c
  <2>5. ASSUME NEW f, f = <<>>
        PROVE  f \o Units(c) \in Seq(FileUnits(n, m)) /\ At(f \o Units(c), ds, ds, -1, FALSE)
    <3>1. f \in Seq(FileUnits(n, m)) /\ At(f, <<>>, <<>>, -1, FALSE)
      BY <2>3, <2>5
    <3>2. ASSUME NEW es, At(f, es, es, -1, FALSE)
          PROVE  f \o Units(c) \in Seq(FileUnits(n, m)) /\ At(f \o Units(c), ds, ds, -1, FALSE)
      BY <2>1, <2>2, <3>1, <3>2, Reads
    <3> QED BY <3>1, <3>2
  <2> QED BY <2>4, <2>5, AtMakes
<1> QED BY <1>1, <1>2

\* What is fed, after what is in a file.
LEMMA Join ==
  ASSUME NEW n \in Nat, NEW m \in BOOLEAN, NEW f \in Seq(FileUnits(n, m)), NEW g \in Seq(FedUnits(n, m))
  PROVE  /\ g \in Seq(FileUnits(n, m)) /\ f \o g \in Seq(FileUnits(n, m))
         /\ Len(f) \in Nat /\ Len(g) \in Nat /\ Len(f \o g) = Len(f) + Len(g)
<1>1. g \in Seq(FileUnits(n, m))
  BY MoreUnits
<1> QED BY <1>1, ConcatProperties, LenProperties

LEMMA FedInFile ==
  ASSUME NEW n \in Nat, NEW m \in BOOLEAN
  PROVE  FedUnits(n, m) \subseteq FileUnits(n, m) /\ Seq(FedUnits(n, m)) \subseteq Seq(FileUnits(n, m))
BY MoreUnits

\* Concatenation, in a form that the provers do not unfold.
Cat(s, t) == s \o t
In(s, S) == s \in Seq(S)

LEMMA CatIn == ASSUME NEW S, NEW s, NEW t, In(s, S), In(t, S)  PROVE In(Cat(s, t), S)
BY ConcatProperties DEF Cat, In

LEMMA CatAssociative ==
  ASSUME NEW S, NEW s, NEW t, NEW u, In(s, S), In(t, S), In(u, S)
  PROVE  Cat(s, Cat(t, u)) = Cat(Cat(s, t), u)
BY ConcatAssociative DEF Cat, In

LEMMA CatChain ==
  ASSUME NEW S, NEW f, NEW a, NEW b, NEW c, NEW d, NEW e,
         In(f, S), In(a, S), In(b, S), In(c, S), In(d, S), In(e, S)
  PROVE  Cat(f, Cat(a, Cat(Cat(Cat(b, c), d), e))) = Cat(Cat(Cat(Cat(Cat(f, a), b), c), d), e)
<1>1. In(Cat(f, a), S) /\ In(Cat(b, c), S) /\ In(Cat(Cat(b, c), d), S)
  BY CatIn
<1>2. In(Cat(Cat(Cat(b, c), d), e), S)
  BY <1>1, CatIn
<1> QED BY <1>1, <1>2, CatAssociative

LEMMA ChainIn ==
  ASSUME NEW S, NEW a \in Seq(S), NEW b \in Seq(S), NEW c \in Seq(S), NEW d \in Seq(S), NEW e \in Seq(S)
  PROVE  a \o (b \o c \o d \o e) \in Seq(S)
<1>1. In(a, S) /\ In(b, S) /\ In(c, S) /\ In(d, S) /\ In(e, S)
  BY DEF In
<1>2. In(Cat(a, Cat(Cat(Cat(b, c), d), e)), S)
  BY <1>1, CatIn
<1> QED BY <1>2, Zenon DEF Cat, In

LEMMA Concat3 ==
  ASSUME NEW S, NEW f \in Seq(S), NEW a \in Seq(S), NEW b \in Seq(S)
  PROVE  f \o (a \o b) = (f \o a) \o b
<1>1. In(f, S) /\ In(a, S) /\ In(b, S)
  BY DEF In
<1>2. Cat(f, Cat(a, b)) = Cat(Cat(f, a), b)
  BY <1>1, CatAssociative
<1> QED BY <1>2, Zenon DEF Cat

\* The two halves of a command that is fed.
LEMMA FedTypes ==
  ASSUME NEW n \in Nat, NEW m \in BOOLEAN, NEW c \in FedUnits(n, m)
  PROVE  Units(c) \in Seq(FedUnits(n, m))
<1> DEFINE S == FedUnits(n, m)
           d == [c EXCEPT !.half = 2]
<1>1. c \in S /\ d \in S
  BY HalfTypes DEF FedUnits
<1>2. Units(c) = <<c, d>>
  BY DEF Units
<1> HIDE DEF d, S
<1>3. <<c, d>> \in Seq(S)
  BY <1>1
<1> QED BY <1>2, <1>3 DEF S

\* What feedAppendOnlyFile adds, for a write ...
SelectFor(e, d) == IF d = e THEN <<>> ELSE Units(Select(d))

LEMMA SelectMakes ==
  ASSUME NEW n \in Nat, NEW m \in BOOLEAN, NEW f \in Seq(FileUnits(n, m)), NEW ds,
         NEW e, NEW d \in DBs, Makes(f, ds, e)
  PROVE  /\ SelectFor(e, d) \in Seq(FedUnits(n, m))
         /\ f \o SelectFor(e, d) \in Seq(FileUnits(n, m))
         /\ At(f \o SelectFor(e, d), ds, ds, d, FALSE)
<1>1. At(f, ds, ds, e, FALSE)
  BY AtMakes
<1>2. CASE d = e
  <2>1. SelectFor(e, d) = <<>> /\ <<>> \in Seq(FedUnits(n, m))
    BY <1>2 DEF SelectFor
  <2>2. f \o <<>> = f
    BY ConcatEmptySeq
  <2> QED BY <1>1, <1>2, <2>1, <2>2
<1>3. CASE d # e
  <2> DEFINE c == Select(d)
  <2>1. c \in FedUnits(n, m) /\ c \in FileUnits(n, m) /\ c.half = 1 /\ c.op = "select" /\ c.db = d
    BY UnitTypes, FedInFile DEF Select, Command
  <2>2. SelectFor(e, d) = Units(c)
    BY <1>3 DEF SelectFor
  <2> HIDE DEF c
  <2>3. Units(c) \in Seq(FedUnits(n, m))
    BY <2>1, FedTypes
  <2>4. f \o Units(c) \in Seq(FileUnits(n, m)) /\ At(f \o Units(c), ds, ds, c.db, FALSE)
    BY <1>1, <2>1, Reads
  <2> QED BY <2>1, <2>2, <2>3, <2>4
<1> QED BY <1>2, <1>3

LEMMA WriteMakes ==
  ASSUME NEW n \in Nat, NEW m \in BOOLEAN, NEW f \in Seq(FileUnits(n, m)), NEW ds, NEW e, NEW d \in DBs,
         NEW w \in 1 .. n, Makes(f, ds, e), NEW u, u = SelectFor(e, d) \o Units(WriteCmd(w))
  PROVE  u \in Seq(FedUnits(n, m)) /\ Makes(f \o u, Append(ds, <<d, w>>), d)
<1> DEFINE c == WriteCmd(w)
           s == SelectFor(e, d)
           g == f \o s
<1>1. c \in FedUnits(n, m) /\ c \in FileUnits(n, m) /\ c.half = 1 /\ c.op = "write" /\ c.write = w
  BY UnitTypes, FedInFile DEF WriteCmd, Command
<1>2. s \in Seq(FedUnits(n, m)) /\ g \in Seq(FileUnits(n, m)) /\ At(g, ds, ds, d, FALSE)
  BY SelectMakes
<1>3. u = s \o Units(c)
  OBVIOUS
<1> HIDE DEF c, s
<1>4. Units(c) \in Seq(FedUnits(n, m))
  BY <1>1, FedTypes
<1>5. u \in Seq(FedUnits(n, m))
  BY <1>2, <1>3, <1>4, ConcatProperties
<1>6. f \o u = g \o Units(c)
  <2>1. f \in Seq(FileUnits(n, m)) /\ s \in Seq(FileUnits(n, m)) /\ Units(c) \in Seq(FileUnits(n, m))
    BY <1>2, <1>4, Join
  <2>2. f \o (s \o Units(c)) = (f \o s) \o Units(c)
    BY <2>1, Concat3
  <2> QED BY <1>3, <2>2
<1> HIDE DEF g
<1>7. d # -1
  BY Zero
<1>8. At(g \o Units(c), Append(ds, <<d, c.write>>), Append(ds, <<d, c.write>>), d, FALSE)
  BY <1>1, <1>2, <1>7, Reads
<1> QED BY <1>1, <1>5, <1>6, <1>8, AtMakes

\* ... and for a transaction of two.
LEMMA TransactionMakes ==
  ASSUME NEW n \in Nat, NEW m \in BOOLEAN, m, NEW f \in Seq(FileUnits(n, m)), NEW ds, NEW e, NEW d \in DBs,
         NEW w \in 1 .. n, NEW v \in 1 .. n, Makes(f, ds, e),
         NEW u, u = SelectFor(e, d) \o (Units(Multi) \o Units(WriteCmd(w)) \o Units(WriteCmd(v)) \o Units(Exec))
  PROVE  u \in Seq(FedUnits(n, m)) /\ Makes(f \o u, Append(Append(ds, <<d, w>>), <<d, v>>), d)
<1> DEFINE F == FileUnits(n, m)
           G == FedUnits(n, m)
           c1 == Multi
           c2 == WriteCmd(w)
           c3 == WriteCmd(v)
           c4 == Exec
           s == SelectFor(e, d)
           f0 == f \o s
           x == Append(ds, <<d, w>>)
           y == Append(x, <<d, v>>)
<1>1. /\ c1 \in G /\ c1 \in F /\ c1.half = 1 /\ c1.op = "multi"
      /\ c2 \in G /\ c2 \in F /\ c2.half = 1 /\ c2.op = "write" /\ c2.write = w
      /\ c3 \in G /\ c3 \in F /\ c3.half = 1 /\ c3.op = "write" /\ c3.write = v
      /\ c4 \in G /\ c4 \in F /\ c4.half = 1 /\ c4.op = "exec"
  <2>1. c1 \in G /\ c2 \in G /\ c3 \in G /\ c4 \in G
    BY UnitTypes
  <2>2. G \subseteq F
    BY FedInFile, Zenon
  <2>3. c1.half = 1 /\ c1.op = "multi" /\ c4.half = 1 /\ c4.op = "exec"
    BY DEF Multi, Exec, Command
  <2>4. \A k : WriteCmd(k).half = 1 /\ WriteCmd(k).op = "write" /\ WriteCmd(k).write = k
    BY DEF WriteCmd, Command
  <2> HIDE DEF G, F
  <2> QED BY <2>1, <2>2, <2>3, <2>4
<1>2. s \in Seq(G) /\ f0 \in Seq(F) /\ At(f0, ds, ds, d, FALSE)
  <2> HIDE DEF c1, c2, c3, c4
  <2> QED BY SelectMakes
<1>3. d # -1
  BY Zero
<1>4. u = s \o (Units(c1) \o Units(c2) \o Units(c3) \o Units(c4))
  OBVIOUS
<1> HIDE DEF c1, c2, c3, c4, s, x
<1>5. Units(c1) \in Seq(G) /\ Units(c2) \in Seq(G) /\ Units(c3) \in Seq(G) /\ Units(c4) \in Seq(G)
  BY <1>1, FedTypes
<1> DEFINE v1 == Units(c1)
           v2 == Units(c2)
           v3 == Units(c3)
           v4 == Units(c4)
<1>6. v1 \in Seq(G) /\ v2 \in Seq(G) /\ v3 \in Seq(G) /\ v4 \in Seq(G) /\ u = s \o (v1 \o v2 \o v3 \o v4)
  <2>1. u = s \o (v1 \o v2 \o v3 \o v4)
    BY <1>4, Zenon
  <2>2. v1 \in Seq(G) /\ v2 \in Seq(G) /\ v3 \in Seq(G) /\ v4 \in Seq(G)
    BY <1>5, Zenon
  <2> HIDE DEF v1, v2, v3, v4
  <2> QED BY <2>1, <2>2
<1> HIDE DEF v1, v2, v3, v4
<1>7. u \in Seq(G) /\ f \o u = ((((f \o s) \o v1) \o v2) \o v3) \o v4
  <2>1. Seq(G) \subseteq Seq(F)
    BY FedInFile, Zenon
  <2>2. f \in Seq(F)
    OBVIOUS
  <2> HIDE DEF F, G, f0
  <2>3. u \in Seq(G)
    <3>1. s \o (v1 \o v2 \o v3 \o v4) \in Seq(G)
      BY <1>2, <1>6, ChainIn
    <3>2. u = s \o (v1 \o v2 \o v3 \o v4)
      BY <1>6, Zenon
    <3> QED BY <3>1, <3>2
  <2>4. s \in Seq(F) /\ v1 \in Seq(F) /\ v2 \in Seq(F) /\ v3 \in Seq(F) /\ v4 \in Seq(F)
    BY <1>2, <1>6, <2>1
  <2>5. f \o (s \o (v1 \o v2 \o v3 \o v4)) = ((((f \o s) \o v1) \o v2) \o v3) \o v4
    <3>1. In(f, F) /\ In(s, F) /\ In(v1, F) /\ In(v2, F) /\ In(v3, F) /\ In(v4, F)
      BY <2>2, <2>4 DEF In
    <3>2. Cat(f, Cat(s, Cat(Cat(Cat(v1, v2), v3), v4))) = Cat(Cat(Cat(Cat(Cat(f, s), v1), v2), v3), v4)
      BY <3>1, CatChain
    <3> QED BY <3>2, Zenon DEF Cat
  <2>6. u = s \o (v1 \o v2 \o v3 \o v4)
    BY <1>6, Zenon
  <2> QED BY <2>3, <2>5, <2>6, Zenon
<1> DEFINE f1 == f0 \o Units(c1)
           f2 == f1 \o Units(c2)
           f3 == f2 \o Units(c3)
           f4 == f3 \o Units(c4)
<1>12. f \o u = f4
  BY <1>7 DEF v1, v2, v3, v4
<1> HIDE DEF f0
<1>8. f1 \in Seq(F) /\ At(f1, ds, ds, d, TRUE)
  BY <1>1, <1>2, Reads
<1> HIDE DEF f1
<1>9. f2 \in Seq(F) /\ At(f2, ds, x, d, TRUE)
  <2>1. f2 \in Seq(F) /\ At(f2, ds, Append(ds, <<d, c2.write>>), d, TRUE)
    BY <1>1, <1>3, <1>8, Reads
  <2> QED BY <1>1, <2>1 DEF x
<1> HIDE DEF f2
<1>10. f3 \in Seq(F) /\ At(f3, ds, y, d, TRUE)
  <2>1. f3 \in Seq(F) /\ At(f3, ds, Append(x, <<d, c3.write>>), d, TRUE)
    BY <1>1, <1>3, <1>9, Reads
  <2> QED BY <1>1, <2>1
<1> HIDE DEF f3, y
<1>11. At(f4, y, y, d, FALSE)
  BY <1>1, <1>3, <1>10, Reads
<1>13. u \in Seq(FedUnits(n, m)) /\ Makes(f \o u, y, d)
  BY <1>7, <1>11, <1>12, AtMakes DEF f1, f2, f3
<1> QED BY <1>13 DEF x, y

\* What loadAppendOnlyFile keeps of a file.
LEMMA Valid ==
  ASSUME NEW n \in Nat, NEW m \in BOOLEAN, NEW f \in Seq(FileUnits(n, m)), ~Load(f).bad
  PROVE  LET r == Load(f)
             g == SubSeq(f, 1, r.valid)
         IN  /\ r.data \in DataSets(n) /\ r.valid \in 0 .. Len(f)
             /\ g \in Seq(FileUnits(n, m)) /\ Len(g) = r.valid
             /\ ~r.multi => Makes(g, r.data, -1)
             /\ AtEnd(r) => g = f
<1> DEFINE r == Load(f)
           g == SubSeq(f, 1, r.valid)
<1>1. /\ r \in Readers(n, m) /\ (~r.multi => r.data = r.pdata)
      /\ r.half = NoCommand => r.valid = Len(f)
      /\ r.half # NoCommand => /\ Len(f) > 0 /\ r.valid = Len(f) - 1
                               /\ Load(SubSeq(f, 1, Len(f) - 1)) = [r EXCEPT !.half = NoCommand]
  BY ReadShape DEF Shape
<1>2. Len(f) \in Nat /\ \A i \in 1 .. Len(f) : f[i] \in FileUnits(n, m)
  BY ElementOfSeq, LenProperties
<1>3. ~r.bad
  OBVIOUS
<1> HIDE DEF r
<1>4. r.valid \in 0 .. Len(f) /\ r.data \in DataSets(n)
  BY <1>1, <1>2 DEF Readers
<1>5. g \in Seq(FileUnits(n, m)) /\ Len(g) = r.valid
  <2> DEFINE v == r.valid
  <2>1. v \in 0 .. Len(f) /\ \A i \in 1 .. v : f[i] \in FileUnits(n, m)
    BY <1>2, <1>4
  <2> HIDE DEF v
  <2>2. SubSeq(f, 1, v) \in Seq(FileUnits(n, m)) /\ Len(SubSeq(f, 1, v)) = IF 1 <= v THEN v - 1 + 1 ELSE 0
    BY <1>2, <2>1, SubSeqProperties
  <2>3. Len(SubSeq(f, 1, v)) = v
    BY <1>2, <2>1, <2>2
  <2> QED BY <2>2, <2>3 DEF v
<1>6. r.half = NoCommand => g = f
  BY <1>1, SubSeqFull
<1>7. ASSUME ~r.multi  PROVE Makes(g, r.data, -1)
  <2>1. CASE r.half = NoCommand
    <3> HIDE DEF g
    <3> QED BY <1>1, <1>3, <1>6, <1>7, <2>1 DEF Makes, AtEnd, r
  <2>2. CASE r.half # NoCommand
    <3> DEFINE t == [r EXCEPT !.half = NoCommand]
    <3>1. Load(g) = t
      BY <1>1, <2>2
    <3>2. ~t.bad /\ t.half = NoCommand /\ ~t.multi /\ t.data = r.data /\ t.pdata = r.data
      BY <1>1, <1>3, <1>7 DEF Readers
    <3> HIDE DEF t, g
    <3> QED BY <3>1, <3>2 DEF Makes, AtEnd
  <2> QED BY <2>1, <2>2
<1> HIDE DEF g
<1>8. AtEnd(r) => g = f
  BY <1>6 DEF AtEnd
<1> QED BY <1>4, <1>5, <1>7, <1>8 DEF r, g

\* A MULTI that is open is in the file.
LEMMA NoMulti ==
  ASSUME NEW n \in Nat, NEW m \in BOOLEAN, ~m, NEW f \in Seq(FileUnits(n, m))
  PROVE  ~Load(f).multi
BY ReadShape DEF Shape

----------------------------------------------------------------------------
(* What more commands in a file make of the writes.                        *)

LEMMA WritesAppend ==
  ASSUME NEW n \in Nat, NEW ds \in DataSets(n), NEW x \in DBs \X (1 .. n)
  PROVE  WritesOf(Append(ds, x)) = WritesOf(ds) \cup {x[2]}
<1> DEFINE e == Append(ds, x)
<1>1. /\ Len(ds) \in Nat /\ DOMAIN ds = 1 .. Len(ds) /\ DOMAIN e = 1 .. Len(ds) + 1
      /\ \A i \in 1 .. Len(ds) : e[i] = ds[i]
      /\ e[Len(ds) + 1] = x
  BY AppendProperties, LenProperties DEF DataSets
<1> HIDE DEF e
<1>2. 1 .. Len(ds) + 1 = 1 .. Len(ds) \cup {Len(ds) + 1}
  BY <1>1
<1> QED BY <1>1, <1>2 DEF WritesOf, e

\* Nothing that was there when the reader was r is lost for the reader s.
Growing(r, s) ==
  /\ WritesOf(r.data) \subseteq WritesOf(s.data) /\ WritesOf(s.data) \subseteq WritesOf(s.pdata)
  /\ s.half.op # "base"

LEMMA Grows ==
  ASSUME NEW n \in Nat, NEW m \in BOOLEAN, NEW f \in Seq(FileUnits(n, m)), Complete(f), NEW g \in Seq(FedUnits(n, m))
  PROVE  WritesOf(Load(f).data) \subseteq WritesOf(Load(f \o g).data)
<1> DEFINE F == FileUnits(n, m)
           G == FedUnits(n, m)
           r == Load(f)
           T == {h \in Seq(G) : Growing(r, Load(f \o h))}
<1>1. r.half = NoCommand /\ ~r.multi /\ r.data = r.pdata /\ NoCommand.op # "base" /\ r \in Readers(n, m)
  BY ReadShape DEF Complete, AtEnd, Shape, NoCommand, Command
<1>2. <<>> \in T
  <2>1. f \o <<>> = f /\ <<>> \in Seq(G)
    BY ConcatEmptySeq
  <2> QED BY <1>1, <2>1 DEF Growing
<1>3. ASSUME NEW h \in Seq(G), NEW u \in G, h \in T  PROVE Append(h, u) \in T
  <2> DEFINE e == f \o h
             s == Load(e)
             t == Load(Append(e, u))
  <2>1. Append(h, u) \in Seq(G) /\ Append(h, u) = h \o <<u>>
    BY AppendProperties, AppendIsConcat
  <2>2. h \in Seq(F) /\ u \in F /\ e \in Seq(F) /\ Seq(G) \subseteq Seq(F)
    BY FedInFile, Join
  <2>3. f \o Append(h, u) = Append(e, u)
    <3>1. <<u>> \in Seq(F) /\ f \in Seq(F)
      BY <2>2
    <3>2. f \o (h \o <<u>>) = (f \o h) \o <<u>>
      <4> HIDE DEF F
      <4> QED BY <2>2, <3>1, Concat3
    <3> HIDE DEF F, e
    <3>3. Append(e, u) = e \o <<u>>
      BY <2>2, AppendIsConcat
    <3> QED BY <2>1, <3>2, <3>3 DEF e
  <2>4. t = ReadUnit(s, u)
    <3> HIDE DEF F, e
    <3> QED BY <2>2, LoadAppend
  <2>5. s \in Readers(n, m) /\ Growing(r, s)
    <3>1. Growing(r, s)
      BY <1>3
    <3> HIDE DEF e
    <3> QED BY <2>2, <3>1, ReadShape DEF Shape
  <2> HIDE DEF e, s, t, r
  <2>6. u \in FileUnits(n, m) /\ u.op # "base"
    BY <2>2 DEF FedUnits
  <2>7. \/ t.data = s.data /\ t.pdata = s.pdata /\ t.half = s.half
        \/ t = [s EXCEPT !.half = u] /\ t.half = u
        \/ /\ s.half # NoCommand /\ t.half = NoCommand /\ t.pdata = Executed(s, s.half)
           /\ t.data = s.data \/ t.data = Executed(s, s.half)
    BY <2>4, <2>5, <2>6, ReadFields
  <2>8. Growing(r, t)
    <3>1. CASE t.data = s.data /\ t.pdata = s.pdata /\ t.half = s.half
      BY <2>5, <3>1 DEF Growing
    <3>2. CASE t = [s EXCEPT !.half = u] /\ t.half = u
      <4>1. t.data = s.data /\ t.pdata = s.pdata
        BY <2>5, <3>2 DEF Readers
      <4> QED BY <2>5, <2>6, <3>2, <4>1 DEF Growing
    <3>3. CASE /\ s.half # NoCommand /\ t.half = NoCommand /\ t.pdata = Executed(s, s.half)
               /\ t.data = s.data \/ t.data = Executed(s, s.half)
      <4> DEFINE c == s.half
      <4>1. c \in FileUnits(n, m) /\ c.op # "base" /\ s.db \in DBs /\ s.pdata \in DataSets(n)
        BY <2>5, <3>3 DEF Readers, Growing
      <4>2. c.op = "write" => c.write \in 1 .. n
        BY <4>1 DEF FileUnits, AllUnits
      <4> HIDE DEF c
      <4>3. WritesOf(s.pdata) \subseteq WritesOf(Executed(s, c))
        <5>1. CASE c.op = "write"
          <6>1. <<s.db, c.write>> \in DBs \X (1 .. n) /\ Executed(s, c) = Append(s.pdata, <<s.db, c.write>>)
            BY <4>1, <4>2, <5>1 DEF Executed
          <6> QED BY <4>1, <6>1, WritesAppend
        <5>2. CASE c.op # "write"
          BY <4>1, <5>2 DEF Executed
        <5> QED BY <5>1, <5>2
      <4>4. t.half.op # "base"
        BY <1>1, <3>3
      <4> QED BY <2>5, <3>3, <4>3, <4>4 DEF Growing, c
    <3> QED BY <2>7, <3>1, <3>2, <3>3
  <2> QED BY <2>1, <2>3, <2>8 DEF t, e
<1>4. Seq(G) \subseteq T
  <2> HIDE DEF T, G
  <2> QED BY <1>2, <1>3, SequenceInduction
<1> QED BY <1>4 DEF Growing

----------------------------------------------------------------------------
(* A buffer that is written in part.                                       *)

LEMMA SubSeqIn ==
  ASSUME NEW S, NEW b \in Seq(S), NEW i \in 1 .. Len(b) + 1, NEW j \in i - 1 .. Len(b)
  PROVE  SubSeq(b, i, j) \in Seq(S) /\ Len(SubSeq(b, i, j)) = j - i + 1
<1>1. Len(b) \in Nat /\ \A x \in 1 .. Len(b) : b[x] \in S
  BY ElementOfSeq, LenProperties
<1>2. i \in Int /\ j \in Int /\ \A x \in i .. j : b[x] \in S
  BY <1>1
<1>3. /\ SubSeq(b, i, j) \in Seq(S)
      /\ Len(SubSeq(b, i, j)) = IF i <= j THEN j - i + 1 ELSE 0
  BY <1>2, SubSeqProperties
<1>4. ~(i <= j) => j - i + 1 = 0
  BY <1>1
<1> QED BY <1>3, <1>4

LEMMA Split ==
  ASSUME NEW S, NEW f \in Seq(S), NEW b \in Seq(S), NEW k \in 0 .. Len(b)
  PROVE  /\ SubSeq(b, 1, k) \in Seq(S) /\ SubSeq(b, k + 1, Len(b)) \in Seq(S) /\ Len(SubSeq(b, 1, k)) = k
         /\ Cat(Cat(f, SubSeq(b, 1, k)), SubSeq(b, k + 1, Len(b))) = Cat(f, b)
<1>1. Len(b) \in Nat
  BY LenProperties
<1>2. SubSeq(b, 1, k) \in Seq(S) /\ Len(SubSeq(b, 1, k)) = k
  <2>1. 1 \in 1 .. Len(b) + 1 /\ k \in 1 - 1 .. Len(b) /\ k - 1 + 1 = k
    BY <1>1
  <2> QED BY <2>1, SubSeqIn
<1>3. SubSeq(b, k + 1, Len(b)) \in Seq(S)
  <2>1. k + 1 \in 1 .. Len(b) + 1 /\ Len(b) \in (k + 1) - 1 .. Len(b)
    BY <1>1
  <2> QED BY <2>1, SubSeqIn
<1>4. SubSeq(b, 1, k) \o SubSeq(b, k + 1, Len(b)) = b
  <2>1. 1 \in 1 .. Len(b) + 1 /\ k \in 1 - 1 .. Len(b) /\ Len(b) \in k .. Len(b)
    BY <1>1
  <2>2. SubSeq(b, 1, k) \o SubSeq(b, k + 1, Len(b)) = SubSeq(b, 1, Len(b))
    BY <2>1, ConcatAdjacentSubSeq
  <2> QED BY <2>2, SubSeqFull
<1> DEFINE p == SubSeq(b, 1, k)
           q == SubSeq(b, k + 1, Len(b))
<1>5. p \in Seq(S) /\ q \in Seq(S) /\ p \o q = b
  BY <1>2, <1>3, <1>4
<1> HIDE DEF p, q
<1>6. Cat(f, Cat(p, q)) = Cat(Cat(f, p), q)
  <2>1. In(f, S) /\ In(p, S) /\ In(q, S)
    BY <1>5 DEF In
  <2> QED BY <2>1, CatAssociative
<1>7. Cat(Cat(f, p), q) = Cat(f, b)
  <2>1. Cat(p, q) = b
    BY <1>5 DEF Cat
  <2> QED BY <1>6, <2>1, Zenon
<1> QED BY <1>2, <1>3, <1>7 DEF p, q

LEMMA Prefix ==
  ASSUME NEW S, NEW f \in Seq(S), NEW b \in Seq(S), NEW n \in Len(f) .. Len(f \o b)
  PROVE  SubSeq(b, 1, n - Len(f)) \in Seq(S) /\ SubSeq(f \o b, 1, n) = f \o SubSeq(b, 1, n - Len(f))
<1> DEFINE l == Len(f)
           e == f \o b
           p == SubSeq(b, 1, n - l)
           h == f \o p
           s == SubSeq(e, 1, n)
<1>1. /\ l \in Nat /\ Len(b) \in Nat /\ e \in Seq(S) /\ Len(e) = l + Len(b)
      /\ \A i \in 1 .. l + Len(b) : e[i] = IF i <= l THEN f[i] ELSE b[i - l]
  BY ConcatProperties, LenProperties
<1>2. n \in l .. Len(e) /\ n - l \in 0 .. Len(b) /\ n \in Int /\ n - l \in Int
  BY <1>1
<1> HIDE DEF l, e
<1>3. p \in Seq(S) /\ Len(p) = n - l
  <2>1. 1 \in 1 .. Len(b) + 1 /\ n - l \in 1 - 1 .. Len(b) /\ (n - l) - 1 + 1 = n - l
    BY <1>1, <1>2
  <2> QED BY <2>1, SubSeqIn
<1>4. \A i \in 1 .. n - l : p[i] = b[i]
  <2>1. \A i \in 1 .. Len(b) : b[i] \in S
    BY ElementOfSeq
  <2>2. \A i \in 1 .. n - l : b[i] \in S
    BY <1>1, <1>2, <2>1
  <2>3. \A i \in 1 .. (n - l) - 1 + 1 : p[i] = b[1 + i - 1]
    BY <1>2, <2>2, SubSeqProperties
  <2> HIDE DEF p
  <2> SUFFICES ASSUME NEW i \in 1 .. n - l  PROVE p[i] = b[i]
    OBVIOUS
  <2>4. i \in 1 .. (n - l) - 1 + 1 /\ 1 + i - 1 = i
    BY <1>2
  <2>5. p[i] = b[1 + i - 1]
    BY <2>3, <2>4
  <2> QED BY <2>4, <2>5
<1>5. s \in Seq(S) /\ Len(s) = n
  <2>1. 1 \in 1 .. Len(e) + 1 /\ n \in 1 - 1 .. Len(e) /\ n - 1 + 1 = n
    BY <1>1, <1>2
  <2> QED BY <1>1, <2>1, SubSeqIn
<1>6. \A i \in 1 .. n : s[i] = e[i]
  <2>1. \A i \in 1 .. Len(e) : e[i] \in S
    BY <1>1, ElementOfSeq
  <2>2. \A i \in 1 .. n : e[i] \in S
    BY <1>1, <1>2, <2>1
  <2>3. \A i \in 1 .. n - 1 + 1 : s[i] = e[1 + i - 1]
    BY <1>2, <2>2, SubSeqProperties
  <2> HIDE DEF s
  <2> SUFFICES ASSUME NEW i \in 1 .. n  PROVE s[i] = e[i]
    OBVIOUS
  <2>4. i \in 1 .. n - 1 + 1 /\ 1 + i - 1 = i
    BY <1>2
  <2>5. s[i] = e[1 + i - 1]
    BY <2>3, <2>4
  <2> QED BY <2>4, <2>5
<1> HIDE DEF p, s
<1>7. h \in Seq(S) /\ Len(h) = l + (n - l) /\ \A i \in 1 .. l + (n - l) : h[i] = IF i <= l THEN f[i] ELSE p[i - l]
  BY <1>3, ConcatProperties DEF l
<1> HIDE DEF h
<1>8. s = h
  <2>1. Len(h) = n
    BY <1>1, <1>2, <1>7
  <2>2. ASSUME NEW i \in 1 .. Len(s)  PROVE s[i] = h[i]
    <3>1. i \in 1 .. n /\ i \in 1 .. l + (n - l) /\ i \in 1 .. l + Len(b)
      BY <1>1, <1>2, <1>5
    <3>2. CASE i <= l
      BY <1>1, <1>6, <1>7, <3>1, <3>2
    <3>3. CASE ~(i <= l)
      <4>1. i - l \in 1 .. n - l
        BY <1>1, <1>2, <3>1, <3>3
      <4> QED BY <1>1, <1>4, <1>6, <1>7, <3>1, <3>3, <4>1
    <3> QED BY <3>2, <3>3
  <2> QED BY <1>5, <1>7, <2>1, <2>2, SeqEqual
<1> QED BY <1>3, <1>8 DEF s, h, p, e, l

----------------------------------------------------------------------------
(* What flushAppendOnlyFile may do.                                        *)

Flushed(r, force) ==
  /\ r.file \in Seq(InFile) /\ r.buf \in Seq(Fed) /\ r.file \o r.buf = file \o aof_buf
  /\ Len(file) <= Len(r.file)
  /\ r.synced \in 0 .. Len(r.file)
  /\ r.size \in Nat /\ (aof_state = "ON" => r.size = Len(r.file))
  /\ r.jobs \in Seq({"current", "old"}) /\ (jobs # <<>> => r.jobs # <<>> /\ Head(r.jobs) = Head(jobs))
  /\ r.postponed \in NotPostponed .. 2 /\ r.ok \in BOOLEAN /\ r.due \in BOOLEAN /\ r.exit \in BOOLEAN
  /\ r.faults \in 0 .. scenario.faults
  /\ r.buf # <<>> => aof_buf # <<>>
  /\ r.buf = <<>> \/ r.file = file \/ "ftruncate" \in scenario.may
  /\ r.exit => policy = "always" /\ \E h \in Seq(Fed) : r.file = file \o h
  /\ policy = "always" /\ ~r.exit =>
       /\ r.buf = <<>>
       /\ ~NoFsyncOnRewrite => (r.synced = Len(r.file) \/ (r.file = file /\ r.synced = synced))
  /\ force /\ {"write", "ftruncate"} \cap scenario.may = {} => r.buf = <<>> /\ ~r.exit

\* Types of what it reads.
LEMMA FlushTypes ==
  ASSUME Types, Modes
  PROVE  /\ nwrites \in Nat /\ Transactions \in BOOLEAN
         /\ file \in Seq(InFile) /\ aof_buf \in Seq(Fed) /\ aof_buf \in Seq(InFile)
         /\ file \o aof_buf \in Seq(InFile)
         /\ Len(file) \in Nat /\ Len(aof_buf) \in Nat /\ Len(file \o aof_buf) = Len(file) + Len(aof_buf)
         /\ scenario.faults \in Nat /\ scenario.writes \in Nat /\ faults \in 0 .. scenario.faults
         /\ aof_buf # <<>> => aof_state = "ON" /\ aof_fd = "open" /\ current_size = Len(file)
<1>1. scenario \in Scenarios /\ nwrites \in 0 .. scenario.writes /\ faults \in 0 .. scenario.faults
  BY DEF Types
<1>2. scenario.writes \in Nat /\ scenario.faults \in Nat
  BY <1>1, ConstantsAssumption
<1>3. nwrites \in Nat /\ Transactions \in BOOLEAN
  BY <1>1, <1>2 DEF Transactions
<1>4. file \in Seq(FileUnits(nwrites, Transactions)) /\ aof_buf \in Seq(FedUnits(nwrites, Transactions))
  BY DEF Types, InFile, Fed
<1>5. /\ aof_buf \in Seq(FileUnits(nwrites, Transactions)) /\ file \o aof_buf \in Seq(FileUnits(nwrites, Transactions))
      /\ Len(file) \in Nat /\ Len(aof_buf) \in Nat /\ Len(file \o aof_buf) = Len(file) + Len(aof_buf)
  BY <1>3, <1>4, Join
<1>6. aof_buf # <<>> => aof_state = "ON" /\ aof_fd = "open" /\ current_size = Len(file)
  BY DEF Modes
<1> QED BY <1>1, <1>2, <1>3, <1>4, <1>5, <1>6 DEF InFile, Fed

LEMMA FlushIdle ==
  ASSUME Types, Modes, NEW force, NEW r, r = Unflushed \/ r = Postponed,
         aof_buf = <<>> \/ (~force /\ policy # "always")
  PROVE  Flushed(r, force)
<1>1. /\ r.file = file /\ r.buf = aof_buf /\ r.synced = synced /\ r.size = current_size /\ r.jobs = jobs
      /\ r.postponed \in {postponed, 0} /\ r.ok = write_ok /\ r.due = fsync_due /\ r.exit = FALSE
      /\ r.faults = faults
  <2>1. CASE r = Unflushed
    BY <2>1 DEF Unflushed
  <2>2. CASE r = Postponed
    BY <2>2 DEF Unflushed, Postponed
  <2> QED BY <2>1, <2>2
<1>2. /\ file \in Seq(InFile) /\ aof_buf \in Seq(Fed) /\ Len(file) \in Nat /\ faults \in 0 .. scenario.faults
  BY FlushTypes
<1>3. /\ synced \in 0 .. Len(file) /\ current_size \in Nat /\ jobs \in Seq({"current", "old"})
      /\ write_ok \in BOOLEAN /\ fsync_due \in BOOLEAN
  BY DEF Types
<1>4. aof_state = "ON" => current_size = Len(file)
  BY DEF Modes
<1>5. Len(file) <= Len(file)
  BY <1>2
<1>6. r.postponed \in NotPostponed .. 2
  BY <1>1 DEF Types, NotPostponed
<1> QED BY <1>1, <1>2, <1>3, <1>4, <1>5, <1>6 DEF Flushed

LEMMA FlushWritten ==
  ASSUME Types, Modes, NEW force, aof_buf # <<>>
  PROVE  Flushed(Written, force)
<1> DEFINE all == file \o aof_buf
           r == Written
<1>1. /\ r.file = all /\ r.buf = <<>> /\ r.size = current_size + Len(aof_buf)
      /\ r.synced = synced \/ r.synced = Len(all)
      /\ policy = "always" /\ ~NoFsyncOnRewrite => r.synced = Len(all)
      /\ r.jobs = jobs \/ (r.jobs = Append(jobs, "current") /\ ~FsyncPending /\ policy = "everysec")
      /\ r.postponed = NotPostponed /\ r.ok = TRUE /\ r.exit = FALSE /\ r.faults = faults
      /\ r.due = fsync_due \/ r.due = FALSE
  BY DEF Written, Unflushed
<1>2. /\ file \in Seq(InFile) /\ aof_buf \in Seq(Fed) /\ Len(file) \in Nat /\ faults \in 0 .. scenario.faults
      /\ all \in Seq(InFile) /\ Len(aof_buf) \in Nat /\ Len(all) = Len(file) + Len(aof_buf)
      /\ current_size = Len(file) /\ scenario.faults \in Nat
  BY FlushTypes
<1>3. synced \in 0 .. Len(file) /\ jobs \in Seq({"current", "old"}) /\ fsync_due \in BOOLEAN
  BY DEF Types
<1>4. all \o <<>> = all
  BY <1>2, ConcatEmptySeq
<1> HIDE DEF all, r
<1>5. r.size = Len(all) /\ r.size \in Nat /\ Len(file) <= Len(all) /\ r.synced \in 0 .. Len(all)
  BY <1>1, <1>2, <1>3
<1>6. r.jobs \in Seq({"current", "old"}) /\ (jobs # <<>> => r.jobs # <<>> /\ Head(r.jobs) = Head(jobs))
  BY <1>1, <1>3 DEF FsyncPending
<1>7. <<>> \in Seq(Fed)
  OBVIOUS
<1>8. NotPostponed \in NotPostponed .. 2
  BY DEF NotPostponed
<1>9. r.file \o r.buf = file \o aof_buf
  BY <1>1, <1>4, Zenon DEF all
<1> QED BY <1>1, <1>2, <1>3, <1>5, <1>6, <1>7, <1>8, <1>9 DEF Flushed, r

LEMMA FlushFailed ==
  ASSUME Types, Modes, NEW force, aof_buf # <<>>, NEW k \in 0 .. Len(aof_buf), faults < scenario.faults,
         k = 0 => "write" \in scenario.may, k # 0 => "ftruncate" \in scenario.may
  PROVE  Flushed(Failed(k, faults + 1), force)
<1> DEFINE r == Failed(k, faults + 1)
           p == SubSeq(aof_buf, 1, k)
           q == SubSeq(aof_buf, k + 1, Len(aof_buf))
<1>1. /\ file \in Seq(InFile) /\ aof_buf \in Seq(Fed) /\ Len(file) \in Nat /\ faults \in 0 .. scenario.faults
      /\ aof_buf \in Seq(InFile) /\ Len(aof_buf) \in Nat /\ aof_fd = "open" /\ aof_state = "ON"
      /\ current_size = Len(file) /\ scenario.faults \in Nat /\ nwrites \in Nat /\ Transactions \in BOOLEAN
  BY FlushTypes
<1>2. synced \in 0 .. Len(file) /\ jobs \in Seq({"current", "old"}) /\ fsync_due \in BOOLEAN
  BY DEF Types
<1>3. p \in Seq(Fed) /\ q \in Seq(Fed) /\ Len(p) = k
  BY <1>1, Split
<1>4. (file \o p) \o q = file \o aof_buf
  <2>1. Cat(Cat(file, p), q) = Cat(file, aof_buf)
    BY <1>1, Split
  <2> QED BY <2>1, Zenon DEF Cat
<1>5. /\ r.file = (IF k > 0 THEN file \o p ELSE SubSeq(file, 1, current_size)) /\ r.buf = q
      /\ r.size = current_size + k /\ r.synced = synced /\ r.jobs = jobs /\ r.postponed = NotPostponed
      /\ r.ok = FALSE /\ r.due = fsync_due /\ r.exit = (policy = "always") /\ r.faults = faults + 1
  BY <1>1, SMTT(30) DEF Failed, Unflushed
<1> HIDE DEF r, p, q
<1>6. file \o p \in Seq(InFile) /\ Len(file \o p) = Len(file) + k
  BY <1>1, <1>3, Join DEF InFile, Fed
<1>7. r.file = file \o p
  <2>1. CASE k > 0
    BY <1>5, <2>1
  <2>2. CASE k = 0
    <3>1. p = <<>>
      BY <1>3, <2>2, EmptySeq
    <3>2. file \o p = file
      BY <1>1, <3>1, ConcatEmptySeq
    <3>3. SubSeq(file, 1, current_size) = file
      BY <1>1, SubSeqFull
    <3> QED BY <1>5, <2>2, <3>2, <3>3
  <2> QED BY <2>1, <2>2
<1>8. r.file \o r.buf = file \o aof_buf
  BY <1>4, <1>5, <1>7, Zenon
<1>9. /\ r.size = Len(r.file) /\ r.size \in Nat /\ Len(file) <= Len(r.file) /\ r.synced \in 0 .. Len(r.file)
      /\ r.faults \in 0 .. scenario.faults
  <2>1. Len(r.file) = Len(file) + k
    BY <1>6, <1>7
  <2> QED BY <1>1, <1>2, <1>5, <2>1
<1>10. k = 0 => r.file = file
  <2>1. k = 0 => SubSeq(file, 1, current_size) = file
    BY <1>1, SubSeqFull
  <2> QED BY <1>5, <2>1
<1>11. {"write", "ftruncate"} \cap scenario.may # {}
  OBVIOUS
<1>12. NotPostponed \in NotPostponed .. 2
  BY DEF NotPostponed
<1>13. /\ r.file \in Seq(InFile) /\ r.buf \in Seq(Fed)
       /\ r.jobs \in Seq({"current", "old"}) /\ (jobs # <<>> => r.jobs # <<>> /\ Head(r.jobs) = Head(jobs))
       /\ r.postponed \in NotPostponed .. 2 /\ r.ok \in BOOLEAN /\ r.due \in BOOLEAN /\ r.exit \in BOOLEAN
  BY <1>2, <1>3, <1>5, <1>6, <1>7, <1>12
<1>14. /\ r.exit => policy = "always" /\ \E h \in Seq(Fed) : r.file = file \o h
       /\ r.exit \/ policy # "always"
  BY <1>3, <1>5, <1>7
<1>15. r.buf = <<>> \/ r.file = file \/ "ftruncate" \in scenario.may
  BY <1>10
<1> QED BY <1>1, <1>8, <1>9, <1>11, <1>13, <1>14, <1>15 DEF Flushed, r

LEMMA FlushShape ==
  ASSUME Types, Modes, NEW force \in BOOLEAN, NEW r \in FlushResults(force)
  PROVE  Flushed(r, force)
<1>2. CASE aof_buf = <<>>
  <2>1. r = Unflushed
    BY <1>2 DEF FlushResults
  <2> QED BY <1>2, <2>1, FlushIdle
<1>3. CASE aof_buf # <<>> /\ FsyncPending /\ ~force /\ postponed < 2
  <2>1. r = Postponed
    BY <1>3 DEF FlushResults
  <2>2. policy # "always"
    BY <1>3 DEF FsyncPending
  <2> QED BY <1>3, <2>1, <2>2, FlushIdle
<1>4. CASE aof_buf # <<>> /\ ~(FsyncPending /\ ~force /\ postponed < 2)
  <2>1. /\ aof_fd = "open" /\ Len(aof_buf) \in Nat
    BY <1>4, FlushTypes
  <2>2. \/ r = Written
        \/ CanFail("write") /\ r = Failed(0, faults + 1)
        \/ CanFail("ftruncate") /\ \E k \in 1 .. Len(aof_buf) - 1 : r = Failed(k, faults + 1)
    BY <1>4, <2>1 DEF FlushResults
  <2>3. CASE r = Written
    BY <1>4, <2>3, FlushWritten
  <2>4. CASE CanFail("write") /\ r = Failed(0, faults + 1)
    <3>1. "write" \in scenario.may /\ faults < scenario.faults /\ 0 \in 0 .. Len(aof_buf)
      BY <2>1, <2>4 DEF CanFail
    <3> QED BY <1>4, <2>4, <3>1, FlushFailed
  <2>5. CASE CanFail("ftruncate") /\ \E k \in 1 .. Len(aof_buf) - 1 : r = Failed(k, faults + 1)
    <3>1. PICK k \in 1 .. Len(aof_buf) - 1 : r = Failed(k, faults + 1)
      BY <2>5
    <3>2. "ftruncate" \in scenario.may /\ faults < scenario.faults /\ k \in 0 .. Len(aof_buf) /\ k # 0
      BY <2>1, <2>5 DEF CanFail
    <3> QED BY <1>4, <3>1, <3>2, FlushFailed
  <2> QED BY <2>2, <2>3, <2>4, <2>5
<1> QED BY <1>2, <1>3, <1>4

----------------------------------------------------------------------------
(* Steps that change neither the data nor the files.                       *)

LEMMA SameSets ==
  ASSUME UNCHANGED <<nwrites, scenario>>
  PROVE  InFile' = InFile /\ Fed' = Fed /\ Data' = Data /\ (Transactions' <=> Transactions)
BY DEF InFile, Fed, Data, Transactions

QuietStep == Tick \/ FsyncStart \/ FsyncEnd \/ FsyncOld \/ Bgsave \/ RewriteChildEnds \/ BgsaveChildEnds

unchangedByQuiet ==
  <<loop, settings, dataVars, acked, modeVars, file, current_size, aof_buf, write_ok,
    rewrite_scheduled, rewrite_buf, base, aof_child_pid>>

LEMMA QuietFrame ==
  ASSUME Types, Modes, QuietStep
  PROVE  UNCHANGED unchangedByQuiet
<1> USE DEF unchangedByQuiet, settings, dataVars, modeVars, diskVars, bufVars, childVars, rdbVars
<1>1. CASE Tick
  BY <1>1 DEF Tick
<1>2. CASE FsyncStart \/ FsyncEnd \/ FsyncOld
  BY <1>2 DEF FsyncStart, FsyncEnd, FsyncOld, notFsync
<1>3. CASE Bgsave
  BY <1>3 DEF Bgsave
<1>4. CASE RewriteChildEnds \/ BgsaveChildEnds
  BY <1>4 DEF RewriteChildEnds, BgsaveChildEnds, notProc
<1> QED BY <1>1, <1>2, <1>3, <1>4 DEF QuietStep

\* The other variables.
LEMMA QuietOthers ==
  ASSUME Types, Modes, QuietStep
  PROVE  /\ faults' \in 0 .. scenario.faults
         /\ synced' \in synced .. Len(file) /\ (synced' # synced => Up)
         /\ postponed' \in NotPostponed .. 2 /\ (~Up => postponed' = postponed)
         /\ fsync_due' \in BOOLEAN
         /\ jobs' \in Seq({"current", "old"}) /\ fsyncing' \in NotSyncing .. Len(file)
         /\ fsyncing' # NotSyncing => jobs' # <<>> /\ Head(jobs') = "current"
         /\ ~Up => jobs' = jobs /\ fsyncing' = fsyncing
         /\ aof_proc' \in {"none", "run", "ok", "fail"} /\ rdb_proc' \in {"none", "run", "ok"}
         /\ aof_proc' # "none" => aof_child_pid
         /\ rdb_child_pid' \in BOOLEAN /\ orphan' \in BOOLEAN
<1>1. /\ faults \in 0 .. scenario.faults /\ scenario.faults \in Nat
      /\ synced \in 0 .. Len(file) /\ Len(file) \in Nat
      /\ postponed \in NotPostponed .. 2 /\ fsync_due \in BOOLEAN
      /\ jobs \in Seq({"current", "old"}) /\ fsyncing \in NotSyncing .. Len(file)
      /\ fsyncing # NotSyncing => jobs # <<>> /\ Head(jobs) = "current"
      /\ ~Up => fsyncing = NotSyncing
      /\ aof_proc \in {"none", "run", "ok", "fail"} /\ rdb_proc \in {"none", "run", "ok"}
      /\ aof_proc # "none" => aof_child_pid
      /\ rdb_child_pid \in BOOLEAN /\ orphan \in BOOLEAN
  <2>1. scenario.faults \in Nat /\ Len(file) \in Nat
    BY FlushTypes
  <2> QED BY <2>1 DEF Types, Modes
<1>2. synced \in synced .. Len(file)
  BY <1>1
<1> USE DEF settings, dataVars, modeVars, diskVars, bufVars, childVars, rdbVars
<1>3. CASE Tick
  <2>1. postponed' \in NotPostponed .. 2 /\ fsync_due' \in BOOLEAN /\ Up
    BY <1>1, <1>3 DEF Tick, NotPostponed
  <2>2. UNCHANGED <<faults, synced, jobs, fsyncing, aof_proc, rdb_proc, rdb_child_pid, orphan>>
    BY <1>3 DEF Tick
  <2> QED BY <1>1, <1>2, <2>1, <2>2
<1>4. CASE FsyncStart
  <2>1. /\ Up /\ jobs # <<>> /\ Head(jobs) = "current" /\ fsyncing' = Len(file)
        /\ UNCHANGED <<faults, synced, jobs, postponed, fsync_due, aof_proc, rdb_proc, rdb_child_pid, orphan>>
    BY <1>4 DEF FsyncStart, notFsync
  <2>2. Len(file) \in NotSyncing .. Len(file)
    BY <1>1 DEF NotSyncing
  <2> QED BY <1>1, <1>2, <2>1, <2>2
<1>5. CASE FsyncEnd
  <2>1. /\ fsyncing # NotSyncing /\ fsyncing' = NotSyncing /\ jobs' = Tail(jobs)
        /\ synced' = IF fsyncing > synced THEN fsyncing ELSE synced
        /\ UNCHANGED <<faults, postponed, fsync_due, aof_proc, rdb_proc, rdb_child_pid, orphan>>
    BY <1>5 DEF FsyncEnd, notFsync
  <2>2. synced' \in synced .. Len(file) /\ NotSyncing \in NotSyncing .. Len(file)
    BY <1>1, <2>1 DEF NotSyncing
  <2>3. jobs' \in Seq({"current", "old"}) /\ Up
    BY <1>1, <2>1, HeadTailProperties
  <2> QED BY <1>1, <2>1, <2>2, <2>3
<1>6. CASE FsyncOld
  <2>1. /\ Up /\ jobs # <<>> /\ Head(jobs) = "old" /\ jobs' = Tail(jobs)
        /\ UNCHANGED <<faults, synced, postponed, fsync_due, fsyncing, aof_proc, rdb_proc, rdb_child_pid, orphan>>
    BY <1>6 DEF FsyncOld, notFsync
  <2>2. jobs' \in Seq({"current", "old"}) /\ fsyncing = NotSyncing
    BY <1>1, <2>1, HeadTailProperties
  <2> QED BY <1>1, <1>2, <2>1, <2>2
<1>7. CASE Bgsave
  <2>1. /\ rdb_child_pid' = TRUE /\ rdb_proc' = "run"
        /\ UNCHANGED <<faults, synced, postponed, fsync_due, jobs, fsyncing, aof_proc, orphan>>
    BY <1>7 DEF Bgsave
  <2> QED BY <1>1, <1>2, <2>1
<1>8. CASE RewriteChildEnds
  <2>1. /\ aof_proc = "run" /\ aof_proc' \in {"ok", "fail"} /\ faults' \in {faults, faults + 1}
        /\ faults' = faults + 1 => faults < scenario.faults
        /\ UNCHANGED <<synced, postponed, fsync_due, jobs, fsyncing, rdb_proc, rdb_child_pid, orphan>>
    BY <1>1, <1>8 DEF RewriteChildEnds, Fault, notProc
  <2>2. faults' \in 0 .. scenario.faults
    BY <1>1, <2>1
  <2> QED BY <1>1, <1>2, <2>1, <2>2
<1>9. CASE BgsaveChildEnds
  <2>1. /\ rdb_proc' = "ok"
        /\ UNCHANGED <<faults, synced, postponed, fsync_due, jobs, fsyncing, aof_proc, rdb_child_pid, orphan>>
    BY <1>9 DEF BgsaveChildEnds, notProc
  <2> QED BY <1>1, <1>2, <2>1
<1> QED BY <1>3, <1>4, <1>5, <1>6, <1>7, <1>8, <1>9 DEF QuietStep

LEMMA QuietTypes ==
  ASSUME Types, Modes, QuietStep
  PROVE  Types' /\ Modes'
<1>1. UNCHANGED <<loop, scenario, policy, data, nwrites, acked, aof_state, aof_fd, selected_db, file,
                  current_size, aof_buf, write_ok, rewrite_scheduled, rewrite_buf, base, aof_child_pid>>
  BY QuietFrame DEF unchangedByQuiet, settings, dataVars, modeVars
<1>2. /\ faults' \in 0 .. scenario.faults
      /\ synced' \in 0 .. Len(file)
      /\ postponed' \in NotPostponed .. 2 /\ (~Up => postponed' = postponed)
      /\ fsync_due' \in BOOLEAN
      /\ jobs' \in Seq({"current", "old"}) /\ fsyncing' \in NotSyncing .. Len(file)
      /\ fsyncing' # NotSyncing => jobs' # <<>> /\ Head(jobs') = "current"
      /\ ~Up => jobs' = jobs /\ fsyncing' = fsyncing
      /\ aof_proc' \in {"none", "run", "ok", "fail"} /\ rdb_proc' \in {"none", "run", "ok"}
      /\ aof_proc' # "none" => aof_child_pid
      /\ rdb_child_pid' \in BOOLEAN /\ orphan' \in BOOLEAN
  <2>1. synced \in 0 .. Len(file) /\ Len(file) \in Nat
    BY FlushTypes DEF Types
  <2>2. synced' \in synced .. Len(file)
    BY QuietOthers
  <2>3. synced' \in 0 .. Len(file)
    BY <2>1, <2>2
  <2> QED BY <2>3, QuietOthers
<1>3. InFile' = InFile /\ Fed' = Fed /\ Data' = Data
  BY <1>1, SameSets
<1>4. Types'
  BY <1>1, <1>2, <1>3 DEF Types, NotPostponed, NotSyncing
<1>5. Modes'
  BY <1>1, <1>2 DEF Modes, Up, NotPostponed, NotSyncing
<1> QED BY <1>4, <1>5

\* What the sums depend on.
sumVars == <<scenario, data, base, aof_state, file, aof_buf, rewrite_buf, selected_db, aof_child_pid>>

LEMMA SumsFrame ==
  ASSUME FileSums, RewriteSums, UNCHANGED sumVars
  PROVE  FileSums' /\ RewriteSums'
<1>1. FileSums'
  BY DEF sumVars, FileSums, Makes, Complete, Transactions
<1>2. RewriteSums'
  BY DEF sumVars, RewriteSums, Makes, Complete
<1> QED BY <1>1, <1>2

LEMMA DurableFrame ==
  ASSUME Types, Modes, Durable, UNCHANGED <<policy, data, acked, file>>, aof_state' = "ON" => aof_state = "ON", Up' <=> Up,
         synced' \in synced .. Len(file), synced' # synced => Up
  PROVE  Durable'
<1> SUFFICES ASSUME policy = "always"  PROVE Durable'
  BY DEF Durable
<1>1. synced \in Nat /\ Len(file) \in Nat
  BY FlushTypes DEF Types
<1>2. aof_state = "ON" => synced' = Len(file)
  <2>1. aof_state = "ON" => synced = Len(file)
    BY DEF Durable
  <2> QED BY <1>1, <2>1
<1>3. Up' => acked' \subseteq WritesOf(data')
  BY DEF Durable, WritesOf
<1>4. aof_state' = "ON" => /\ synced' = Len(file') /\ Complete(file')
                           /\ acked' \subseteq WritesOf(Load(file').data)
  BY <1>2 DEF Durable, Complete
<1>5. ~Up' => \A n \in synced' .. Len(file') : acked' \subseteq WritesOf(Load(SubSeq(file', 1, n)).data)
  BY DEF Durable
<1> QED BY <1>3, <1>4, <1>5 DEF Durable, Complete, WritesOf

LEMMA QuietKeeps ==
  ASSUME Types, Modes, QuietStep
  PROVE  (FileSums /\ RewriteSums => FileSums' /\ RewriteSums') /\ (Durable => Durable')
<1>1. UNCHANGED sumVars /\ UNCHANGED <<policy, data, acked, aof_state, file>> /\ (Up' <=> Up)
  BY QuietFrame DEF unchangedByQuiet, sumVars, settings, dataVars, modeVars, Up
<1>2. synced' \in synced .. Len(file) /\ (synced' # synced => Up)
  BY QuietOthers
<1>3. FileSums /\ RewriteSums => FileSums' /\ RewriteSums'
  BY <1>1, SumsFrame
<1>4. Durable => Durable'
  BY <1>1, <1>2, DurableFrame
<1> QED BY <1>3, <1>4

----------------------------------------------------------------------------
(* The process ends.                                                       *)

LEMMA ExitTypes ==
  ASSUME Types, Modes, NEW how \in {"down", "shutdown"}, Exit(how), file' \in Seq(InFile),
         synced' \in 0 .. Len(file'), faults' \in 0 .. scenario.faults
  PROVE  Types' /\ Modes'
<1> USE DEF settings
<1>1. /\ UNCHANGED <<scenario, policy, nwrites>> /\ loop' = how /\ data' = <<>> /\ base' = <<>>
      /\ acked' = IF aof_state = "ON" THEN acked ELSE {}
      /\ aof_state' = "OFF" /\ aof_fd' = "none" /\ selected_db' = -1 /\ current_size' = 0
      /\ aof_buf' = <<>> /\ write_ok' = TRUE /\ postponed' = NotPostponed
      /\ fsync_due' = FALSE /\ jobs' = <<>> /\ fsyncing' = NotSyncing
      /\ rewrite_scheduled' = FALSE /\ rewrite_buf' = <<>>
      /\ aof_child_pid' = FALSE /\ aof_proc' = "none"
      /\ rdb_child_pid' = FALSE /\ rdb_proc' = "none" /\ orphan' = FALSE
  BY DEF Exit
<1>2. InFile' = InFile /\ Fed' = Fed /\ Data' = Data
  BY <1>1, SameSets
<1>3. /\ <<>> \in Data /\ <<>> \in Seq(Fed) /\ <<>> \in Seq({"current", "old"}) /\ acked' \subseteq 1 .. nwrites
      /\ NotPostponed \in NotPostponed .. 2 /\ 0 \in Nat
  <2>1. acked \subseteq 1 .. nwrites
    BY DEF Types
  <2>2. <<>> \in Data
    BY DEF Data, DataSets
  <2>3. NotPostponed \in NotPostponed .. 2
    BY DEF NotPostponed
  <2> QED BY <1>1, <2>1, <2>2, <2>3
<1>4. NotSyncing \in NotSyncing .. Len(file')
  <2>1. Len(file') \in Nat
    BY LenProperties
  <2> QED BY <2>1 DEF NotSyncing
<1>5. /\ policy \in Policies /\ scenario \in Scenarios /\ nwrites \in 0 .. scenario.writes
  BY DEF Types
<1>6. Types'
  BY <1>1, <1>2, <1>3, <1>4, <1>5 DEF Types, States
<1>7. Modes'
  BY <1>1 DEF Modes, Up
<1> QED BY <1>6, <1>7

\* A file that is whole if there may be transactions and nothing cuts it.
LEMMA ExitSums ==
  ASSUME NEW how \in {"down", "shutdown"}, Exit(how),
         Transactions /\ CutEvents \cap scenario.may = {} => Complete(file')
  PROVE  FileSums' /\ RewriteSums'
<1>1. scenario' = scenario /\ aof_state' = "OFF" /\ aof_child_pid' = FALSE
  BY DEF Exit, settings
<1>2. Transactions' <=> Transactions
  BY <1>1 DEF Transactions
<1>3. FileSums'
  BY <1>1, <1>2 DEF FileSums, Complete
<1>4. RewriteSums'
  BY <1>1 DEF RewriteSums
<1> QED BY <1>3, <1>4

LEMMA ExitDurable ==
  ASSUME NEW how \in {"down", "shutdown"}, Exit(how),
         policy = "always" /\ aof_state = "ON" =>
           \A n \in synced' .. Len(file') : acked \subseteq WritesOf(Load(SubSeq(file', 1, n)).data)
  PROVE  Durable'
<1>1. /\ policy' = policy /\ aof_state' = "OFF" /\ loop' = how
      /\ acked' = IF aof_state = "ON" THEN acked ELSE {}
  BY DEF Exit, settings
<1>2. ~Up'
  BY <1>1 DEF Up
<1>3. policy = "always" => \A n \in synced' .. Len(file') : acked' \subseteq WritesOf(Load(SubSeq(file', 1, n)).data)
  BY <1>1
<1> QED BY <1>1, <1>2, <1>3 DEF Durable

\* A file that is synced is all that a power loss leaves.
LEMMA SyncedFile ==
  ASSUME Types, Modes, Durable, policy = "always", aof_state = "ON"
  PROVE  \A n \in synced .. Len(file) : /\ SubSeq(file, 1, n) = file
                                        /\ acked \subseteq WritesOf(Load(SubSeq(file, 1, n)).data)
<1>1. synced = Len(file) /\ acked \subseteq WritesOf(Load(file).data)
  BY DEF Durable
<1>2. Len(file) \in Nat /\ SubSeq(file, 1, Len(file)) = file
  BY FlushTypes, SubSeqFull
<1>3. \A n \in synced .. Len(file) : n = Len(file)
  BY <1>1, <1>2
<1> QED BY <1>1, <1>2, <1>3

\* What is left of the file after a power loss.
LEMMA CutFile ==
  ASSUME Types, Modes, NEW n \in synced .. Len(file)
  PROVE  SubSeq(file, 1, n) \in Seq(InFile) /\ Len(SubSeq(file, 1, n)) = n /\ synced \in 0 .. n
<1>1. file \in Seq(InFile) /\ Len(file) \in Nat /\ synced \in 0 .. Len(file)
  BY FlushTypes DEF Types
<1>2. 1 \in 1 .. Len(file) + 1 /\ n \in 1 - 1 .. Len(file) /\ n - 1 + 1 = n /\ synced \in 0 .. n
  BY <1>1
<1>3. SubSeq(file, 1, n) \in Seq(InFile) /\ Len(SubSeq(file, 1, n)) = n - 1 + 1
  BY <1>1, <1>2, SubSeqIn
<1> QED BY <1>2, <1>3

EndStep == Shutdown \/ Crash \/ PowerLoss \/ (RestartAof /\ loop' = "down")

LEMMA EndKeeps ==
  ASSUME Types, Modes, EndStep
  PROVE  Types' /\ Modes' /\ (FileSums /\ RewriteSums => FileSums' /\ RewriteSums') /\ (Durable => Durable')
<1>1. /\ file \in Seq(InFile) /\ Len(file) \in Nat /\ synced \in 0 .. Len(file)
      /\ faults \in 0 .. scenario.faults /\ scenario.faults \in Nat
  BY FlushTypes DEF Types
<1>2. ASSUME NEW how \in {"down", "shutdown"}, Exit(how), file' = file, synced' = synced \/ synced' = Len(file),
             faults' \in 0 .. scenario.faults
      PROVE  Types' /\ Modes' /\ (FileSums /\ RewriteSums => FileSums' /\ RewriteSums') /\ (Durable => Durable')
  <2>1. file' \in Seq(InFile) /\ synced' \in 0 .. Len(file')
    BY <1>1, <1>2
  <2>2. Types' /\ Modes'
    BY <1>2, <2>1, ExitTypes
  <2>3. ASSUME FileSums, RewriteSums  PROVE FileSums' /\ RewriteSums'
    <3>1. Transactions /\ CutEvents \cap scenario.may = {} => Complete(file')
      BY <1>2, <2>3 DEF FileSums
    <3> QED BY <1>2, <3>1, ExitSums
  <2>4. ASSUME Durable  PROVE Durable'
    <3>1. policy = "always" /\ aof_state = "ON" =>
            \A n \in synced' .. Len(file') : acked \subseteq WritesOf(Load(SubSeq(file', 1, n)).data)
      <4> SUFFICES ASSUME policy = "always", aof_state = "ON"
                   PROVE  \A n \in synced' .. Len(file') : acked \subseteq WritesOf(Load(SubSeq(file', 1, n)).data)
        OBVIOUS
      <4>1. synced' = synced
        BY <1>2, <2>4 DEF Durable
      <4> QED BY <1>2, <2>4, <4>1, SyncedFile
    <3> QED BY <1>2, <3>1, ExitDurable
  <2> QED BY <2>2, <2>3, <2>4
<1>3. \A kind : Fault(kind) => faults' \in 0 .. scenario.faults
  BY <1>1 DEF Fault
<1>4. CASE Shutdown
  <2>1. Exit("shutdown") /\ file' = file /\ (synced' = synced \/ synced' = Len(file)) /\ faults' = faults
    BY <1>4 DEF Shutdown
  <2> QED BY <1>1, <1>2, <2>1
<1>5. CASE Crash
  <2>1. Exit("down") /\ file' = file /\ synced' = synced /\ Fault("kill")
    BY <1>5 DEF Crash
  <2> QED BY <1>2, <1>3, <2>1
<1>6. CASE RestartAof /\ loop' = "down"
  <2>1. Exit("down") /\ file' = file /\ synced' = synced /\ Fault("fork")
    BY <1>6 DEF RestartAof
  <2> QED BY <1>2, <1>3, <2>1
<1>7. CASE PowerLoss
  <2>1. PICK n \in synced .. Len(file) : file' = SubSeq(file, 1, n)
    BY <1>7 DEF PowerLoss
  <2>2. Exit("down") /\ synced' = synced /\ Fault("power")
    BY <1>7 DEF PowerLoss
  <2>3. file' \in Seq(InFile) /\ Len(file') = n /\ synced' \in 0 .. Len(file')
    BY <2>1, <2>2, CutFile
  <2>4. Types' /\ Modes'
    BY <1>3, <2>2, <2>3, ExitTypes
  <2>5. FileSums' /\ RewriteSums'
    <3>1. "power" \in scenario.may
      BY <2>2 DEF Fault
    <3>2. CutEvents \cap scenario.may # {}
      BY <3>1 DEF CutEvents
    <3> QED BY <2>2, <3>2, ExitSums
  <2>6. ASSUME Durable  PROVE Durable'
    <3>1. policy = "always" /\ aof_state = "ON" =>
            \A k \in synced' .. Len(file') : acked \subseteq WritesOf(Load(SubSeq(file', 1, k)).data)
      <4> SUFFICES ASSUME policy = "always", aof_state = "ON", NEW k \in synced' .. Len(file')
                   PROVE  acked \subseteq WritesOf(Load(SubSeq(file', 1, k)).data)
        OBVIOUS
      <4>1. file' = file
        BY <2>1, <2>6, SyncedFile
      <4>2. k \in synced .. Len(file)
        BY <2>2, <4>1
      <4> QED BY <2>6, <4>1, <4>2, SyncedFile
    <3> QED BY <2>2, <3>1, ExitDurable
  <2> QED BY <2>4, <2>5, <2>6
<1> QED BY <1>4, <1>5, <1>6, <1>7 DEF EndStep

----------------------------------------------------------------------------
(* flushAppendOnlyFile, before the event loop waits and in serverCron.     *)

LEMMA WritesIn ==
  ASSUME NEW n \in Nat, NEW ds \in DataSets(n)
  PROVE  WritesOf(ds) \subseteq 1 .. n
<1>1. ds \in Seq(DBs \X (1 .. n))
  BY DEF DataSets
<1>2. DOMAIN ds = 1 .. Len(ds) /\ \A i \in 1 .. Len(ds) : ds[i] \in DBs \X (1 .. n)
  BY <1>1, ElementOfSeq, LenProperties
<1>3. \A i \in DOMAIN ds : ds[i][2] \in 1 .. n
  BY <1>2
<1> QED BY <1>3 DEF WritesOf

LEMMA FlushedFile ==
  ASSUME Types, Modes, FileSums, NEW force, NEW r, Flushed(r, force)
  PROVE  /\ aof_state = "ON" => Makes(r.file \o r.buf, data, selected_db)
         /\ aof_state = "ON" /\ r.buf = <<>> => Makes(r.file, data, selected_db)
         /\ Transactions /\ CutEvents \cap scenario.may = {} => Complete(r.file)
<1>1. aof_state = "ON" => Makes(r.file \o r.buf, data, selected_db)
  <2>1. r.file \o r.buf = file \o aof_buf
    BY DEF Flushed
  <2> QED BY <2>1 DEF FileSums
<1>2. r.buf = <<>> => r.file \o r.buf = r.file
  BY ConcatEmptySeq DEF Flushed
<1>3. aof_state = "ON" /\ r.buf = <<>> => Makes(r.file, data, selected_db)
  <2> SUFFICES ASSUME aof_state = "ON", r.buf = <<>>  PROVE Makes(r.file, data, selected_db)
    OBVIOUS
  <2>1. r.file \o r.buf = r.file
    BY <1>2
  <2> QED BY <1>1, <2>1
<1>4. ASSUME Transactions, CutEvents \cap scenario.may = {}  PROVE Complete(r.file)
  <2>1. r.buf = <<>> \/ r.file = file
    BY <1>4 DEF Flushed, CutEvents
  <2>2. CASE r.file = file
    BY <1>4, <2>2 DEF FileSums
  <2>3. CASE r.buf = <<>> /\ aof_state = "ON"
    BY <1>3, <2>3 DEF Makes, Complete
  <2>4. CASE r.buf = <<>> /\ aof_state # "ON"
    <3>1. aof_buf = <<>> /\ file \o <<>> = file
      BY <2>4, FlushTypes, ConcatEmptySeq
    <3>2. r.file = file \o aof_buf
      BY <1>2, <2>4 DEF Flushed
    <3> QED BY <1>4, <3>1, <3>2 DEF FileSums
  <2> QED BY <2>1, <2>2, <2>3, <2>4
<1> QED BY <1>1, <1>3, <1>4

LEMMA FlushExit ==
  ASSUME Types, Modes, NEW force, NEW r, Flushed(r, force), r.exit, Exit("down"), file' = r.file, synced' = synced,
         faults' = r.faults
  PROVE  Types' /\ Modes' /\ (FileSums => FileSums' /\ RewriteSums') /\ (Durable => Durable')
<1>1. r.file \in Seq(InFile) /\ Len(file) <= Len(r.file) /\ r.faults \in 0 .. scenario.faults
  BY DEF Flushed
<1>2. /\ synced \in 0 .. Len(file) /\ Len(file) \in Nat /\ Len(r.file) \in Nat /\ nwrites \in Nat
      /\ Transactions \in BOOLEAN /\ file \in Seq(InFile)
  BY <1>1, FlushTypes, LenProperties DEF Types
<1>3. synced \in 0 .. Len(r.file)
  BY <1>1, <1>2
<1>4. Types' /\ Modes'
  BY <1>1, <1>3, ExitTypes
<1>5. ASSUME FileSums  PROVE FileSums' /\ RewriteSums'
  <2>1. Transactions /\ CutEvents \cap scenario.may = {} => Complete(file')
    BY <1>5, FlushedFile
  <2> QED BY <2>1, ExitSums
<1>6. ASSUME Durable  PROVE Durable'
  <2>1. policy = "always" /\ aof_state = "ON" =>
          \A n \in synced' .. Len(file') : acked \subseteq WritesOf(Load(SubSeq(file', 1, n)).data)
    <3> SUFFICES ASSUME policy = "always", aof_state = "ON", NEW n \in synced' .. Len(file')
                 PROVE  acked \subseteq WritesOf(Load(SubSeq(file', 1, n)).data)
      OBVIOUS
    <3>1. PICK h \in Seq(Fed) : r.file = file \o h
      BY DEF Flushed
    <3>2. synced = Len(file) /\ Complete(file) /\ acked \subseteq WritesOf(Load(file).data)
      BY <1>6 DEF Durable
    <3>3. h \in Seq(InFile) /\ n \in Len(file) .. Len(file \o h)
      BY <1>2, <3>1, <3>2, Join DEF InFile, Fed
    <3> DEFINE p == SubSeq(h, 1, n - Len(file))
    <3>4. SubSeq(file \o h, 1, n) = file \o p
      BY <1>2, <3>3, Prefix
    <3>5. p \in Seq(Fed)
      <4>1. Len(h) \in Nat /\ Len(file \o h) = Len(file) + Len(h)
        BY <1>2, <3>1, Join DEF InFile, Fed
      <4>2. 1 \in 1 .. Len(h) + 1 /\ n - Len(file) \in 1 - 1 .. Len(h)
        BY <1>2, <3>3, <4>1
      <4> QED BY <3>1, <4>2, SubSeqIn
    <3> HIDE DEF p
    <3>6. WritesOf(Load(file).data) \subseteq WritesOf(Load(file \o p).data)
      BY <1>2, <3>2, <3>5, Grows DEF InFile, Fed
    <3>7. SubSeq(file', 1, n) = file \o p
      BY <3>1, <3>4
    <3> QED BY <3>2, <3>6, <3>7
  <2> QED BY <2>1, ExitDurable
<1> QED BY <1>4, <1>5, <1>6

\* The process goes on.
Flushes(r, next) ==
  /\ FlushTo(r) /\ faults' = r.faults /\ loop' = next
  /\ acked' = acked \/ acked' = acked \cup WritesOf(data)
  /\ UNCHANGED <<settings, dataVars, modeVars, fsyncing, childVars, rdbVars>>

LEMMA FlushesOn ==
  ASSUME Types, Modes, NEW force, NEW r, Flushed(r, force), ~r.exit, Up, NEW next \in {"events", "error"},
         Flushes(r, next)
  PROVE  /\ Types' /\ Modes'
         /\ FileSums /\ RewriteSums => FileSums' /\ RewriteSums'
         /\ FileSums /\ Durable /\ ~NoFsyncOnRewrite => Durable'
<1> USE DEF settings, dataVars, modeVars, childVars, rdbVars
<1>1. /\ UNCHANGED <<scenario, policy, data, nwrites, aof_state, aof_fd, selected_db, fsyncing, rewrite_scheduled,
                     rewrite_buf, base, aof_child_pid, aof_proc, rdb_child_pid, rdb_proc, orphan>>
      /\ file' = r.file /\ synced' = r.synced /\ current_size' = r.size /\ aof_buf' = r.buf /\ write_ok' = r.ok
      /\ postponed' = r.postponed /\ fsync_due' = r.due /\ jobs' = r.jobs /\ faults' = r.faults /\ loop' = next
      /\ acked' = acked \/ acked' = acked \cup WritesOf(data)
  BY DEF Flushes, FlushTo
<1>2. /\ r.file \in Seq(InFile) /\ r.buf \in Seq(Fed) /\ Len(file) <= Len(r.file) /\ r.synced \in 0 .. Len(r.file)
      /\ r.size \in Nat /\ (aof_state = "ON" => r.size = Len(r.file))
      /\ r.jobs \in Seq({"current", "old"}) /\ (jobs # <<>> => r.jobs # <<>> /\ Head(r.jobs) = Head(jobs))
      /\ r.postponed \in NotPostponed .. 2 /\ r.ok \in BOOLEAN /\ r.due \in BOOLEAN
      /\ r.faults \in 0 .. scenario.faults
      /\ r.buf # <<>> => aof_buf # <<>>
  BY DEF Flushed
<1>3. InFile' = InFile /\ Fed' = Fed /\ Data' = Data
  BY <1>1, SameSets
<1>4. acked' \subseteq 1 .. nwrites /\ fsyncing \in NotSyncing .. Len(r.file)
  <2>1. nwrites \in Nat /\ Len(file) \in Nat /\ Len(r.file) \in Nat
    BY <1>2, FlushTypes, LenProperties
  <2>2. WritesOf(data) \subseteq 1 .. nwrites
    BY <2>1, WritesIn DEF Types, Data
  <2>3. acked \subseteq 1 .. nwrites /\ fsyncing \in NotSyncing .. Len(file)
    BY DEF Types
  <2>4. fsyncing \in NotSyncing .. Len(r.file)
    BY <1>2, <2>1, <2>3 DEF NotSyncing
  <2> QED BY <1>1, <2>2, <2>3, <2>4
<1>5. Types'
  BY <1>1, <1>2, <1>3, <1>4, SMTT(30) DEF Types, NotPostponed, NotSyncing
<1>6. Up'
  BY <1>1 DEF Up
<1>7. Modes'
  BY <1>1, <1>2, <1>6 DEF Modes
<1>8. ASSUME FileSums, RewriteSums  PROVE FileSums' /\ RewriteSums'
  <2>1. Transactions' <=> Transactions
    BY <1>1 DEF Transactions
  <2>2. FileSums'
    BY <1>1, <1>8, <2>1, FlushedFile DEF FileSums, Complete, Makes
  <2>3. RewriteSums'
    BY <1>1, <1>8 DEF RewriteSums, Complete, Makes
  <2> QED BY <2>2, <2>3
<1>9. ASSUME FileSums, Durable, ~NoFsyncOnRewrite  PROVE Durable'
  <2> SUFFICES ASSUME policy = "always"  PROVE Durable'
    BY <1>1 DEF Durable
  <2>1. r.buf = <<>> /\ (r.synced = Len(r.file) \/ (r.file = file /\ r.synced = synced))
    BY <1>9 DEF Flushed
  <2>2. acked' \subseteq WritesOf(data)
    BY <1>1, <1>9 DEF Durable
  <2>3. ASSUME aof_state = "ON"
        PROVE  r.synced = Len(r.file) /\ Complete(r.file) /\ acked' \subseteq WritesOf(Load(r.file).data)
    <3>1. r.synced = Len(r.file)
      BY <1>9, <2>1, <2>3 DEF Durable
    <3>2. Makes(r.file, data, selected_db)
      BY <1>9, <2>1, <2>3, FlushedFile
    <3> QED BY <2>2, <3>1, <3>2 DEF Makes, Complete
  <2>4. acked' \subseteq WritesOf(data')
    BY <1>1, <2>2
  <2>5. aof_state' = "ON" => /\ synced' = Len(file') /\ Complete(file')
                             /\ acked' \subseteq WritesOf(Load(file').data)
    BY <1>1, <2>3 DEF Complete
  <2> QED BY <1>6, <2>4, <2>5 DEF Durable, Complete, WritesOf
<1> QED BY <1>5, <1>7, <1>8, <1>9

\* The steps of the event loop that flush.
LEMMA FlushKeeps ==
  ASSUME Types, Modes, NEW next \in {"events", "error"}, Up, Flush(next),
         IF loop' = "down" THEN TRUE ELSE acked' = acked \/ acked' = acked \cup WritesOf(data)
  PROVE  /\ Types' /\ Modes'
         /\ FileSums /\ RewriteSums => FileSums' /\ RewriteSums'
         /\ FileSums /\ Durable /\ ~NoFsyncOnRewrite => Durable'
<1>1. PICK r \in FlushResults(FALSE) :
        /\ faults' = r.faults
        /\ IF r.exit
           THEN Exit("down") /\ file' = r.file /\ UNCHANGED synced
           ELSE /\ FlushTo(r) /\ loop' = next
                /\ UNCHANGED <<settings, dataVars, modeVars, fsyncing, childVars, rdbVars>>
  BY DEF Flush
<1>2. Flushed(r, FALSE)
  BY FlushShape
<1>3. CASE r.exit
  BY <1>1, <1>2, <1>3, FlushExit
<1>4. CASE ~r.exit
  <2>1. Flushes(r, next)
    BY <1>1, <1>4 DEF Flushes
  <2> QED BY <1>2, <1>4, <2>1, FlushesOn
<1> QED BY <1>3, <1>4

FlushStep == BeforeSleep \/ CronPostponed \/ CronError

LEMMA FlushStepKeeps ==
  ASSUME Types, Modes, FlushStep
  PROVE  /\ Types' /\ Modes'
         /\ FileSums /\ RewriteSums => FileSums' /\ RewriteSums'
         /\ FileSums /\ Durable /\ ~NoFsyncOnRewrite => Durable'
<1>1. CASE BeforeSleep
  <2>1. /\ Up /\ Flush("events")
        /\ IF loop' = "down" THEN TRUE ELSE acked' = acked \cup WritesOf(data)
    BY <1>1 DEF BeforeSleep, InEvents, Up
  <2> QED BY <2>1, FlushKeeps
<1>2. ASSUME NEW step \in {"postponed", "error"}, NEW when, NEW next \in {"events", "error"}, CronFlush(step, when, next)
      PROVE  /\ Types' /\ Modes'
             /\ FileSums /\ RewriteSums => FileSums' /\ RewriteSums'
             /\ FileSums /\ Durable /\ ~NoFsyncOnRewrite => Durable'
  <2>1. Up
    BY <1>2 DEF CronFlush, Up
  <2>2. CASE when
    <3>1. Flush(next) /\ IF loop' = "down" THEN TRUE ELSE UNCHANGED acked
      BY <1>2, <2>2 DEF CronFlush
    <3> QED BY <2>1, <3>1, FlushKeeps
  <2>3. CASE ~when
    <3> USE DEF settings, dataVars, modeVars, diskVars, bufVars, childVars, rdbVars
    <3>1. /\ UNCHANGED <<scenario, policy, data, nwrites, acked, faults, aof_state, aof_fd, selected_db, file, synced,
                         current_size, aof_buf, write_ok, postponed, fsync_due, jobs, fsyncing,
                         rewrite_scheduled, rewrite_buf, base, aof_child_pid, aof_proc, rdb_child_pid, rdb_proc,
                         orphan>>
          /\ loop' = next
      BY <1>2, <2>3 DEF CronFlush
    <3>2. InFile' = InFile /\ Fed' = Fed /\ Data' = Data /\ Up'
      BY <3>1, SameSets DEF Up
    <3>3. Types'
      BY <3>1, <3>2 DEF Types, NotPostponed, NotSyncing
    <3>4. Modes'
      BY <2>1, <3>1, <3>2 DEF Modes
    <3>5. UNCHANGED sumVars
      BY <3>1 DEF sumVars
    <3>6. synced' \in synced .. Len(file) /\ synced' = synced
      <4>1. synced \in 0 .. Len(file) /\ Len(file) \in Nat
        BY FlushTypes DEF Types
      <4> QED BY <3>1, <4>1
    <3>7. Durable => Durable'
      BY <2>1, <3>1, <3>2, <3>6, DurableFrame
    <3> QED BY <3>3, <3>4, <3>5, <3>7, SumsFrame
  <2> QED BY <2>2, <2>3
<1>3. CASE CronPostponed
  BY <1>2, <1>3 DEF CronPostponed
<1>4. CASE CronError
  BY <1>2, <1>4 DEF CronError
<1> QED BY <1>1, <1>3, <1>4 DEF FlushStep

----------------------------------------------------------------------------
(* Commands.                                                               *)

LEMMA FeedUnits ==
  ASSUME NEW d, NEW cmds, Feed(d, cmds), NEW u, u = SelectFor(selected_db, d) \o cmds
  PROVE  /\ aof_state = "OFF" => UNCHANGED <<aof_buf, rewrite_buf, selected_db>>
         /\ aof_state # "OFF" => /\ aof_buf' = IF aof_state = "ON" THEN aof_buf \o u ELSE aof_buf
                                 /\ rewrite_buf' = IF aof_child_pid THEN rewrite_buf \o u ELSE rewrite_buf
                                 /\ selected_db' = d
BY DEF Feed, SelectFor

\* A file, a buffer and what is fed.
LEMMA FedMakes ==
  ASSUME NEW n \in Nat, NEW m \in BOOLEAN, NEW f \in Seq(FileUnits(n, m)), NEW b \in Seq(FedUnits(n, m)),
         NEW u \in Seq(FedUnits(n, m))
  PROVE  b \o u \in Seq(FedUnits(n, m)) /\ f \o (b \o u) = (f \o b) \o u
<1>1. b \o u \in Seq(FedUnits(n, m))
  BY ConcatProperties
<1>2. b \in Seq(FileUnits(n, m)) /\ u \in Seq(FileUnits(n, m))
  BY FedInFile
<1> DEFINE F == FileUnits(n, m)
<1>3. In(f, F) /\ In(b, F) /\ In(u, F)
  BY <1>2 DEF In
<1> HIDE DEF F
<1>4. Cat(f, Cat(b, u)) = Cat(Cat(f, b), u)
  BY <1>3, CatAssociative
<1> QED BY <1>1, <1>4, Zenon DEF Cat

\* Commands of two kinds: cmds are what is fed, and ds the data set they make.
LEMMA CommandKeeps ==
  ASSUME Types, Modes, NEW d \in DBs, NEW cmds, NEW ds, NEW k \in {1, 2},
         InEvents, nwrites + k <= scenario.writes, nwrites' = nwrites + k, data' = ds,
         Feed(d, cmds), UNCHANGED otherThanFeed,
         ds \in DataSets(nwrites'), WritesOf(data) \subseteq WritesOf(ds),
         \A f \in Seq(FileUnits(nwrites', Transactions)) : \A u :
            u = SelectFor(selected_db, d) \o cmds /\ Makes(f, data, selected_db)
               => Makes(f \o u, ds, d),
         \A u : u = SelectFor(selected_db, d) \o cmds => u \in Seq(FedUnits(nwrites', Transactions))
  PROVE  /\ Types' /\ Modes'
         /\ FileSums /\ RewriteSums => FileSums' /\ RewriteSums'
         /\ Durable => Durable'
<1> DEFINE u == SelectFor(selected_db, d) \o cmds
           n == nwrites + k
           m == Transactions
<1> USE DEF settings, diskVars, rdbVars
<1>1. /\ UNCHANGED <<scenario, policy, loop, acked, faults, aof_state, aof_fd, file, synced,
                     current_size, write_ok, postponed, fsync_due, jobs, fsyncing,
                     rewrite_scheduled, base, aof_child_pid, aof_proc, rdb_child_pid, rdb_proc, orphan>>
      /\ nwrites' = n /\ data' = ds /\ loop = "events"
  BY DEF otherThanFeed, InEvents
<1>2. /\ aof_state = "OFF" => UNCHANGED <<aof_buf, rewrite_buf, selected_db>>
      /\ aof_state # "OFF" => /\ aof_buf' = IF aof_state = "ON" THEN aof_buf \o u ELSE aof_buf
                              /\ rewrite_buf' = IF aof_child_pid THEN rewrite_buf \o u ELSE rewrite_buf
                              /\ selected_db' = d
  BY FeedUnits
<1>3. /\ nwrites \in Nat /\ n \in Nat /\ nwrites <= n /\ m \in BOOLEAN /\ n \in 0 .. scenario.writes
      /\ 1 .. nwrites \subseteq 1 .. n
  <2>1. nwrites \in Nat /\ m \in BOOLEAN /\ scenario.writes \in Nat
    BY FlushTypes
  <2> HIDE DEF m
  <2> QED BY <2>1
<1>4. u \in Seq(FedUnits(n, m))
  BY <1>1
<1> HIDE DEF u, m
<1>5. /\ Seq(FileUnits(nwrites, m)) \subseteq Seq(FileUnits(n, m))
      /\ Seq(FedUnits(nwrites, m)) \subseteq Seq(FedUnits(n, m)) /\ DataSets(nwrites) \subseteq DataSets(n)
  <2> HIDE DEF n
  <2> QED BY <1>3, MoreUnits
<1>6. InFile' = FileUnits(n, m) /\ Fed' = FedUnits(n, m) /\ Data' = DataSets(n) /\ (Transactions' <=> m)
  BY <1>1 DEF InFile, Fed, Data, Transactions, m
<1>7. /\ file \in Seq(FileUnits(n, m)) /\ aof_buf \in Seq(FedUnits(n, m)) /\ rewrite_buf \in Seq(FedUnits(n, m))
      /\ base \in DataSets(n) /\ acked \subseteq 1 .. n
  <2>1. /\ file \in Seq(FileUnits(nwrites, m)) /\ aof_buf \in Seq(FedUnits(nwrites, m))
        /\ rewrite_buf \in Seq(FedUnits(nwrites, m))
        /\ base \in DataSets(nwrites) /\ acked \subseteq 1 .. nwrites
    BY DEF Types, InFile, Fed, Data, m
  <2> QED BY <1>3, <1>5, <2>1
<1> HIDE DEF n
<1>8. aof_buf' \in Seq(FedUnits(n, m)) /\ rewrite_buf' \in Seq(FedUnits(n, m)) /\ selected_db' \in DBs \cup {-1}
  <2>1. aof_buf \o u \in Seq(FedUnits(n, m)) /\ rewrite_buf \o u \in Seq(FedUnits(n, m))
    BY <1>4, <1>7, ConcatProperties
  <2>2. selected_db \in DBs \cup {-1}
    BY DEF Types
  <2> QED BY <1>2, <1>7, <2>1, <2>2
<1>9. ds \in DataSets(n)
  BY <1>1
<1>10. Types'
  BY <1>1, <1>3, <1>6, <1>7, <1>8, <1>9 DEF Types, NotPostponed, NotSyncing
<1>11. Up /\ Up'
  BY <1>1 DEF Up
<1>12. Modes'
  BY <1>1, <1>2, <1>11 DEF Modes
<1>13. \A f \in Seq(FileUnits(n, m)) : Makes(f, data, selected_db) => Makes(f \o u, ds, d)
  BY <1>1 DEF u, m
<1>14. ASSUME FileSums  PROVE FileSums'
  <2>1. ASSUME aof_state = "ON"  PROVE Makes(file \o aof_buf', ds, d)
    <3>1. file \o aof_buf \in Seq(FileUnits(n, m)) /\ Makes(file \o aof_buf, data, selected_db)
      BY <1>3, <1>7, <1>14, <2>1, Join DEF FileSums
    <3>2. Makes((file \o aof_buf) \o u, ds, d)
      BY <1>13, <3>1
    <3>3. file \o (aof_buf \o u) = (file \o aof_buf) \o u
      BY <1>3, <1>4, <1>7, FedMakes
    <3>4. aof_buf' = aof_buf \o u
      BY <1>2, <2>1
    <3> QED BY <3>2, <3>3, <3>4
  <2>2. aof_state' = "ON" => Makes(file' \o aof_buf', data', selected_db')
    BY <1>1, <1>2, <2>1
  <2>3. Transactions' /\ CutEvents \cap scenario'.may = {} => Complete(file')
    BY <1>1, <1>6, <1>14 DEF FileSums, m
  <2> QED BY <2>2, <2>3 DEF FileSums, Complete, Makes
<1>15. ASSUME RewriteSums  PROVE RewriteSums'
  <2> DEFINE w == Rewritten(base)
  <2>1. w \in Seq(FileUnits(n, m))
    BY <1>3, <1>7, RewrittenMakes
  <2>2. ASSUME aof_child_pid, aof_state # "OFF"  PROVE Makes(w \o rewrite_buf', ds, d)
    <3>1. w \o rewrite_buf \in Seq(FileUnits(n, m)) /\ Makes(w \o rewrite_buf, data, selected_db)
      <4>1. Makes(w \o rewrite_buf, data, selected_db)
        BY <1>15, <2>2 DEF RewriteSums
      <4> HIDE DEF w
      <4> QED BY <1>3, <1>7, <2>1, <4>1, Join
    <3> HIDE DEF w
    <3>2. Makes((w \o rewrite_buf) \o u, ds, d)
      BY <1>13, <3>1
    <3>3. w \o (rewrite_buf \o u) = (w \o rewrite_buf) \o u
      BY <1>3, <1>4, <1>7, <2>1, FedMakes
    <3>4. rewrite_buf' = rewrite_buf \o u
      BY <1>2, <2>2
    <3> QED BY <3>2, <3>3, <3>4
  <2>3. ASSUME aof_child_pid, aof_state = "OFF"  PROVE Complete(w \o rewrite_buf')
    BY <1>2, <1>15, <2>3 DEF RewriteSums
  <2>4. aof_child_pid' => Complete(Rewritten(base') \o rewrite_buf')
    BY <1>1, <2>2, <2>3 DEF Complete, Makes
  <2>5. aof_child_pid' /\ aof_state' # "OFF" => Makes(Rewritten(base') \o rewrite_buf', data', selected_db')
    BY <1>1, <1>2, <2>2
  <2> QED BY <2>4, <2>5 DEF RewriteSums, Complete, Makes
<1>16. ASSUME Durable  PROVE Durable'
  <2>1. policy = "always" => acked' \subseteq WritesOf(data')
    BY <1>1, <1>11, <1>16 DEF Durable
  <2>2. policy = "always" /\ aof_state' = "ON" =>
          /\ synced' = Len(file') /\ Complete(file') /\ acked' \subseteq WritesOf(Load(file').data)
    BY <1>1, <1>16 DEF Durable
  <2> QED BY <1>1, <1>11, <2>1, <2>2 DEF Durable, Complete, WritesOf
<1> QED BY <1>10, <1>12, <1>14, <1>15, <1>16

LEMMA SelectIn ==
  ASSUME NEW n \in Nat, NEW m \in BOOLEAN, NEW e, NEW d \in DBs
  PROVE  SelectFor(e, d) \in Seq(FedUnits(n, m))
<1>1. Select(d) \in FedUnits(n, m)
  BY UnitTypes
<1>2. Units(Select(d)) \in Seq(FedUnits(n, m)) /\ <<>> \in Seq(FedUnits(n, m))
  BY <1>1, FedTypes
<1> QED BY <1>2 DEF SelectFor

LEMMA WriteCommandKeeps ==
  ASSUME Types, Modes, NEW d \in DBs, WriteCommand(d)
  PROVE  /\ Types' /\ Modes'
         /\ FileSums /\ RewriteSums => FileSums' /\ RewriteSums'
         /\ Durable => Durable'
<1> DEFINE w == nwrites + 1
           cmds == Units(WriteCmd(w))
           ds == Append(data, <<d, w>>)
<1>1. nwrites \in Nat /\ w \in Nat /\ w \in 1 .. w /\ nwrites <= w /\ Transactions \in BOOLEAN
  <2>1. nwrites \in Nat /\ Transactions \in BOOLEAN
    BY FlushTypes
  <2> QED BY <2>1
<1>2. /\ InEvents /\ nwrites + 1 <= scenario.writes /\ nwrites' = w
      /\ data' = data \o [i \in 1 .. 1 |-> <<d, NewWrites(1)[i]>>]
      /\ Feed(d, cmds) /\ UNCHANGED otherThanFeed
  BY DEF WriteCommand, Writes
<1>3. data \in DataSets(nwrites) /\ data \in DataSets(w) /\ <<d, w>> \in DBs \X (1 .. w)
  <2>1. data \in DataSets(nwrites)
    BY DEF Types, Data
  <2>2. <<d, w>> \in DBs \X (1 .. w)
    BY <1>1
  <2> HIDE DEF w
  <2> QED BY <1>1, <2>1, <2>2, MoreUnits
<1>4. data' = ds
  <2>1. [i \in 1 .. 1 |-> <<d, NewWrites(1)[i]>>] = << <<d, w>> >>
    BY DEF NewWrites
  <2> HIDE DEF w
  <2>2. ds = data \o << <<d, w>> >>
    BY <1>3, AppendIsConcat DEF DataSets
  <2> QED BY <1>2, <2>1, <2>2
<1>5. ds \in DataSets(w) /\ WritesOf(data) \subseteq WritesOf(ds)
  <2> HIDE DEF w
  <2>1. ds \in DataSets(w)
    BY <1>3, AppendProperties DEF DataSets
  <2>2. WritesOf(ds) = WritesOf(data) \cup {<<d, w>>[2]}
    BY <1>1, <1>3, WritesAppend
  <2> QED BY <2>1, <2>2
<1> HIDE DEF w, ds
<1>6. ASSUME NEW u, u = SelectFor(selected_db, d) \o cmds  PROVE u \in Seq(FedUnits(w, Transactions))
  <2>1. SelectFor(selected_db, d) \in Seq(FedUnits(w, Transactions))
    BY <1>1, SelectIn
  <2>2. WriteCmd(w) \in FedUnits(w, Transactions)
    BY <1>1, UnitTypes
  <2>3. cmds \in Seq(FedUnits(w, Transactions))
    BY <1>1, <2>2, FedTypes
  <2> HIDE DEF cmds
  <2> QED BY <1>6, <2>1, <2>3, ConcatProperties
<1>7. ASSUME NEW f \in Seq(FileUnits(w, Transactions)), NEW u, u = SelectFor(selected_db, d) \o cmds,
             Makes(f, data, selected_db)
      PROVE  Makes(f \o u, ds, d)
  BY <1>1, <1>7, WriteMakes DEF ds
<1>8. 1 \in {1, 2} /\ nwrites' = nwrites + 1
  BY <1>2 DEF w
<1> HIDE DEF cmds
<1>9. /\ \A u : u = SelectFor(selected_db, d) \o cmds => u \in Seq(FedUnits(nwrites', Transactions))
      /\ \A f \in Seq(FileUnits(nwrites', Transactions)) : \A u :
            u = SelectFor(selected_db, d) \o cmds /\ Makes(f, data, selected_db) => Makes(f \o u, ds, d)
      /\ ds \in DataSets(nwrites')
  BY <1>2, <1>5, <1>6, <1>7
<1> QED BY <1>2, <1>4, <1>5, <1>8, <1>9, CommandKeeps

LEMMA TransactionKeeps ==
  ASSUME Types, Modes, NEW d \in DBs, Transaction(d)
  PROVE  /\ Types' /\ Modes'
         /\ FileSums /\ RewriteSums => FileSums' /\ RewriteSums'
         /\ Durable => Durable'
<1> DEFINE v == nwrites + 1
           w == nwrites + 2
           cmds == Units(Multi) \o Units(WriteCmd(v)) \o Units(WriteCmd(w)) \o Units(Exec)
           x == Append(data, <<d, v>>)
           ds == Append(x, <<d, w>>)
<1>1. nwrites \in Nat /\ w \in Nat /\ v \in 1 .. w /\ w \in 1 .. w /\ nwrites <= w /\ Transactions = TRUE
  <2>1. nwrites \in Nat
    BY FlushTypes
  <2>2. "multi" \in scenario.may
    BY DEF Transaction
  <2> QED BY <2>1, <2>2 DEF Transactions
<1>2. /\ InEvents /\ nwrites + 2 <= scenario.writes /\ nwrites' = w
      /\ data' = data \o [i \in 1 .. 2 |-> <<d, NewWrites(2)[i]>>]
      /\ Feed(d, cmds) /\ UNCHANGED otherThanFeed
  BY DEF Transaction, Writes
<1>3. data \in DataSets(nwrites) /\ data \in DataSets(w) /\ <<d, v>> \in DBs \X (1 .. w) /\ <<d, w>> \in DBs \X (1 .. w)
  <2>1. data \in DataSets(nwrites)
    BY DEF Types, Data
  <2>2. <<d, v>> \in DBs \X (1 .. w) /\ <<d, w>> \in DBs \X (1 .. w)
    BY <1>1
  <2> HIDE DEF w
  <2> QED BY <1>1, <2>1, <2>2, MoreUnits
<1>4. data' = ds
  <2>1. [i \in 1 .. 2 |-> <<d, NewWrites(2)[i]>>] = << <<d, v>>, <<d, w>> >>
    <3>1. \A i \in 1 .. 2 : i = 1 \/ i = 2
      OBVIOUS
    <3> QED BY <3>1 DEF NewWrites
  <2> DEFINE p == <<d, v>>
             q == <<d, w>>
  <2> HIDE DEF p, q
  <2>2. p \in DBs \X (1 .. w) /\ q \in DBs \X (1 .. w) /\ data \in Seq(DBs \X (1 .. w))
    BY <1>3 DEF p, q, DataSets
  <2>3. Append(Append(data, p), q) = data \o <<p, q>>
    BY <2>2, AppendTwo
  <2> HIDE DEF w, v
  <2> QED BY <1>2, <2>1, <2>3 DEF p, q
<1>5. ds \in DataSets(w) /\ WritesOf(data) \subseteq WritesOf(ds)
  <2> HIDE DEF w, v
  <2>1. x \in DataSets(w)
    BY <1>3, AppendProperties DEF DataSets
  <2>2. WritesOf(x) = WritesOf(data) \cup {<<d, v>>[2]}
    BY <1>1, <1>3, WritesAppend
  <2> HIDE DEF x
  <2>3. ds \in DataSets(w)
    BY <1>3, <2>1, AppendProperties DEF DataSets
  <2>4. WritesOf(ds) = WritesOf(x) \cup {<<d, w>>[2]}
    BY <1>1, <1>3, <2>1, WritesAppend
  <2> QED BY <2>2, <2>3, <2>4
<1> HIDE DEF w, v, x, ds
<1>6. ASSUME NEW u, u = SelectFor(selected_db, d) \o cmds  PROVE u \in Seq(FedUnits(w, Transactions))
  <2> DEFINE G == FedUnits(w, Transactions)
             s == SelectFor(selected_db, d)
             v1 == Units(Multi)
             v2 == Units(WriteCmd(v))
             v3 == Units(WriteCmd(w))
             v4 == Units(Exec)
  <2>1. s \in Seq(G)
    BY <1>1, SelectIn
  <2>2. Multi \in G /\ WriteCmd(v) \in G /\ WriteCmd(w) \in G /\ Exec \in G
    BY <1>1, UnitTypes
  <2>3. v1 \in Seq(G) /\ v2 \in Seq(G) /\ v3 \in Seq(G) /\ v4 \in Seq(G)
    BY <1>1, <2>2, FedTypes
  <2>4. u = s \o (v1 \o v2 \o v3 \o v4)
    BY <1>6, Zenon
  <2> HIDE DEF G, s, v1, v2, v3, v4, cmds
  <2>5. s \o (v1 \o v2 \o v3 \o v4) \in Seq(G)
    BY <2>1, <2>3, ChainIn
  <2> QED BY <2>4, <2>5 DEF G
<1>7. ASSUME NEW f \in Seq(FileUnits(w, Transactions)), NEW u, u = SelectFor(selected_db, d) \o cmds,
             Makes(f, data, selected_db)
      PROVE  Makes(f \o u, ds, d)
  <2>1. u = SelectFor(selected_db, d) \o (Units(Multi) \o Units(WriteCmd(v)) \o Units(WriteCmd(w)) \o Units(Exec))
    BY <1>7
  <2> HIDE DEF cmds
  <2>2. Makes(f \o u, Append(Append(data, <<d, v>>), <<d, w>>), d)
    BY <1>1, <1>7, <2>1, TransactionMakes
  <2> QED BY <2>2 DEF ds, x
<1>8. 2 \in {1, 2} /\ nwrites' = nwrites + 2
  BY <1>2 DEF w
<1> HIDE DEF cmds
<1>9. /\ \A u : u = SelectFor(selected_db, d) \o cmds => u \in Seq(FedUnits(nwrites', Transactions))
      /\ \A f \in Seq(FileUnits(nwrites', Transactions)) : \A u :
            u = SelectFor(selected_db, d) \o cmds /\ Makes(f, data, selected_db) => Makes(f \o u, ds, d)
      /\ ds \in DataSets(nwrites')
  BY <1>2, <1>5, <1>6, <1>7
<1> QED BY <1>2, <1>4, <1>5, <1>8, <1>9, CommandKeeps

----------------------------------------------------------------------------
(* Children, and the AOF turned on.                                        *)

unchangedByChildren ==
  <<scenario, policy, data, nwrites, acked, file, synced, current_size, aof_buf, write_ok, postponed, jobs,
    fsyncing, rewrite_buf>>

ChildVarsTyped ==
  /\ aof_child_pid' \in BOOLEAN /\ (aof_child_pid => aof_child_pid')
  /\ aof_proc' \in {"none", "run", "ok", "fail"} /\ (aof_proc' # "none" => aof_child_pid')
  /\ rewrite_scheduled' \in BOOLEAN /\ base' \in {base, data} /\ selected_db' \in {selected_db, -1}
  /\ faults' \in 0 .. scenario.faults

RdbVarsTyped ==
  rdb_child_pid' \in BOOLEAN /\ rdb_proc' \in {"none", "run", "ok"} /\ orphan' \in BOOLEAN

\* The AOF is as it was, or has been turned on.
TurnedOn ==
  /\ aof_state' = aof_state \/ (aof_state = "OFF" /\ aof_state' = "WAIT_REWRITE")
  /\ aof_fd' \in {"none", "open", "stale"} /\ (aof_state' # "OFF" => aof_fd' = "open")

LEMMA ChildTypes ==
  ASSUME Types, Modes, Up, loop' \in {"events", "reap", "postponed"}, UNCHANGED unchangedByChildren,
         ChildVarsTyped, RdbVarsTyped, TurnedOn, fsync_due' \in BOOLEAN
  PROVE  /\ Types' /\ Modes'
         /\ FileSums => FileSums'
         /\ Durable => Durable'
<1>1. /\ UNCHANGED <<scenario, policy, data, nwrites, acked, file, synced, current_size, aof_buf, write_ok, postponed,
                     jobs, fsyncing, rewrite_buf>>
  BY DEF unchangedByChildren
<1>2. InFile' = InFile /\ Fed' = Fed /\ Data' = Data /\ (Transactions' <=> Transactions) /\ Up'
  BY <1>1, SameSets DEF Up
<1>3. /\ base' \in Data /\ selected_db' \in DBs \cup {-1} /\ faults' \in 0 .. scenario.faults
      /\ aof_child_pid' \in BOOLEAN /\ aof_proc' \in {"none", "run", "ok", "fail"} /\ rewrite_scheduled' \in BOOLEAN
      /\ rdb_child_pid' \in BOOLEAN /\ rdb_proc' \in {"none", "run", "ok"} /\ orphan' \in BOOLEAN
      /\ aof_state' \in States /\ aof_fd' \in {"none", "open", "stale"}
  BY DEF Types, ChildVarsTyped, RdbVarsTyped, TurnedOn, States
<1>4. Types'
  BY <1>1, <1>2, <1>3 DEF Types, NotPostponed, NotSyncing
<1>5. Modes'
  BY <1>1, <1>2 DEF Modes, TurnedOn, ChildVarsTyped
<1>6. aof_state' = "ON" => aof_state = "ON"
  BY DEF TurnedOn
<1>7. ASSUME FileSums  PROVE FileSums'
  <2>1. aof_state = "ON" => Makes(file \o aof_buf, data, selected_db')
    BY <1>7 DEF FileSums, Makes, ChildVarsTyped
  <2> QED BY <1>1, <1>2, <1>6, <1>7, <2>1 DEF FileSums, Makes, Complete
<1>8. ASSUME Durable  PROVE Durable'
  <2>1. synced' \in synced .. Len(file) /\ synced' = synced
    <3>1. synced \in 0 .. Len(file) /\ Len(file) \in Nat
      BY FlushTypes DEF Types
    <3> QED BY <1>1, <3>1
  <2> QED BY <1>1, <1>2, <1>6, <1>8, <2>1, DurableFrame
<1> QED BY <1>4, <1>5, <1>7, <1>8

\* A child that is started has the data set, and nothing was fed since.
LEMMA ForkMakes ==
  ASSUME Types, Modes, Fork, data' = data
  PROVE  RewriteSums'
<1>1. /\ aof_child_pid' = TRUE /\ base' = data /\ selected_db' = -1 /\ rewrite_buf' = rewrite_buf /\ ~aof_child_pid
  BY DEF Fork
<1>2. rewrite_buf = <<>>
  BY <1>1 DEF Modes
<1>3. Rewritten(data) \in Seq(InFile) /\ Makes(Rewritten(data), data, -1)
  <2>1. nwrites \in Nat /\ Transactions \in BOOLEAN /\ data \in DataSets(nwrites)
    BY FlushTypes DEF Types, Data
  <2> QED BY <2>1, RewrittenMakes DEF InFile
<1>4. Rewritten(data) \o <<>> = Rewritten(data)
  BY <1>3, ConcatEmptySeq
<1>5. Rewritten(base') \o rewrite_buf' = Rewritten(data)
  <2>1. base' = data /\ rewrite_buf' = <<>>
    BY <1>1, <1>2
  <2> QED BY <1>4, <2>1
<1>6. Makes(Rewritten(base') \o rewrite_buf', data', selected_db')
  BY <1>1, <1>3, <1>5
<1> QED BY <1>6 DEF RewriteSums, Makes, Complete

LEMMA Forking ==
  ASSUME Types, Modes, Fork \/ ForkFails \/ UNCHANGED <<childVars, selected_db, faults>>
  PROVE  /\ ChildVarsTyped /\ rewrite_buf' = rewrite_buf
         /\ RewriteSums /\ data' = data /\ (aof_state' # "OFF" => aof_state # "OFF" \/ Fork) => RewriteSums'
<1>1. /\ aof_child_pid \in BOOLEAN /\ aof_proc \in {"none", "run", "ok", "fail"} /\ (aof_proc # "none" => aof_child_pid)
      /\ rewrite_scheduled \in BOOLEAN /\ faults \in 0 .. scenario.faults /\ scenario.faults \in Nat
  <2>1. scenario.faults \in Nat
    BY FlushTypes
  <2> QED BY <2>1 DEF Types, Modes
<1>2. CASE Fork
  <2>1. /\ aof_child_pid' = TRUE /\ aof_proc' = "run" /\ base' = data /\ rewrite_scheduled' = FALSE /\ selected_db' = -1
        /\ UNCHANGED <<rewrite_buf, faults>>
    BY <1>2 DEF Fork
  <2>2. ChildVarsTyped
    BY <1>1, <2>1 DEF ChildVarsTyped
  <2> QED BY <1>2, <2>1, <2>2, ForkMakes
<1>3. CASE ~Fork
  <2>1. UNCHANGED <<childVars, selected_db>> /\ (faults' = faults \/ (faults' = faults + 1 /\ faults < scenario.faults))
    BY <1>3 DEF ForkFails, Fault
  <2>2. UNCHANGED <<rewrite_scheduled, rewrite_buf, base, aof_child_pid, aof_proc, selected_db>>
    BY <2>1 DEF childVars
  <2>3. faults' \in 0 .. scenario.faults
    BY <1>1, <2>1
  <2>4. ChildVarsTyped
    BY <1>1, <2>2, <2>3 DEF ChildVarsTyped
  <2>5. RewriteSums /\ data' = data /\ (aof_state' # "OFF" => aof_state # "OFF") => RewriteSums'
    BY <2>2 DEF RewriteSums, Makes, Complete
  <2> QED BY <1>3, <2>2, <2>4, <2>5
<1> QED BY <1>2, <1>3

SavesStep ==
  /\ loop = "reap" /\ loop' = "postponed" /\ CronSaves
  /\ UNCHANGED <<settings, dataVars, acked>>

ChildStep == bgrewriteaofCommand \/ CronRewrite \/ ConfigYes \/ (RestartAof /\ loop' # "down") \/ SavesStep

\* Every one of these steps starts a child, fails to, or does neither.
LEMMA ChildStepForks ==
  ASSUME Types, Modes, ChildStep
  PROVE  /\ Fork \/ ForkFails \/ UNCHANGED <<childVars, selected_db, faults>>
            \/ (ChildVarsTyped /\ UNCHANGED <<rewrite_buf, base, aof_child_pid, selected_db>>)
         /\ Up /\ loop' \in {"events", "reap", "postponed"}
         /\ UNCHANGED <<scenario, policy, data, nwrites, acked, file, synced, current_size, aof_buf, write_ok, postponed,
                        jobs, fsyncing>>
         /\ RdbVarsTyped /\ TurnedOn /\ fsync_due' \in BOOLEAN
         /\ aof_state' = aof_state \/ Fork
<1>1. /\ aof_child_pid \in BOOLEAN /\ aof_proc \in {"none", "run", "ok", "fail"} /\ (aof_proc # "none" => aof_child_pid)
      /\ rewrite_scheduled \in BOOLEAN /\ faults \in 0 .. scenario.faults
      /\ rdb_child_pid \in BOOLEAN /\ rdb_proc \in {"none", "run", "ok"} /\ orphan \in BOOLEAN
      /\ fsync_due \in BOOLEAN /\ aof_fd \in {"none", "open", "stale"} /\ (aof_state # "OFF" => aof_fd = "open")
      /\ loop = "restart" => aof_state = "OFF"
  BY DEF Types, Modes
<1> USE DEF settings, dataVars, modeVars, diskVars, bufVars, rdbVars
<1>2. CASE bgrewriteaofCommand
  <2>1. /\ UNCHANGED <<loop, scenario, policy, data, nwrites, acked, aof_state, aof_fd, file, synced, current_size,
                       aof_buf, write_ok, postponed, fsync_due, jobs, fsyncing, rdb_child_pid, rdb_proc, orphan>>
        /\ loop = "events"
    BY <1>2 DEF bgrewriteaofCommand, InEvents
  <2>2. \/ Fork \/ ForkFails
        \/ /\ rewrite_scheduled' = TRUE
           /\ UNCHANGED <<rewrite_buf, base, aof_child_pid, aof_proc, selected_db, faults>>
    BY <1>2 DEF bgrewriteaofCommand
  <2>3. ASSUME rewrite_scheduled' = TRUE,
               UNCHANGED <<rewrite_buf, base, aof_child_pid, aof_proc, selected_db, faults>>
        PROVE  ChildVarsTyped
    BY <1>1, <2>1, <2>3 DEF ChildVarsTyped
  <2> QED BY <1>1, <2>1, <2>2, <2>3 DEF RdbVarsTyped, TurnedOn, Up
<1>3. CASE CronRewrite
  <2>1. /\ UNCHANGED <<scenario, policy, data, nwrites, acked, aof_state, aof_fd, file, synced, current_size,
                       aof_buf, write_ok, postponed, fsync_due, jobs, fsyncing, rdb_child_pid, rdb_proc, orphan>>
        /\ loop = "events" /\ loop' = "reap"
    BY <1>3 DEF CronRewrite, InEvents
  <2>2. Fork \/ ForkFails \/ UNCHANGED <<childVars, selected_db, faults>>
    BY <1>3 DEF CronRewrite
  <2> QED BY <1>1, <2>1, <2>2 DEF RdbVarsTyped, TurnedOn, Up
<1>4. ASSUME Start \/ StartFails, loop \in {"events", "restart"}, loop' = "events", aof_state = "OFF"
      PROVE  /\ Fork \/ ForkFails \/ UNCHANGED <<childVars, selected_db, faults>>
             /\ Up /\ loop' \in {"events", "reap", "postponed"}
             /\ UNCHANGED <<scenario, policy, data, nwrites, acked, file, synced, current_size, aof_buf, write_ok, postponed,
                            jobs, fsyncing>>
             /\ RdbVarsTyped /\ TurnedOn /\ fsync_due' \in BOOLEAN
             /\ aof_state' = aof_state \/ Fork
  <2>1. CASE Start
    <3>1. /\ Fork /\ aof_fd' = "open" /\ aof_state' = "WAIT_REWRITE" /\ fsync_due' = FALSE
          /\ UNCHANGED <<scenario, policy, data, nwrites, acked, file, synced, current_size,
                         aof_buf, write_ok, postponed, jobs, fsyncing, rdb_child_pid, rdb_proc, orphan>>
      BY <2>1 DEF Start, notStart
    <3> QED BY <1>1, <1>4, <3>1 DEF RdbVarsTyped, TurnedOn, Up
  <2>2. CASE StartFails
    <3>1. /\ ForkFails \/ UNCHANGED <<childVars, selected_db, faults>>
          /\ aof_fd' = "stale" /\ aof_state' = aof_state /\ fsync_due' = FALSE
          /\ UNCHANGED <<scenario, policy, data, nwrites, acked, file, synced, current_size,
                         aof_buf, write_ok, postponed, jobs, fsyncing, rdb_child_pid, rdb_proc, orphan>>
      BY <2>2 DEF StartFails, notStart
    <3> QED BY <1>1, <1>4, <3>1 DEF RdbVarsTyped, TurnedOn, Up
  <2> QED BY <1>4, <2>1, <2>2
<1>5. CASE ConfigYes
  <2>1. (Start \/ StartFails) /\ loop = "events" /\ loop' = "events" /\ aof_state = "OFF"
    BY <1>5 DEF ConfigYes, InEvents
  <2> QED BY <1>4, <2>1
<1>6. CASE RestartAof /\ loop' # "down"
  <2>1. (Start \/ StartFails) /\ loop = "restart" /\ loop' = "events" /\ aof_state = "OFF"
    BY <1>1, <1>6 DEF RestartAof, Exit
  <2> QED BY <1>4, <2>1
<1>7. CASE SavesStep
  <2>1. UNCHANGED <<scenario, policy, data, nwrites, acked>> /\ loop = "reap" /\ loop' = "postponed" /\ CronSaves
    BY <1>7 DEF SavesStep
  <2>2. /\ UNCHANGED <<aof_state, aof_fd, file, synced, current_size, aof_buf, write_ok, postponed, fsync_due, jobs,
                       fsyncing>>
        /\ \/ rdb_child_pid' = TRUE /\ rdb_proc' = "run" /\ orphan' = orphan
           \/ UNCHANGED <<rdb_child_pid, rdb_proc, orphan>>
        /\ Fork \/ ForkFails \/ UNCHANGED <<childVars, selected_db, faults>>
    BY <2>1 DEF CronSaves, handlerVars, childVars
  <2> QED BY <1>1, <2>1, <2>2 DEF RdbVarsTyped, TurnedOn, Up
<1> QED BY <1>2, <1>3, <1>5, <1>6, <1>7 DEF ChildStep

LEMMA ChildStepKeeps ==
  ASSUME Types, Modes, ChildStep
  PROVE  /\ Types' /\ Modes'
         /\ FileSums /\ RewriteSums => FileSums' /\ RewriteSums'
         /\ Durable => Durable'
<1>1. /\ Fork \/ ForkFails \/ UNCHANGED <<childVars, selected_db, faults>>
         \/ (ChildVarsTyped /\ UNCHANGED <<rewrite_buf, base, aof_child_pid, selected_db>>)
      /\ Up /\ loop' \in {"events", "reap", "postponed"}
      /\ UNCHANGED <<scenario, policy, data, nwrites, acked, file, synced, current_size, aof_buf, write_ok, postponed,
                     jobs, fsyncing>>
      /\ RdbVarsTyped /\ TurnedOn /\ fsync_due' \in BOOLEAN
      /\ aof_state' = aof_state \/ Fork
  BY ChildStepForks
<1>2. CASE Fork \/ ForkFails \/ UNCHANGED <<childVars, selected_db, faults>>
  <2>1. ChildVarsTyped /\ rewrite_buf' = rewrite_buf /\ (RewriteSums => RewriteSums')
    BY <1>1, <1>2, Forking
  <2>2. UNCHANGED unchangedByChildren
    BY <1>1, <2>1 DEF unchangedByChildren
  <2> QED BY <1>1, <2>1, <2>2, ChildTypes
<1>3. CASE ~(Fork \/ ForkFails \/ UNCHANGED <<childVars, selected_db, faults>>)
  <2>1. ChildVarsTyped /\ UNCHANGED <<rewrite_buf, base, aof_child_pid, selected_db>> /\ aof_state' = aof_state
    BY <1>1, <1>3
  <2>2. UNCHANGED unchangedByChildren
    BY <1>1, <2>1 DEF unchangedByChildren
  <2>3. RewriteSums => RewriteSums'
    BY <1>1, <2>1 DEF RewriteSums, Makes, Complete
  <2> QED BY <1>1, <2>1, <2>2, <2>3, ChildTypes
<1> QED BY <1>2, <1>3

----------------------------------------------------------------------------
(* A child has ended.                                                      *)

LEMMA OldJobsIn ==
  ASSUME NEW q \in Seq({"current", "old"})
  PROVE  /\ OldJobs(q) \in Seq({"current", "old"})
         /\ Append(OldJobs(q), "current") \in Seq({"current", "old"})
<1>1. DOMAIN q = 1 .. Len(q) /\ Len(q) \in Nat
  BY LenProperties
<1>2. OldJobs(q) = [i \in 1 .. Len(q) |-> "old"]
  BY <1>1 DEF OldJobs
<1>3. OldJobs(q) \in Seq({"current", "old"})
  BY <1>1, <1>2, IsASeq
<1>4. "current" \in {"current", "old"}
  OBVIOUS
<1> QED BY <1>3, <1>4, AppendProperties

LEMMA NewFileIn ==
  ASSUME Types, Modes
  PROVE  LET new == Rewritten(base) \o rewrite_buf
         IN  /\ new \in Seq(InFile) /\ Len(new) \in Nat /\ Len(Rewritten(base)) \in 0 .. Len(new)
             /\ Len(new) \in 0 .. Len(new)
<1> DEFINE w == Rewritten(base)
<1>1. nwrites \in Nat /\ Transactions \in BOOLEAN
  BY FlushTypes
<1>2. base \in DataSets(nwrites) /\ rewrite_buf \in Seq(FedUnits(nwrites, Transactions))
  BY DEF Types, Data, Fed
<1>3. w \in Seq(FileUnits(nwrites, Transactions))
  BY <1>1, <1>2, RewrittenMakes
<1> HIDE DEF w
<1>4. /\ w \o rewrite_buf \in Seq(FileUnits(nwrites, Transactions))
      /\ Len(w) \in Nat /\ Len(rewrite_buf) \in Nat /\ Len(w \o rewrite_buf) = Len(w) + Len(rewrite_buf)
  BY <1>1, <1>2, <1>3, Join
<1>5. Len(w \o rewrite_buf) \in Nat /\ Len(w) \in 0 .. Len(w \o rewrite_buf)
      /\ Len(w \o rewrite_buf) \in 0 .. Len(w \o rewrite_buf)
  BY <1>4
<1> QED BY <1>4, <1>5 DEF w, InFile

unchangedByDone == <<scenario, policy, data, nwrites, acked, write_ok, postponed, fsync_due>>

\* What follows a rewrite that is over.
DoneStep ==
  /\ loop = "reap" /\ loop' = "postponed" /\ Cleanup /\ aof_proc' = "none"
  /\ UNCHANGED unchangedByDone /\ UNCHANGED rdbVars

LEMMA DoneWithout ==
  ASSUME Types, Modes, DoneStep, UNCHANGED <<modeVars, diskVars, aof_buf, jobs, fsyncing>>,
         faults' \in 0 .. scenario.faults
  PROVE  /\ Types' /\ Modes'
         /\ FileSums => FileSums' /\ RewriteSums'
         /\ Durable => Durable'
<1> USE DEF modeVars, diskVars, rdbVars
<1>1. /\ UNCHANGED <<scenario, policy, data, nwrites, acked, write_ok, postponed, fsync_due, aof_state, aof_fd, selected_db,
                     file, synced, current_size, aof_buf, jobs, fsyncing, rdb_child_pid, rdb_proc, orphan>>
      /\ loop = "reap" /\ loop' = "postponed" /\ aof_proc' = "none"
      /\ rewrite_buf' = <<>> /\ base' = <<>> /\ aof_child_pid' = FALSE /\ rewrite_scheduled' \in BOOLEAN
  <2>1. rewrite_scheduled \in BOOLEAN
    BY DEF Types
  <2> QED BY <2>1 DEF DoneStep, unchangedByDone, Cleanup
<1>2. InFile' = InFile /\ Fed' = Fed /\ Data' = Data /\ (Transactions' <=> Transactions) /\ Up /\ Up'
  BY <1>1, SameSets DEF Up
<1>3. <<>> \in Data /\ <<>> \in Seq(Fed)
  <2>1. <<>> \in Data
    BY DEF Data, DataSets
  <2> QED BY <2>1
<1>4. Types'
  BY <1>1, <1>2, <1>3 DEF Types, NotPostponed, NotSyncing
<1>5. Modes'
  BY <1>1, <1>2 DEF Modes
<1>6. FileSums => FileSums'
  BY <1>1, <1>2 DEF FileSums, Makes, Complete
<1>7. RewriteSums'
  BY <1>1 DEF RewriteSums
<1>8. Durable => Durable'
  <2>1. synced' \in synced .. Len(file) /\ synced' = synced
    <3>1. synced \in 0 .. Len(file) /\ Len(file) \in Nat
      BY FlushTypes DEF Types
    <3> QED BY <1>1, <3>1
  <2> QED BY <1>1, <1>2, <2>1, DurableFrame
<1> QED BY <1>4, <1>5, <1>6, <1>7, <1>8

LEMMA DoneWith ==
  ASSUME Types, Modes, DoneStep, NewFile, aof_child_pid, UNCHANGED faults
  PROVE  /\ Types' /\ Modes'
         /\ RewriteSums => FileSums' /\ RewriteSums'
         /\ RewriteSums /\ Durable => Durable'
<1> DEFINE new == Rewritten(base) \o rewrite_buf
<1> USE DEF rdbVars
<1>1. /\ UNCHANGED <<scenario, policy, data, nwrites, acked, faults, write_ok, postponed, fsync_due,
                     rdb_child_pid, rdb_proc, orphan>>
      /\ loop = "reap" /\ loop' = "postponed" /\ aof_proc' = "none"
      /\ rewrite_buf' = <<>> /\ base' = <<>> /\ aof_child_pid' = FALSE /\ rewrite_scheduled' \in BOOLEAN
  <2>1. rewrite_scheduled \in BOOLEAN
    BY DEF Types
  <2> QED BY <2>1 DEF DoneStep, unchangedByDone, Cleanup
<1>2. /\ file' = new /\ fsyncing' = NotSyncing
      /\ aof_state' = IF aof_state = "WAIT_REWRITE" THEN "ON" ELSE aof_state
      /\ aof_fd = "none" => /\ synced' = Len(Rewritten(base)) /\ jobs' = OldJobs(jobs)
                            /\ UNCHANGED <<aof_fd, selected_db, current_size, aof_buf>>
      /\ aof_fd # "none" => /\ aof_fd' = "open" /\ selected_db' = -1
                            /\ synced' = IF policy = "always" THEN Len(new) ELSE Len(Rewritten(base))
                            /\ jobs' = IF policy = "everysec" THEN Append(OldJobs(jobs), "current") ELSE OldJobs(jobs)
                            /\ current_size' = Len(new) /\ aof_buf' = <<>>
  BY DEF NewFile
<1>3. /\ new \in Seq(InFile) /\ Len(new) \in Nat /\ Len(Rewritten(base)) \in 0 .. Len(new) /\ Len(new) \in 0 .. Len(new)
  BY NewFileIn
<1>4. new \o <<>> = new
  BY <1>3, ConcatEmptySeq
<1> HIDE DEF new
<1>5. InFile' = InFile /\ Fed' = Fed /\ Data' = Data /\ (Transactions' <=> Transactions) /\ Up /\ Up'
  BY <1>1, SameSets DEF Up
<1>6. <<>> \in Data /\ <<>> \in Seq(Fed)
  <2>1. <<>> \in Data
    BY DEF Data, DataSets
  <2> QED BY <2>1
<1>7. jobs' \in Seq({"current", "old"})
  BY <1>2, OldJobsIn DEF Types
<1>8. aof_state # "OFF" => aof_fd = "open"
  BY DEF Modes
<1>9. /\ synced' \in 0 .. Len(file') /\ current_size' \in Nat /\ fsyncing' \in NotSyncing .. Len(file')
      /\ aof_fd' \in {"none", "open", "stale"} /\ selected_db' \in DBs \cup {-1} /\ aof_buf' \in Seq(Fed)
      /\ aof_state' \in States
  <2>1. NotSyncing \in NotSyncing .. Len(new)
    BY <1>3 DEF NotSyncing
  <2>2. current_size \in Nat /\ aof_fd \in {"none", "open", "stale"} /\ selected_db \in DBs \cup {-1}
        /\ aof_buf \in Seq(Fed) /\ aof_state \in States
    BY DEF Types
  <2> QED BY <1>2, <1>3, <1>6, <2>1, <2>2 DEF States
<1>10. Types'
  BY <1>1, <1>2, <1>3, <1>5, <1>6, <1>7, <1>9 DEF Types, NotPostponed
<1>11. Modes'
  <2>1. /\ aof_buf # <<>> => aof_state = "ON"
        /\ {"config", "resync"} \cap scenario.may = {} => aof_state = "ON"
        /\ aof_state \in States
    BY <1>5 DEF Modes, Types
  <2> QED BY <1>1, <1>2, <1>5, <1>8, <2>1 DEF Modes, States
<1>12. ASSUME RewriteSums
       PROVE  Complete(new) /\ (aof_state # "OFF" => Makes(new, data, selected_db))
  BY <1>12 DEF RewriteSums, new
<1>13. ASSUME RewriteSums  PROVE FileSums' /\ RewriteSums'
  <2>1. aof_state' = "ON" => Makes(file' \o aof_buf', data', selected_db')
    <3> SUFFICES ASSUME aof_state' = "ON"  PROVE Makes(file' \o aof_buf', data', selected_db')
      OBVIOUS
    <3>1. aof_state # "OFF"
      BY <1>2
    <3>2. file' \o aof_buf' = new /\ selected_db' = -1
      BY <1>2, <1>4, <1>8, <3>1
    <3>3. Makes(new, data, -1)
      BY <1>12, <1>13, <3>1 DEF Makes
    <3> QED BY <1>1, <3>2, <3>3
  <2>2. FileSums'
    BY <1>2, <1>12, <1>13, <2>1 DEF FileSums, Complete, Makes
  <2>3. RewriteSums'
    BY <1>1 DEF RewriteSums
  <2> QED BY <2>2, <2>3
<1>14. ASSUME RewriteSums, Durable  PROVE Durable'
  <2> SUFFICES ASSUME policy = "always"  PROVE Durable'
    BY <1>1 DEF Durable
  <2>1. acked \subseteq WritesOf(data)
    BY <1>5, <1>14 DEF Durable
  <2>2. acked' \subseteq WritesOf(data')
    BY <1>1, <2>1
  <2>3. aof_state' = "ON" => /\ synced' = Len(file') /\ Complete(file') /\ acked' \subseteq WritesOf(Load(file').data)
    <3> SUFFICES ASSUME aof_state' = "ON"
                 PROVE  synced' = Len(file') /\ Complete(file') /\ acked' \subseteq WritesOf(Load(file').data)
      BY DEF Complete
    <3>1. aof_state # "OFF"
      BY <1>2
    <3>2. synced' = Len(new) /\ file' = new
      BY <1>2, <1>8, <3>1
    <3>3. Complete(new) /\ Load(new).data = data
      BY <1>12, <1>14, <3>1 DEF Makes
    <3> QED BY <1>1, <2>1, <3>2, <3>3
  <2> QED BY <1>5, <2>2, <2>3 DEF Durable, Complete, WritesOf
<1> QED BY <1>10, <1>11, <1>13, <1>14

ReapStep ==
  /\ loop = "reap" /\ loop' = "postponed" /\ Reap
  /\ UNCHANGED <<settings, dataVars, acked>>

LEMMA ReapKeeps ==
  ASSUME Types, Modes, ReapStep
  PROVE  /\ Types' /\ Modes'
         /\ FileSums /\ RewriteSums => FileSums' /\ RewriteSums'
         /\ RewriteSums /\ Durable => Durable'
<1>0. /\ loop = "reap" /\ loop' = "postponed" /\ Reap /\ UNCHANGED <<scenario, policy, data, nwrites, acked>>
  BY DEF ReapStep, settings, dataVars
<1>1. /\ faults \in 0 .. scenario.faults /\ scenario.faults \in Nat /\ (aof_proc # "none" => aof_child_pid)
      /\ aof_child_pid \in BOOLEAN /\ aof_proc \in {"none", "run", "ok", "fail"} /\ rewrite_scheduled \in BOOLEAN
      /\ rdb_child_pid \in BOOLEAN /\ rdb_proc \in {"none", "run", "ok"} /\ orphan \in BOOLEAN
      /\ fsync_due \in BOOLEAN /\ aof_fd \in {"none", "open", "stale"} /\ (aof_state # "OFF" => aof_fd = "open")
  <2>1. scenario.faults \in Nat
    BY FlushTypes
  <2> QED BY <2>1 DEF Types, Modes
<1>2. ASSUME RewriteDone, aof_proc' = "none", UNCHANGED rdbVars
      PROVE  /\ Types' /\ Modes'
             /\ FileSums /\ RewriteSums => FileSums' /\ RewriteSums'
             /\ RewriteSums /\ Durable => Durable'
  <2>1. DoneStep
    BY <1>0, <1>2 DEF DoneStep, RewriteDone, unchangedByDone
  <2>2. CASE aof_proc = "ok" /\ NewFile /\ UNCHANGED faults
    BY <1>1, <2>1, <2>2, DoneWith
  <2>3. CASE UNCHANGED <<modeVars, diskVars, aof_buf, jobs, fsyncing>> /\ (Fault("rename") \/ UNCHANGED faults)
    <3>1. faults' \in 0 .. scenario.faults
      BY <1>1, <2>3 DEF Fault
    <3> QED BY <2>1, <2>3, <3>1, DoneWithout
  <2> QED BY <1>2, <2>2, <2>3 DEF RewriteDone
<1>3. ASSUME UNCHANGED handlerVars, UNCHANGED <<aof_proc, faults>>, RdbVarsTyped
      PROVE  /\ Types' /\ Modes'
             /\ FileSums /\ RewriteSums => FileSums' /\ RewriteSums'
             /\ RewriteSums /\ Durable => Durable'
  <2>1. /\ UNCHANGED <<aof_state, aof_fd, selected_db, file, synced, current_size, aof_buf, write_ok, postponed, fsync_due,
                       jobs, fsyncing, rewrite_scheduled, rewrite_buf, base, aof_child_pid, aof_proc, faults>>
    BY <1>3 DEF handlerVars, modeVars, diskVars, bufVars
  <2>2. UNCHANGED unchangedByChildren /\ ChildVarsTyped /\ TurnedOn /\ Up
    BY <1>0, <1>1, <2>1 DEF unchangedByChildren, ChildVarsTyped, TurnedOn, Up
  <2>3. RewriteSums => RewriteSums'
    BY <1>0, <2>1 DEF RewriteSums, Makes, Complete
  <2> QED BY <1>0, <1>1, <1>3, <2>1, <2>2, <2>3, ChildTypes
<1>4. CASE aof_proc' = "none" /\ RewriteDone /\ UNCHANGED rdbVars
  BY <1>2, <1>4
<1>5. CASE rdb_proc' = "none" /\ rdb_child_pid' = FALSE /\ UNCHANGED <<handlerVars, aof_proc, orphan, faults>>
  <2>1. RdbVarsTyped
    BY <1>1, <1>5 DEF RdbVarsTyped
  <2> QED BY <1>3, <1>5, <2>1
<1>6. CASE orphan' = FALSE /\ UNCHANGED <<handlerVars, aof_proc, rdb_child_pid, rdb_proc, faults>>
  <2>1. RdbVarsTyped
    BY <1>1, <1>6 DEF RdbVarsTyped
  <2> QED BY <1>3, <1>6, <2>1
<1>7. CASE UNCHANGED <<aof_proc, rdbVars>> /\ aof_proc = "none" /\ RewriteDone
  BY <1>2, <1>7
<1>8. CASE UNCHANGED <<aof_proc, rdbVars>> /\ UNCHANGED <<handlerVars, faults>>
  <2>1. RdbVarsTyped
    BY <1>1, <1>8 DEF RdbVarsTyped, rdbVars
  <2> QED BY <1>3, <1>8, <2>1
<1> QED BY <1>0, <1>4, <1>5, <1>6, <1>7, <1>8 DEF Reap

----------------------------------------------------------------------------
(* stopAppendOnly.                                                         *)

\* What a flush results in is a record.
IsResult(r) ==
  DOMAIN r = {"file", "synced", "size", "buf", "ok", "postponed", "due", "jobs", "exit", "faults"}

LEMMA ForcedIsResult ==
  ASSUME NEW r \in FlushResults(TRUE)
  PROVE  IsResult(r)
<1>1. r = Unflushed \/ r = Written \/ \E k, n : r = Failed(k, n)
  BY DEF FlushResults
<1>2. IsResult(Unflushed)
  BY DEF IsResult, Unflushed
<1>3. DOMAIN Written = DOMAIN Unflushed
  BY DEF Written
<1>4. \A k, n : DOMAIN Failed(k, n) = DOMAIN Unflushed
  BY DEF Failed
<1> QED BY <1>1, <1>2, <1>3, <1>4 DEF IsResult

LEMMA StoppedResult ==
  ASSUME NEW r, IsResult(r), FlushTo([r EXCEPT !.synced = Len(r.file), !.jobs = OldJobs(@)])
  PROVE  /\ file' = r.file /\ synced' = Len(r.file) /\ current_size' = r.size /\ aof_buf' = r.buf /\ write_ok' = r.ok
         /\ postponed' = r.postponed /\ fsync_due' = r.due /\ jobs' = OldJobs(r.jobs)
<1> DEFINE s == [r EXCEPT !.synced = Len(r.file), !.jobs = OldJobs(@)]
<1>1. /\ s.file = r.file /\ s.synced = Len(r.file) /\ s.size = r.size /\ s.buf = r.buf /\ s.ok = r.ok
      /\ s.postponed = r.postponed /\ s.due = r.due /\ s.jobs = OldJobs(r.jobs)
  BY DEF IsResult
<1>2. FlushTo(s)
  OBVIOUS
<1> HIDE DEF s
<1> QED BY <1>1, <1>2 DEF FlushTo

\* Everything is written, and nothing of the AOF stays.
Stopped(next) ==
  /\ \E r : /\ Flushed(r, TRUE) /\ r.buf = <<>>
            /\ file' = r.file /\ synced' = Len(r.file) /\ current_size' = r.size /\ write_ok' = r.ok
            /\ postponed' = r.postponed /\ fsync_due' = r.due /\ jobs' = OldJobs(r.jobs) /\ faults' = r.faults
  /\ aof_buf' = <<>> /\ fsyncing' = NotSyncing /\ aof_fd' = "none" /\ selected_db' = -1 /\ aof_state' = "OFF"
  /\ aof_child_pid' = FALSE /\ aof_proc' = "none" /\ rewrite_buf' = <<>> /\ base' \in {base, <<>>}
  /\ rewrite_scheduled' = rewrite_scheduled /\ RdbVarsTyped
  /\ loop' = next /\ UNCHANGED <<scenario, policy>>

LEMMA StopStops ==
  ASSUME NothingLeftOver, Types, Modes, {"config", "resync"} \cap scenario.may # {}, NEW next, next # "down", Stop(next)
  PROVE  Stopped(next)
<1>1. {"write", "ftruncate"} \cap scenario.may = {}
  BY DEF NothingLeftOver, Types
<1>2. PICK r \in FlushResults(TRUE) :
        /\ faults' = r.faults
        /\ IF r.exit
           THEN Exit("down") /\ file' = r.file /\ UNCHANGED synced
           ELSE /\ FlushTo([r EXCEPT !.synced = Len(r.file), !.jobs = OldJobs(@)])
                /\ fsyncing' = NotSyncing
                /\ aof_fd' = "none" /\ selected_db' = -1 /\ aof_state' = "OFF"
                /\ KillRewriteChild
                /\ loop' = next
                /\ UNCHANGED settings
  BY DEF Stop
<1>3. Flushed(r, TRUE) /\ IsResult(r)
  BY FlushShape, ForcedIsResult
<1>4. r.buf = <<>> /\ ~r.exit
  BY <1>1, <1>3 DEF Flushed
<1>5. /\ file' = r.file /\ synced' = Len(r.file) /\ current_size' = r.size /\ aof_buf' = <<>> /\ write_ok' = r.ok
      /\ postponed' = r.postponed /\ fsync_due' = r.due /\ jobs' = OldJobs(r.jobs)
  <2>1. FlushTo([r EXCEPT !.synced = Len(r.file), !.jobs = OldJobs(@)])
    BY <1>2, <1>4
  <2> QED BY <1>3, <1>4, <2>1, StoppedResult
<1>6. KillRewriteChild
  BY <1>2, <1>4
<1>7. /\ aof_child_pid' = FALSE /\ aof_proc' = "none" /\ rewrite_buf' = <<>> /\ base' \in {base, <<>>}
      /\ rewrite_scheduled' = rewrite_scheduled /\ RdbVarsTyped
  <2>1. /\ aof_child_pid \in BOOLEAN /\ rdb_child_pid \in BOOLEAN /\ orphan \in BOOLEAN
        /\ rdb_proc \in {"none", "run", "ok"}
        /\ ~aof_child_pid => aof_proc = "none" /\ rewrite_buf = <<>>
    BY DEF Types, Modes
  <2>2. CASE aof_child_pid
    BY <1>6, <2>1, <2>2 DEF KillRewriteChild, RdbVarsTyped
  <2>3. CASE ~aof_child_pid
    BY <1>6, <2>1, <2>3 DEF KillRewriteChild, RdbVarsTyped, childVars, rdbVars
  <2> QED BY <2>1, <2>2, <2>3
<1> QED BY <1>2, <1>3, <1>4, <1>5, <1>7 DEF Stopped, settings

LEMMA StoppedKeeps ==
  ASSUME Types, Modes, Up, {"config", "resync"} \cap scenario.may # {}, NEW next \in {"events", "restart"}, Stopped(next),
         nwrites' \in nwrites .. scenario.writes, data' \in DataSets(nwrites'), acked' \subseteq 1 .. nwrites'
  PROVE  /\ Types' /\ Modes'
         /\ FileSums => FileSums' /\ RewriteSums'
         /\ (policy = "always" => acked' \subseteq WritesOf(data')) => Durable'
<1> DEFINE n == nwrites'
           m == Transactions
<1>1. PICK r : /\ Flushed(r, TRUE) /\ r.buf = <<>>
               /\ file' = r.file /\ synced' = Len(r.file) /\ current_size' = r.size /\ write_ok' = r.ok
               /\ postponed' = r.postponed /\ fsync_due' = r.due /\ jobs' = OldJobs(r.jobs) /\ faults' = r.faults
  BY DEF Stopped
<1>2. /\ aof_buf' = <<>> /\ fsyncing' = NotSyncing /\ aof_fd' = "none" /\ selected_db' = -1 /\ aof_state' = "OFF"
      /\ aof_child_pid' = FALSE /\ aof_proc' = "none" /\ rewrite_buf' = <<>> /\ base' \in {base, <<>>}
      /\ rewrite_scheduled' = rewrite_scheduled /\ RdbVarsTyped
      /\ loop' = next /\ scenario' = scenario /\ policy' = policy
  BY DEF Stopped
<1>3. /\ r.file \in Seq(InFile) /\ r.size \in Nat /\ r.jobs \in Seq({"current", "old"})
      /\ r.postponed \in NotPostponed .. 2 /\ r.ok \in BOOLEAN /\ r.due \in BOOLEAN /\ r.faults \in 0 .. scenario.faults
  BY <1>1 DEF Flushed
<1>4. nwrites \in Nat /\ n \in Nat /\ nwrites <= n /\ n \in 0 .. scenario.writes /\ m \in BOOLEAN
  BY FlushTypes
<1>5. /\ policy \in Policies /\ scenario \in Scenarios /\ rewrite_scheduled \in BOOLEAN
      /\ base \in DataSets(nwrites)
  BY DEF Types, Data
<1>6. InFile' = FileUnits(n, m) /\ Fed' = FedUnits(n, m) /\ Data' = DataSets(n) /\ (Transactions' <=> m)
  BY <1>2 DEF InFile, Fed, Data, Transactions
<1>7. r.file \in Seq(FileUnits(n, m)) /\ base \in DataSets(n)
  <2> HIDE DEF n
  <2>1. /\ Seq(FileUnits(nwrites, m)) \subseteq Seq(FileUnits(n, m)) /\ DataSets(nwrites) \subseteq DataSets(n)
    BY <1>4, MoreUnits
  <2>2. r.file \in Seq(FileUnits(nwrites, m))
    BY <1>3 DEF InFile
  <2> QED BY <1>5, <2>1, <2>2
<1>8. data' \in DataSets(n) /\ acked' \subseteq 1 .. n /\ nwrites' = n
  OBVIOUS
<1> HIDE DEF n
<1>9. /\ <<>> \in DataSets(n) /\ <<>> \in Seq(FedUnits(n, m)) /\ OldJobs(r.jobs) \in Seq({"current", "old"})
      /\ Len(r.file) \in 0 .. Len(r.file) /\ NotSyncing \in NotSyncing .. Len(r.file)
  <2>1. Len(r.file) \in Nat
    BY <1>3, LenProperties
  <2>2. <<>> \in DataSets(n)
    BY DEF DataSets
  <2>3. <<>> \in Seq(FedUnits(n, m))
    OBVIOUS
  <2>4. OldJobs(r.jobs) \in Seq({"current", "old"})
    BY <1>3, OldJobsIn
  <2>5. Len(r.file) \in 0 .. Len(r.file) /\ NotSyncing \in NotSyncing .. Len(r.file)
    BY <2>1 DEF NotSyncing
  <2> QED BY <2>2, <2>3, <2>4, <2>5
<1>10. base' \in DataSets(n)
  BY <1>2, <1>7, <1>9
<1>11. Types'
  BY <1>1, <1>2, <1>3, <1>4, <1>5, <1>6, <1>7, <1>8, <1>9, <1>10 DEF Types, States, RdbVarsTyped, NotPostponed
<1>12. Up'
  BY <1>2 DEF Up
<1>13. Modes'
  BY <1>2, <1>12 DEF Modes
<1>14. ASSUME FileSums  PROVE FileSums' /\ RewriteSums'
  <2>1. Transactions' /\ CutEvents \cap scenario'.may = {} => Complete(file')
    BY <1>1, <1>2, <1>6, <1>14, FlushedFile
  <2> QED BY <1>2, <2>1 DEF FileSums, RewriteSums
<1>15. ASSUME policy = "always" => acked' \subseteq WritesOf(data')  PROVE Durable'
  BY <1>2, <1>12, <1>15 DEF Durable
<1> QED BY <1>11, <1>13, <1>14, <1>15

OffStep == ConfigNo \/ Resync

LEMMA OffStepKeeps ==
  ASSUME NothingLeftOver, Types, Modes, OffStep
  PROVE  /\ Types' /\ Modes'
         /\ FileSums => FileSums' /\ RewriteSums'
         /\ Durable => Durable'
<1>1. /\ nwrites \in Nat /\ nwrites \in 0 .. scenario.writes /\ data \in DataSets(nwrites) /\ acked \subseteq 1 .. nwrites
      /\ scenario.writes \in Nat
  BY FlushTypes DEF Types, Data
<1>2. CASE ConfigNo
  <2>1. Stop("events") /\ {"config", "resync"} \cap scenario.may # {} /\ Up
        /\ (loop' = "down" \/ UNCHANGED <<data, nwrites, acked>>)
    BY <1>2 DEF ConfigNo, InEvents, Up, dataVars
  <2>2. Stopped("events")
    BY <2>1, StopStops
  <2>3. UNCHANGED <<data, nwrites, acked>>
    BY <2>1, <2>2 DEF Stopped
  <2>4. nwrites' \in nwrites .. scenario.writes
    BY <1>1, <2>3
  <2>5. ASSUME Durable, policy = "always"  PROVE acked' \subseteq WritesOf(data')
    BY <2>1, <2>3, <2>5 DEF Durable
  <2>6. data' \in DataSets(nwrites') /\ acked' \subseteq 1 .. nwrites'
    BY <1>1, <2>3
  <2> QED BY <2>1, <2>2, <2>4, <2>5, <2>6, StoppedKeeps
<1>3. CASE Resync
  <2>1. Stop("restart") /\ {"config", "resync"} \cap scenario.may # {} /\ Up /\ nwrites < scenario.writes
        /\ nwrites' = nwrites + 1
        /\ (loop' = "down" \/ (data' = <<<< 0, nwrites + 1>>>> /\ acked' = {}))
    BY <1>3 DEF Resync, InEvents, Up
  <2>2. Stopped("restart")
    BY <2>1, StopStops
  <2>3. data' = <<<< 0, nwrites + 1>>>> /\ acked' = {}
    BY <2>1, <2>2 DEF Stopped
  <2>4. nwrites' \in nwrites .. scenario.writes /\ nwrites + 1 \in 1 .. nwrites'
    BY <1>1, <2>1
  <2>5. data' \in DataSets(nwrites')
    <3> DEFINE x == << 0, nwrites + 1>>
    <3>1. x \in DBs \X (1 .. nwrites')
      BY <2>4, Zero
    <3> HIDE DEF x
    <3>2. <<x>> \in Seq(DBs \X (1 .. nwrites'))
      BY <3>1
    <3> QED BY <2>3, <3>2 DEF x, DataSets
  <2>6. acked' \subseteq 1 .. nwrites' /\ acked' \subseteq WritesOf(data')
    BY <2>3
  <2> QED BY <2>1, <2>2, <2>4, <2>5, <2>6, StoppedKeeps
<1> QED BY <1>2, <1>3 DEF OffStep

----------------------------------------------------------------------------
(* loadDataFromDisk.                                                       *)

\* What is read has no open MULTI.
LEMMA NoOpenMulti ==
  ASSUME NeverCutInMulti, Types, Modes, FileSums, AtEnd(Load(file)) \/ LoadTruncated
  PROVE  ~Load(file).multi
<1>1. CASE AtEnd(Load(file))
  BY <1>1 DEF AtEnd
<1>2. CASE LoadTruncated /\ ~Transactions
  <2>1. nwrites \in Nat /\ Transactions \in BOOLEAN /\ file \in Seq(FileUnits(nwrites, Transactions))
    BY FlushTypes DEF InFile
  <2> QED BY <1>2, <2>1, NoMulti
<1>3. CASE LoadTruncated /\ Transactions
  <2>1. CutEvents \cap scenario.may = {}
    BY <1>3 DEF NeverCutInMulti, Types, Transactions, CutEvents
  <2> QED BY <1>3, <2>1 DEF FileSums, Complete, AtEnd
<1> QED BY <1>1, <1>2, <1>3

LEMMA LoadKeeps ==
  ASSUME Types, Modes, LoadDataFromDisk
  PROVE  /\ Types' /\ Modes'
         /\ RewriteSums'
         /\ NeverCutInMulti /\ FileSums => FileSums'
         /\ NeverCutInMulti /\ FileSums /\ Durable => Durable'
<1> DEFINE r == Load(file)
           g == SubSeq(file, 1, r.valid)
<1> USE DEF settings, bufVars, childVars, rdbVars
<1>1. /\ ~Up /\ ~r.bad /\ (AtEnd(r) \/ LoadTruncated)
      /\ loop' = "events" /\ aof_state' = "ON" /\ aof_fd' = "open" /\ data' = r.data /\ file' = g
      /\ synced' = r.valid /\ current_size' = r.valid
      /\ UNCHANGED <<scenario, policy, nwrites, acked, faults, selected_db, aof_buf, write_ok, postponed, fsync_due, jobs,
                     fsyncing, rewrite_scheduled, rewrite_buf, base, aof_child_pid, aof_proc,
                     rdb_child_pid, rdb_proc, orphan>>
  BY DEF LoadDataFromDisk
<1>2. nwrites \in Nat /\ Transactions \in BOOLEAN /\ file \in Seq(FileUnits(nwrites, Transactions)) /\ Len(file) \in Nat
  BY FlushTypes DEF InFile
<1>3. /\ r.data \in DataSets(nwrites) /\ r.valid \in 0 .. Len(file)
      /\ g \in Seq(FileUnits(nwrites, Transactions)) /\ Len(g) = r.valid
      /\ ~r.multi => Makes(g, r.data, -1)
      /\ AtEnd(r) => g = file
  BY <1>1, <1>2, Valid
<1>4. Up' /\ InFile' = InFile /\ Fed' = Fed /\ Data' = Data /\ (Transactions' <=> Transactions)
  BY <1>1, SameSets DEF Up
<1>5. /\ aof_state = "OFF" /\ selected_db = -1 /\ fsyncing = NotSyncing /\ ~aof_child_pid /\ aof_buf = <<>>
      /\ jobs = <<>> /\ aof_proc = "none" /\ rewrite_buf = <<>>
  BY <1>1 DEF Modes
<1>6. r.valid \in 0 .. r.valid /\ r.valid \in Nat /\ NotSyncing \in NotSyncing .. r.valid
  BY <1>2, <1>3 DEF NotSyncing
<1> HIDE DEF g, r
<1>7. Types'
  <2>1. g \in Seq(InFile) /\ r.data \in Data
    BY <1>3 DEF InFile, Data
  <2>2. synced' \in 0 .. Len(file') /\ fsyncing' \in NotSyncing .. Len(file') /\ current_size' \in Nat
    BY <1>1, <1>3, <1>5, <1>6
  <2> QED BY <1>1, <1>4, <2>1, <2>2 DEF Types, States, NotPostponed
<1>8. Modes'
  BY <1>1, <1>3, <1>4, <1>5 DEF Modes
<1>9. RewriteSums'
  BY <1>1, <1>5 DEF RewriteSums
<1>10. ASSUME NeverCutInMulti, FileSums  PROVE FileSums'
  <2>1. ~r.multi
    BY <1>1, <1>10, NoOpenMulti DEF r
  <2>2. g \o <<>> = g
    BY <1>3, ConcatEmptySeq
  <2>3. Makes(g, r.data, -1)
    BY <1>3, <2>1
  <2>4. file' \o aof_buf' = g /\ selected_db' = -1
    BY <1>1, <1>5, <2>2
  <2>5. Makes(file' \o aof_buf', data', selected_db')
    BY <1>1, <2>3, <2>4
  <2>6. Complete(file')
    BY <1>1, <2>3 DEF Complete, Makes
  <2> QED BY <2>5, <2>6 DEF FileSums, Complete, Makes
<1>11. ASSUME NeverCutInMulti, FileSums, Durable  PROVE Durable'
  <2> SUFFICES ASSUME policy = "always"  PROVE Durable'
    BY <1>1 DEF Durable
  <2>1. acked \subseteq WritesOf(r.data)
    <3>1. \A n \in synced .. Len(file) : acked \subseteq WritesOf(Load(SubSeq(file, 1, n)).data)
      BY <1>1, <1>11 DEF Durable
    <3>2. synced \in 0 .. Len(file) /\ Len(file) \in synced .. Len(file)
      BY <1>2 DEF Types
    <3>3. SubSeq(file, 1, Len(file)) = file
      BY <1>2, SubSeqFull
    <3> QED BY <3>1, <3>2, <3>3 DEF r
  <2>2. Makes(g, r.data, -1)
    <3>1. ~r.multi
      BY <1>1, <1>11, NoOpenMulti DEF r
    <3> QED BY <1>3, <3>1
  <2>3. acked' \subseteq WritesOf(data')
    BY <1>1, <2>1
  <2>4. synced' = Len(file') /\ Complete(file') /\ acked' \subseteq WritesOf(Load(file').data)
    <3>1. Complete(g) /\ Load(g).data = r.data
      BY <2>2 DEF Makes, Complete
    <3> QED BY <1>1, <1>3, <2>1, <3>1
  <2> QED BY <1>4, <2>3, <2>4 DEF Durable, Complete, WritesOf
<1> QED BY <1>7, <1>8, <1>9, <1>10, <1>11

----------------------------------------------------------------------------
(* The invariant holds at the start and after every step.                  *)

LEMMA InitHolds ==
  ASSUME Init
  PROVE  Types /\ Modes /\ FileSums /\ RewriteSums /\ Durable
<1>1. /\ scenario \in Scenarios /\ loop = "events" /\ policy \in Policies /\ data = <<>> /\ nwrites = 0 /\ acked = {}
      /\ faults = 0 /\ aof_state = "ON" /\ aof_fd = "open" /\ selected_db = -1 /\ file = <<>> /\ synced = 0
      /\ current_size = 0 /\ aof_buf = <<>> /\ write_ok = TRUE /\ postponed = NotPostponed /\ fsync_due = FALSE
      /\ jobs = <<>> /\ fsyncing = NotSyncing /\ rewrite_scheduled = FALSE /\ rewrite_buf = <<>> /\ base = <<>>
      /\ aof_child_pid = FALSE /\ aof_proc = "none" /\ rdb_child_pid = FALSE /\ rdb_proc = "none" /\ orphan = FALSE
  BY DEF Init
<1>2. scenario.writes \in Nat /\ scenario.faults \in Nat
  BY <1>1, ConstantsAssumption
<1>3. Up
  BY <1>1 DEF Up
<1>4. <<>> \in Data /\ <<>> \in Seq(InFile) /\ <<>> \in Seq(Fed) /\ <<>> \in Seq({"current", "old"})
  <2>1. <<>> \in Data
    BY DEF Data, DataSets
  <2> QED BY <2>1
<1>5. Len(file) = 0 /\ 0 \in 0 .. scenario.writes /\ 0 \in 0 .. scenario.faults /\ 0 \in 0 .. 0
      /\ NotPostponed \in NotPostponed .. 2 /\ NotSyncing \in NotSyncing .. 0
  BY <1>1, <1>2 DEF NotPostponed, NotSyncing
<1>6. Types
  BY <1>1, <1>4, <1>5 DEF Types, States
<1>7. Modes
  BY <1>1, <1>3, <1>5 DEF Modes
<1>8. Makes(file, data, -1) /\ file \o aof_buf = file
  <2>1. Rewritten(data) = file
    BY <1>1 DEF Rewritten
  <2>2. nwrites \in Nat /\ Transactions \in BOOLEAN /\ data \in DataSets(nwrites)
    BY <1>1, <1>4 DEF Data, Transactions
  <2>3. Makes(Rewritten(data), data, -1)
    BY <2>2, RewrittenMakes
  <2>4. file \o aof_buf = file
    BY <1>1, <1>4, ConcatEmptySeq
  <2> QED BY <2>1, <2>3, <2>4
<1>9. FileSums
  <2>1. Makes(file \o aof_buf, data, selected_db) /\ Complete(file)
    BY <1>1, <1>8 DEF Makes, Complete
  <2> QED BY <2>1 DEF FileSums
<1>10. RewriteSums
  BY <1>1 DEF RewriteSums
<1>11. Durable
  <2>1. Complete(file)
    BY <1>8 DEF Makes, Complete
  <2> QED BY <1>1, <1>3, <1>5, <2>1 DEF Durable
<1> QED BY <1>6, <1>7, <1>9, <1>10, <1>11

\* The steps, by what they share.
LEMMA NextSteps ==
  ASSUME Next
  PROVE  \/ \E d \in DBs : WriteCommand(d) \/ Transaction(d)
         \/ QuietStep \/ EndStep \/ FlushStep \/ ChildStep \/ ReapStep \/ OffStep \/ LoadDataFromDisk
<1>1. CronChildren => ReapStep \/ SavesStep
  BY DEF CronChildren, ReapStep, SavesStep
<1>2. RestartAof => EndStep \/ ChildStep
  BY DEF EndStep, ChildStep
<1> QED BY <1>1, <1>2 DEF Next, QuietStep, EndStep, FlushStep, ChildStep, OffStep

LEMMA NextKeeps ==
  ASSUME NothingLeftOver, Types, Modes, [Next]_vars
  PROVE  /\ Types' /\ Modes'
         /\ NeverCutInMulti /\ FileSums /\ RewriteSums => FileSums' /\ RewriteSums'
         /\ NeverCutInMulti /\ FileSums /\ RewriteSums /\ Durable /\ ~NoFsyncOnRewrite => Durable'
<1>1. ASSUME NEW d \in DBs, WriteCommand(d) \/ Transaction(d)
      PROVE  /\ Types' /\ Modes'
             /\ NeverCutInMulti /\ FileSums /\ RewriteSums => FileSums' /\ RewriteSums'
             /\ NeverCutInMulti /\ FileSums /\ RewriteSums /\ Durable /\ ~NoFsyncOnRewrite => Durable'
  BY <1>1, WriteCommandKeeps, TransactionKeeps
<1>2. CASE QuietStep
  BY <1>2, QuietTypes, QuietKeeps
<1>3. CASE EndStep
  BY <1>3, EndKeeps
<1>4. CASE FlushStep
  BY <1>4, FlushStepKeeps
<1>5. CASE ChildStep
  BY <1>5, ChildStepKeeps
<1>6. CASE ReapStep
  BY <1>6, ReapKeeps
<1>7. CASE OffStep
  BY <1>7, OffStepKeeps
<1>8. CASE LoadDataFromDisk
  BY <1>8, LoadKeeps
<1>9. CASE UNCHANGED vars
  <2>1. UNCHANGED <<loop, scenario, policy, data, nwrites, acked, faults, aof_state, aof_fd, selected_db, file, synced,
                    current_size, aof_buf, write_ok, postponed, fsync_due, jobs, fsyncing, rewrite_scheduled,
                    rewrite_buf, base, aof_child_pid, aof_proc, rdb_child_pid, rdb_proc, orphan>>
    BY <1>9 DEF vars, settings, dataVars, modeVars, diskVars, bufVars, childVars, rdbVars
  <2>2. InFile' = InFile /\ Fed' = Fed /\ Data' = Data /\ (Transactions' <=> Transactions) /\ (Up' <=> Up)
    BY <2>1, SameSets DEF Up
  <2>3. Types' /\ Modes'
    BY <2>1, <2>2 DEF Types, Modes, NotPostponed, NotSyncing
  <2>4. FileSums /\ RewriteSums => FileSums' /\ RewriteSums'
    BY <2>1, <2>2 DEF FileSums, RewriteSums, Makes, Complete
  <2>5. Durable => Durable'
    BY <2>1, <2>2 DEF Durable, Complete, WritesOf
  <2> QED BY <2>3, <2>4, <2>5
<1>10. Next \/ UNCHANGED vars
  OBVIOUS
<1> QED BY <1>1, <1>2, <1>3, <1>4, <1>5, <1>6, <1>7, <1>8, <1>9, <1>10, NextSteps

\* What the invariant says of the properties.
LEMMA TypesMean ==
  ASSUME Types, Modes
  PROVE  TypeOK
<1>1. nwrites \in Nat /\ scenario.writes \in Nat /\ nwrites <= scenario.writes /\ Transactions \in BOOLEAN
  BY FlushTypes DEF Types
<1> DEFINE n == nwrites
           k == scenario.writes
           m == Transactions
<1>2. /\ file \in Seq(FileUnits(n, m)) /\ aof_buf \in Seq(FedUnits(n, m)) /\ rewrite_buf \in Seq(FedUnits(n, m))
      /\ data \in DataSets(n) /\ base \in DataSets(n)
  BY DEF Types, InFile, Fed, Data
<1>3. Cmds = AllUnits(k)
  BY DEF Cmds, AllUnits, DataSets
<1> HIDE DEF n, k, m
<1>4. /\ file \in Seq(FileUnits(k, m)) /\ aof_buf \in Seq(FileUnits(k, m)) /\ rewrite_buf \in Seq(FileUnits(k, m))
      /\ data \in DataSets(k) /\ base \in DataSets(k)
  <2>1. n \in Nat /\ k \in Nat /\ n <= k /\ m \in BOOLEAN
    BY <1>1 DEF n, k, m
  <2>2. /\ Seq(FileUnits(n, m)) \subseteq Seq(FileUnits(k, m)) /\ Seq(FedUnits(n, m)) \subseteq Seq(FileUnits(n, m))
        /\ DataSets(n) \subseteq DataSets(k)
    BY <2>1, MoreUnits
  <2> QED BY <1>2, <2>2
<1>5. \A q \in Seq(FileUnits(k, m)) : q \in Seq(AllUnits(k))
  <2> SUFFICES ASSUME NEW q \in Seq(FileUnits(k, m))  PROVE q \in Seq(AllUnits(k))
    OBVIOUS
  <2>1. q = [i \in 1 .. Len(q) |-> q[i]] /\ Len(q) \in Nat /\ \A i \in 1 .. Len(q) : q[i] \in FileUnits(k, m)
    BY ElementOfSeq
  <2>2. \A i \in 1 .. Len(q) : q[i] \in AllUnits(k)
    BY <2>1 DEF FileUnits
  <2> QED BY <2>1, <2>2, IsASeq
<1>6. /\ file \in Seq(Cmds) /\ aof_buf \in Seq(Cmds) /\ rewrite_buf \in Seq(Cmds)
      /\ data \in Seq(DBs \X (1 .. scenario.writes)) /\ base \in Seq(DBs \X (1 .. scenario.writes))
  BY <1>3, <1>4, <1>5 DEF DataSets, k
<1> QED BY <1>6 DEF Types, TypeOK, States

LEMMA SumsMean ==
  /\ FileSums => FileAddsUp
  /\ RewriteSums => RewriteAddsUp
BY DEF FileSums, RewriteSums, FileAddsUp, RewriteAddsUp, Makes, Replays

LEMMA DurableMeans ==
  ASSUME Types, Modes, Durable
  PROVE  AckedIsDurable
<1>1. synced \in 0 .. Len(file) /\ Len(file) \in Nat /\ SubSeq(file, 1, Len(file)) = file
  BY FlushTypes, SubSeqFull DEF Types
<1>2. synced \in synced .. Len(file)
  BY <1>1
<1> QED BY <1>1, <1>2 DEF Durable, AckedIsDurable

----------------------------------------------------------------------------
(* Theorems.                                                               *)

\* Every variable has its type: flushAppendOnlyFile, ftruncate and
\* backgroundRewriteDoneHandler keep the file made of commands, synced and
\* aof_current_size within it.
THEOREM TypeCorrect ==
  ASSUME NothingLeftOver
  PROVE  Spec => []TypeOK
<1>1. Init => Types /\ Modes
  BY InitHolds
<1>2. Types /\ Modes /\ [Next]_vars => Types' /\ Modes'
  BY NextKeeps
<1>3. Types /\ Modes => TypeOK
  BY TypesMean
<1> QED BY <1>1, <1>2, <1>3, PTL DEF Spec

\* The inductive invariant of the two theorems below: what the file, the
\* buffers and a child's data set amount to, where the AOF stands.
THEOREM SumsCorrect ==
  ASSUME NothingLeftOver, NeverCutInMulti
  PROVE  Spec => [](Types /\ Modes /\ FileSums /\ RewriteSums)
<1>1. Init => Types /\ Modes /\ FileSums /\ RewriteSums
  BY InitHolds
<1>2. Types /\ Modes /\ FileSums /\ RewriteSums /\ [Next]_vars => Types' /\ Modes' /\ FileSums' /\ RewriteSums'
  BY NextKeeps
<1> QED BY <1>1, <1>2, PTL DEF Spec

\* Through writes that fail or are cut short, rewrites, exits and reloads,
\* what loadAppendOnlyFile would read from the file and from what
\* flushAppendOnlyFile has yet to write is the data set.
THEOREM FileAddsUpCorrect ==
  ASSUME NothingLeftOver, NeverCutInMulti
  PROVE  Spec => []FileAddsUp
<1>1. Types /\ Modes /\ FileSums /\ RewriteSums => FileAddsUp
  BY SumsMean
<1> QED BY <1>1, SumsCorrect, PTL

\* While a rewrite child runs, what it was given and the rewrite buffer make
\* the data set, so that backgroundRewriteDoneHandler may replace the file.
THEOREM RewriteAddsUpCorrect ==
  ASSUME NothingLeftOver, NeverCutInMulti
  PROVE  Spec => []RewriteAddsUp
<1>1. Types /\ Modes /\ FileSums /\ RewriteSums => RewriteAddsUp
  BY SumsMean
<1> QED BY <1>1, SumsCorrect, PTL

\* With "always", a write that was acknowledged after beforeSleep is in what
\* a power loss leaves of the file, even if nothing else of it is.
THEOREM AckedIsDurableCorrect ==
  ASSUME NothingLeftOver, NeverCutInMulti, ~NoFsyncOnRewrite
  PROVE  Spec => []AckedIsDurable
<1>1. Init => Durable
  BY InitHolds
<1>2. Types /\ Modes /\ FileSums /\ RewriteSums /\ Durable /\ [Next]_vars => Durable'
  BY NextKeeps
<1>3. Types /\ Modes /\ Durable => AckedIsDurable
  BY DurableMeans
<1> QED BY <1>1, <1>2, <1>3, SumsCorrect, PTL DEF Spec
=============================================================================
