-------------------------- MODULE BackgroundProofs --------------------------
(* Proofs about Bio and Children: see the README for the argument.         *)
EXTENDS Bio, Children, SequenceTheorems, TLAPS

----------------------------------------------------------------------------
(* The threads of bio.c.                                                   *)

BioTypes ==
  /\ bio_mutex \in {"main", "thread", "free"} /\ sleeping \in BOOLEAN
  /\ main_at \in {"out", "create", "signal", "count", "unlock"}
  /\ thread_at \in {"lock", "look", "wait", "work", "delete"}
  /\ bio_jobs \in Seq(Nat) /\ executed \in Seq(Nat)
  /\ job \in Nat /\ created \in Nat /\ read \in Nat \cup {Nothing}

\* Who holds the mutex is where it needs it.
Exclusion ==
  /\ bio_mutex = "main" <=> main_at # "out"
  /\ bio_mutex = "thread" <=> thread_at \in {"look", "delete"}

\* The jobs of the list are those not deleted, in the order of creation: the
\* one the thread works on, or has just executed, is the first of them.
Deleted == IF job # 0 /\ thread_at # "work" THEN Len(executed) - 1 ELSE Len(executed)
Queued ==
  /\ Len(bio_jobs) = created - Deleted /\ bio_pending = Len(bio_jobs)
  /\ \A k \in 1 .. Len(bio_jobs) : bio_jobs[k] = Deleted + k
  /\ job # 0 => bio_jobs # <<>> /\ job = Deleted + 1
  /\ \A k \in 1 .. Len(executed) : executed[k] = k

\* The thread has a job where it needs one, and sleeps only where it waits.
AtWork ==
  /\ thread_at \in {"look", "wait"} => job = 0
  /\ thread_at \in {"work", "delete"} => job # 0
  /\ sleeping => thread_at = "wait"

\* An answer of 0 stays true until a job is created; the thread that waits is
\* about to be woken if there is a job.
Answered == read = 0 => Len(executed) = created
Awake == sleeping /\ bio_jobs # <<>> => main_at = "signal"

BioInv == BioTypes /\ Exclusion /\ Queued /\ AtWork /\ Answered /\ Awake

LEMMA FirstNode ==
  ASSUME NEW q \in Seq(Nat), NEW d \in Nat, q # <<>>, \A k \in 1 .. Len(q) : q[k] = d + k
  PROVE  LET r == WithoutNode(q, d + 1)
         IN  /\ r \in Seq(Nat) /\ Len(r) = Len(q) - 1
             /\ \A k \in 1 .. Len(r) : r[k] = d + 1 + k
<1> DEFINE i == CHOOSE i \in DOMAIN q : q[i] = d + 1
           h == SubSeq(q, 1, 0)
           t == SubSeq(q, 2, Len(q))
<1>1. Len(q) \in Nat \ {0}
  BY EmptySeq
<1>2. i = 1
  <2>1. 1 \in DOMAIN q /\ q[1] = d + 1
    BY <1>1
  <2>2. i \in DOMAIN q /\ q[i] = d + 1
    BY <2>1
  <2> HIDE DEF i
  <2> QED BY <2>2
<1>3. WithoutNode(q, d + 1) = SubSeq(q, 1, i - 1) \o SubSeq(q, i + 1, Len(q))
  BY Zenon DEF WithoutNode
<1> HIDE DEF i
<1>4. WithoutNode(q, d + 1) = h \o t
  BY <1>2, <1>3
<1>5. h = <<>>
  OBVIOUS
<1>6. t \in Seq(Nat) /\ Len(t) = Len(q) - 1 /\ \A k \in 1 .. Len(q) - 1 : t[k] = q[k + 1]
  <2>1. 2 \in 1 .. Len(q) + 1 /\ Len(q) \in 2 - 1 .. Len(q) /\ (Len(q) - 2) + 1 = Len(q) - 1
    BY <1>1
  <2>2. t \in Seq(Nat) /\ Len(t) = (Len(q) - 2) + 1 /\ \A k \in 1 .. (Len(q) - 2) + 1 : t[k] = q[(2 + k) - 1]
    BY <1>1, <2>1, SubSeqProperties
  <2> HIDE DEF t
  <2> QED BY <1>1, <2>1, <2>2
<1> HIDE DEF h, t
<1>7. WithoutNode(q, d + 1) = t
  BY <1>4, <1>5, <1>6
<1>8. \A k \in 1 .. Len(t) : t[k] = d + 1 + k
  BY <1>1, <1>6
<1> QED BY <1>6, <1>7, <1>8

LEMMA BioInitially == BioInit => BioInv
<1> SUFFICES ASSUME BioInit PROVE BioInv
  OBVIOUS
<1>1. BioTypes
  <2>1. bio_jobs \in Seq(Nat) /\ executed \in Seq(Nat)
    BY DEF BioInit
  <2> QED BY <2>1 DEF BioInit, BioTypes, Nothing
<1>2. Exclusion /\ AtWork /\ Answered /\ Awake
  BY DEF BioInit, Exclusion, AtWork, Answered, Awake, Nothing
<1>3. Deleted = 0
  BY DEF BioInit, Deleted
<1>4. Queued
  <2>1. Len(bio_jobs) = 0 /\ Len(executed) = 0 /\ created = 0 /\ bio_pending = 0 /\ job = 0
    BY DEF BioInit
  <2> QED BY <1>3, <2>1 DEF Queued
<1> QED BY <1>1, <1>2, <1>4 DEF BioInv

LEMMA DeleteQueued ==
  ASSUME BioTypes, Queued, AtWork, Delete
  PROVE  bio_jobs' \in Seq(Nat) /\ Queued'
<1>1. job # 0 /\ thread_at = "delete" /\ bio_jobs' = WithoutNode(bio_jobs, job)
  BY DEF Delete, AtWork
<1>2. /\ job' = 0 /\ executed' = executed /\ created' = created /\ bio_pending' = bio_pending - 1
  BY DEF Delete
<1>3. Deleted = Len(executed) - 1 /\ Len(executed) \in Nat
  BY <1>1 DEF Deleted, BioTypes
<1>4. Deleted' = Len(executed)
  BY <1>2 DEF Deleted
<1>5. /\ job = Deleted + 1 /\ bio_jobs \in Seq(Nat) /\ bio_jobs # <<>> /\ created \in Nat
      /\ Len(bio_jobs) = created - Deleted /\ bio_pending = Len(bio_jobs) /\ job \in Nat
      /\ \A k \in 1 .. Len(bio_jobs) : bio_jobs[k] = Deleted + k
      /\ \A k \in 1 .. Len(executed) : executed[k] = k
  BY <1>1 DEF Queued, BioTypes
<1> DEFINE d == Deleted
<1>6. d \in Nat /\ job = d + 1 /\ Deleted' = d + 1
  BY <1>1, <1>3, <1>4, <1>5
<1>7. \A k \in 1 .. Len(bio_jobs) : bio_jobs[k] = d + k
  BY <1>5
<1> HIDE DEF d
<1>8. /\ bio_jobs' \in Seq(Nat) /\ Len(bio_jobs') = Len(bio_jobs) - 1
      /\ \A k \in 1 .. Len(bio_jobs') : bio_jobs'[k] = d + 1 + k
  <2>1. bio_jobs' = WithoutNode(bio_jobs, d + 1)
    BY <1>1, <1>6
  <2> QED BY <1>5, <1>6, <1>7, <2>1, FirstNode
<1>9. Len(bio_jobs) = created - d
  BY <1>5 DEF d
<1>10. Len(bio_jobs') = created' - Deleted' /\ bio_pending' = Len(bio_jobs')
  BY <1>2, <1>5, <1>6, <1>8, <1>9
<1> QED BY <1>2, <1>5, <1>6, <1>8, <1>10 DEF Queued

LEMMA BioInductive == BioInv /\ [BioNext]_biovars => BioInv'
<1> SUFFICES ASSUME BioInv, [BioNext]_biovars PROVE BioInv'
  OBVIOUS
<1> USE DEF BioInv, BioTypes, Exclusion, Queued, Deleted, AtWork, Answered, Awake, Nothing
<1>1. ASSUME NEW what \in {"create", "count"}, MainLock(what) PROVE BioInv'
  BY <1>1 DEF MainLock
<1>2. CASE AddJob
  <2>1. BioTypes' /\ Exclusion' /\ AtWork' /\ Answered' /\ Awake'
    BY <1>2 DEF AddJob
  <2>2. Deleted' = Deleted
    BY <1>2 DEF AddJob
  <2>3. Deleted \in Int /\ Deleted <= created
    BY DEF Queued
  <2> HIDE DEF Deleted
  <2>4. Len(bio_jobs') = Len(bio_jobs) + 1 /\ created' = created + 1 /\ bio_pending' = bio_pending + 1
    BY <1>2 DEF AddJob
  <2>5. \A k \in 1 .. Len(bio_jobs') : bio_jobs'[k] = Deleted + k
    BY <1>2, <2>3 DEF AddJob
  <2>6. Queued'
    BY <1>2, <2>2, <2>3, <2>4, <2>5 DEF AddJob
  <2> QED BY <2>1, <2>6
<1>3. CASE Signal
  BY <1>3 DEF Signal
<1>4. CASE ReadPending
  BY <1>4 DEF ReadPending
<1>5. CASE MainUnlock
  BY <1>5 DEF MainUnlock
<1>6. CASE ThreadLock
  BY <1>6 DEF ThreadLock
<1>7. CASE Wait
  BY <1>7 DEF Wait
<1>8. CASE SpuriousWakeup
  BY <1>8 DEF SpuriousWakeup
<1>9. CASE Take
  BY <1>9 DEF Take
<1>10. CASE Execute
  <2>1. BioTypes' /\ Exclusion' /\ AtWork' /\ Answered' /\ Awake'
    BY <1>10 DEF Execute
  <2>2. Deleted' = Deleted
    BY <1>10 DEF Execute
  <2>3. \A k \in 1 .. Len(executed') : executed'[k] = k
    BY <1>10 DEF Execute
  <2>4. job' = job /\ bio_jobs' = bio_jobs /\ created' = created /\ bio_pending' = bio_pending
    BY <1>10 DEF Execute
  <2>5. Queued'
    <3> HIDE DEF Deleted
    <3> QED BY <2>2, <2>3, <2>4
  <2> QED BY <2>1, <2>5
<1>11. CASE Delete
  <2>1. bio_jobs' \in Seq(Nat) /\ Queued'
    BY <1>11, DeleteQueued
  <2>2. BioTypes' /\ Exclusion' /\ AtWork' /\ Answered' /\ Awake'
    BY <1>11, <2>1 DEF Delete
  <2> QED BY <2>1, <2>2
<1>12. CASE UNCHANGED biovars
  BY <1>12 DEF biovars
<1> QED BY <1>1, <1>2, <1>3, <1>4, <1>5, <1>6, <1>7, <1>8, <1>9, <1>10, <1>11, <1>12
        DEF BioNext, ThreadStep, MainStep

\* bioProcessBackgroundJobs and bioCreateBackgroundJob, for any number of
\* jobs: each is executed once and in order, the count is that of the list, an
\* answer of 0 means that all is done, and no wakeup is lost.
THEOREM JobsOnce == BioSpec => []BioSound
<1>1. BioInv => BioSound
  <2> SUFFICES ASSUME BioInv PROVE BioSound
    OBVIOUS
  <2> QED BY DEF BioInv, BioTypes, Queued, Deleted, AtWork, Answered, Awake, BioSound
<1> QED BY <1>1, BioInitially, BioInductive, PTL DEF BioSpec
----------------------------------------------------------------------------
(* The children.                                                           *)

Snapshots == [life : Nat, n : Nat]
Procs == {"none", "run", "ok", "err", "sig"}
Disks == [data : Snapshots, dump : Snapshots, life : Nat]
Saves == [on : BOOLEAN, dirty : Int, before : Nat, age : Nat, tried : Nat, ok : BOOLEAN]
Rdbs  == [pid : BOOLEAN, proc : Procs, what : Snapshots]
Aofs  == [pid : BOOLEAN, proc : Procs, state : {"OFF", "WAIT", "ON"}, scheduled : BOOLEAN]
Servers == [disk : Disks, save : Saves, rdb : Rdbs, aof : Aofs, resizes : BOOLEAN]

\* The dump is an earlier state of the data set, and dirty counts what it lacks.
Counted(w) ==
  /\ w.disk.data.life = w.disk.life /\ w.disk.dump.life = w.disk.life
  /\ w.disk.dump.n <= w.disk.data.n
  /\ w.disk.data.n - w.disk.dump.n <= w.save.dirty

\* While a child saves, what dirty has gained counts what the child's data set
\* lacks; when it has succeeded, what the dump lacks.
ChildCounted(w) ==
  /\ w.rdb.proc = "run" => /\ w.rdb.what.life = w.disk.life /\ w.rdb.what.n <= w.disk.data.n
                           /\ w.disk.data.n - w.rdb.what.n <= w.save.dirty - w.save.before
  /\ w.rdb.proc = "ok" => w.disk.data.n - w.disk.dump.n <= w.save.dirty - w.save.before

\* A process number is kept for as long as there is a process to wait for.
Waited(w) ==
  /\ w.rdb.pid <=> w.rdb.proc # "none"
  /\ w.aof.pid <=> w.aof.proc # "none"

Good(w) == w \in Servers /\ Counted(w) /\ ChildCounted(w) /\ Waited(w) /\ (w.resizes => NoChild(w))

LEMMA BecomesGood ==
  ASSUME NEW w, Good(w), Becomes(w)
  PROVE  Good(Server)'
<1>1. w = [disk |-> w.disk, save |-> w.save, rdb |-> w.rdb, aof |-> w.aof, resizes |-> w.resizes]
  BY DEF Good, Servers
<1>2. Server' = w
  BY <1>1 DEF Becomes, Server
<1> QED BY <1>2

LEMMA ServerParts ==
  ASSUME Good(Server)
  PROVE  disk \in Disks /\ save \in Saves /\ rdb \in Rdbs /\ aof \in Aofs /\ resizes \in BOOLEAN
BY DEF Good, Server, Servers

LEMMA ChangedGood ==
  ASSUME NEW w, Good(w), NEW c \in Nat
  PROVE  LET r == Changed(w, c)
         IN  /\ r \in Servers /\ r.rdb = w.rdb /\ r.aof = w.aof /\ r.resizes = w.resizes
             /\ r.disk.dump = w.disk.dump /\ r.disk.life = w.disk.life
             /\ r.disk.data.life = w.disk.data.life /\ r.disk.data.n = w.disk.data.n + 1
             /\ r.save.dirty = w.save.dirty + c /\ r.save.before = w.save.before
             /\ r.save.on = w.save.on
<1> DEFINE d == [w.disk.data EXCEPT !.n = w.disk.data.n + 1]
           k == [w.disk EXCEPT !.data = d]
           v == [w.save EXCEPT !.dirty = w.save.dirty + c]
<1>0. /\ w \in Servers /\ w.disk \in Disks /\ w.disk.data \in Snapshots /\ w.save \in Saves
  BY DEF Good, Servers, Disks
<1>1. d \in Snapshots /\ d.life = w.disk.data.life /\ d.n = w.disk.data.n + 1
  BY <1>0 DEF Snapshots
<1>2. v \in Saves /\ v.dirty = w.save.dirty + c /\ v.before = w.save.before /\ v.on = w.save.on
  BY <1>0 DEF Saves
<1>3. Changed(w, c) = [w EXCEPT !.disk = k, !.save = v]
  BY DEF Changed
<1> HIDE DEF d, v
<1>4. k \in Disks /\ k.dump = w.disk.dump /\ k.life = w.disk.life /\ k.data = d
  BY <1>0, <1>1 DEF Disks
<1> HIDE DEF k
<1>5. LET r == [w EXCEPT !.disk = k, !.save = v]
      IN r \in Servers /\ r.rdb = w.rdb /\ r.aof = w.aof /\ r.resizes = w.resizes /\ r.disk = k /\ r.save = v
  BY <1>0, <1>2, <1>4 DEF Servers
<1> QED BY <1>1, <1>2, <1>3, <1>4, <1>5

LEMMA PolicyGood ==
  ASSUME NEW w \in Servers, Counted(w), ChildCounted(w), Waited(w)
  PROVE  Good(Policy(w))
<1> DEFINE r == Policy(w)
<1>1. /\ r \in Servers /\ r.disk = w.disk /\ r.save = w.save /\ r.rdb = w.rdb /\ r.aof = w.aof
      /\ r.resizes <=> ~w.rdb.pid /\ ~w.aof.pid
  BY DEF Policy, Servers, Rdbs, Aofs
<1> HIDE DEF r
<1>2. Counted(r) /\ ChildCounted(r)
  BY <1>1 DEF Counted, ChildCounted
<1>3. Waited(r) /\ (r.resizes => NoChild(r))
  BY <1>1, Zenon DEF Waited, NoChild
<1> QED BY <1>1, <1>2, <1>3, Zenon DEF Good, r

\* Whoever saves, the dump is the data set or what it was.
LEMMA RdbSaved ==
  ASSUME NEW w \in Servers, NEW ok \in BOOLEAN
  PROVE  LET r == RdbSave(w, ok)
         IN  /\ r \in Servers /\ r.disk.data = w.disk.data /\ r.disk.life = w.disk.life
             /\ r.disk.dump \in {w.disk.dump, w.disk.data} /\ r.save.before = w.save.before
             /\ r.rdb = w.rdb /\ r.aof = w.aof /\ r.resizes = w.resizes
             /\ ok => r.disk.dump = w.disk.data /\ r.save.dirty = 0
             /\ ~ok => r = w
<1>1. CASE ~ok
  BY <1>1 DEF RdbSave
<1>2. CASE ok
  <2> DEFINE r == RdbSave(w, ok)
             k == [w.disk EXCEPT !.dump = w.disk.data]
             x == [w.save EXCEPT !.dirty = 0]
             y == [x EXCEPT !.age = 0]
             v == [y EXCEPT !.ok = TRUE]
  <2>0. w.disk \in Disks /\ w.save \in Saves
    BY DEF Servers
  <2>1. k \in Disks /\ k.data = w.disk.data /\ k.dump = w.disk.data /\ k.life = w.disk.life
    BY <2>0 DEF Disks
  <2>2. r = [w EXCEPT !.disk = k, !.save = v]
    BY <1>2 DEF RdbSave
  <2>3. x \in Saves /\ x.dirty = 0 /\ x.before = w.save.before
    BY <2>0 DEF Saves
  <2> HIDE DEF k, r, x
  <2>4. y \in Saves /\ y.dirty = 0 /\ y.before = w.save.before
    BY <2>3 DEF Saves
  <2> HIDE DEF y
  <2>5. v \in Saves /\ v.dirty = 0 /\ v.before = w.save.before
    BY <2>4 DEF Saves
  <2> HIDE DEF v
  <2>6. r \in Servers /\ r.disk = k /\ r.save = v /\ r.rdb = w.rdb /\ r.aof = w.aof /\ r.resizes = w.resizes
    BY <2>1, <2>2, <2>5 DEF Servers
  <2> QED BY <1>2, <2>1, <2>5, <2>6 DEF r
<1> QED BY <1>1, <1>2

LEMMA RdbSaveGood ==
  ASSUME NEW w, Good(w), ~w.rdb.pid, NEW ok \in BOOLEAN
  PROVE  Good(RdbSave(w, ok))
<1> DEFINE r == RdbSave(w, ok)
<1>1. CASE ~ok
  BY <1>1 DEF RdbSave
<1>2. CASE ok
  <2>1. /\ r \in Servers /\ r.disk.data = w.disk.data /\ r.disk.dump = w.disk.data
        /\ r.disk.life = w.disk.life /\ r.save.dirty = 0 /\ r.rdb = w.rdb /\ r.aof = w.aof
        /\ r.resizes = w.resizes
    BY <1>2, RdbSaved DEF Good
  <2>2. w.disk.data.n \in Nat /\ w.rdb.proc = "none" /\ w.disk.data.life = w.disk.life
    BY DEF Good, Servers, Disks, Snapshots, Waited, Counted
  <2> HIDE DEF r
  <2>3. Counted(r) /\ ChildCounted(r)
    BY <2>1, <2>2 DEF Counted, ChildCounted
  <2>4. Waited(r) /\ (r.resizes => NoChild(r))
    BY <2>1, Zenon DEF Good, Waited, NoChild
  <2> QED BY <2>1, <2>3, <2>4, Zenon DEF Good, r
<1> QED BY <1>1, <1>2

LEMMA SaveBackgroundGood ==
  ASSUME NEW w, Good(w), ~w.rdb.pid, NEW forks \in BOOLEAN
  PROVE  Good(SaveBackground(w, forks)) /\ (SaveBackground(w, forks)).aof = w.aof
<1> DEFINE t == [w EXCEPT !.save.before = w.save.dirty, !.save.tried = 0]
           b == [pid |-> TRUE, proc |-> "run", what |-> w.disk.data]
           f == [t EXCEPT !.rdb = b]
           e == [t EXCEPT !.save.ok = FALSE]
<1>0. /\ w.disk.data \in Snapshots /\ w.disk.dump \in Snapshots /\ w.disk.life \in Nat
      /\ w.save.dirty \in Nat /\ w.rdb.proc = "none" /\ w \in Servers
  BY DEF Good, Servers, Disks, Snapshots, Saves, Counted, Waited
<1>1. /\ t \in Servers /\ t.disk = w.disk /\ t.rdb = w.rdb /\ t.aof = w.aof /\ t.resizes = w.resizes
      /\ t.save.dirty = w.save.dirty /\ t.save.before = w.save.dirty
  BY <1>0 DEF Servers, Saves
<1>2. SaveBackground(w, forks) = IF forks THEN Policy(f) ELSE e
  BY DEF SaveBackground
<1> HIDE DEF t
<1>3. b \in Rdbs /\ b.pid /\ b.proc = "run" /\ b.what = w.disk.data
  BY <1>0 DEF Rdbs, Procs
<1> HIDE DEF b
<1>4. /\ f \in Servers /\ f.disk = w.disk /\ f.aof = w.aof /\ f.save = t.save
      /\ f.rdb = b
  BY <1>1, <1>3 DEF Servers
<1>5. /\ e \in Servers /\ e.disk = w.disk /\ e.rdb = w.rdb /\ e.aof = w.aof /\ e.resizes = w.resizes
      /\ e.save.dirty = w.save.dirty
  BY <1>1 DEF Servers, Saves
<1> HIDE DEF e
<1>6. Counted(f) /\ ChildCounted(f) /\ Waited(f)
  <2>1. f.rdb.pid /\ f.rdb.proc = "run" /\ f.rdb.what = w.disk.data
    BY <1>3, <1>4
  <2> HIDE DEF f
  <2>2. Counted(f)
    BY <1>0, <1>1, <1>4 DEF Good, Counted
  <2>3. ChildCounted(f)
    BY <1>0, <1>1, <1>4, <2>1 DEF Good, ChildCounted, Counted, Snapshots
  <2>4. Waited(f)
    BY <1>4, <2>1 DEF Good, Waited
  <2> QED BY <2>2, <2>3, <2>4
<1>7. Good(e)
  BY <1>0, <1>5 DEF Good, Counted, ChildCounted, Waited, NoChild
<1>8. Policy(f).aof = f.aof
  <2> HIDE DEF f
  <2> QED BY <1>4 DEF Policy, Servers
<1> HIDE DEF f
<1> QED BY <1>2, <1>4, <1>5, <1>6, <1>7, <1>8, PolicyGood
\* What touches neither the data sets nor the child that saves.
LEMMA FrameGood ==
  ASSUME NEW w, Good(w), NEW v \in Servers, v.disk = w.disk, v.rdb = w.rdb,
         v.save.dirty = w.save.dirty, v.save.before = w.save.before,
         v.aof.pid <=> v.aof.proc # "none", v.resizes => NoChild(v)
  PROVE  Good(v)
<1>1. Counted(v) /\ ChildCounted(v)
  BY DEF Good, Counted, ChildCounted
<1>2. Waited(v)
  BY Zenon DEF Good, Waited
<1> QED BY <1>1, <1>2, Zenon DEF Good

LEMMA RewriteGood ==
  ASSUME NEW w, Good(w), NEW forks \in BOOLEAN
  PROVE  LET r == Rewrite(w, forks)
         IN  Good(r) /\ r.rdb = w.rdb /\ r.save = w.save /\ r.disk = w.disk
<1> DEFINE a == [w.aof EXCEPT !.pid = TRUE, !.proc = "run", !.scheduled = FALSE]
           v == [w EXCEPT !.aof = a]
<1>0. w \in Servers /\ w.aof \in Aofs
  BY DEF Good, Servers
<1>1. CASE w.aof.pid \/ ~forks
  BY <1>1 DEF Rewrite
<1>2. CASE ~(w.aof.pid \/ ~forks)
  <2>1. a \in Aofs /\ a.pid /\ a.proc = "run"
    BY <1>0 DEF Aofs, Procs
  <2>2. Rewrite(w, forks) = Policy(v)
    BY <1>2 DEF Rewrite
  <2> HIDE DEF a
  <2>3. v \in Servers /\ v.disk = w.disk /\ v.save = w.save /\ v.rdb = w.rdb /\ v.aof = a
    BY <1>0, <2>1 DEF Servers
  <2> HIDE DEF v
  <2>4. Counted(v) /\ ChildCounted(v)
    BY <2>3 DEF Good, Counted, ChildCounted
  <2>5. Waited(v)
    BY <2>1, <2>3 DEF Good, Waited
  <2>6. Policy(v).rdb = v.rdb /\ Policy(v).save = v.save /\ Policy(v).disk = v.disk
    BY <2>3 DEF Policy, Servers
  <2> QED BY <2>2, <2>3, <2>4, <2>5, <2>6, PolicyGood
<1> QED BY <1>1, <1>2

\* A child that saves and is killed may have ended before.
LEMMA KilledGood ==
  ASSUME NEW w \in Servers
  PROVE  LET r == [w EXCEPT !.rdb.proc = Killed(@)]
         IN  /\ r \in Servers /\ r.disk = w.disk /\ r.save = w.save /\ r.aof = w.aof /\ r.resizes = w.resizes
             /\ r.rdb.pid = w.rdb.pid /\ r.rdb.what = w.rdb.what /\ r.rdb.proc # "run"
             /\ r.rdb.proc = "none" <=> w.rdb.proc = "none"
             /\ r.rdb.proc = "ok" <=> w.rdb.proc = "ok"
<1> DEFINE b == [w.rdb EXCEPT !.proc = Killed(w.rdb.proc)]
<1>0. w.rdb \in Rdbs
  BY DEF Servers
<1>1. /\ Killed(w.rdb.proc) \in Procs /\ Killed(w.rdb.proc) # "run"
      /\ Killed(w.rdb.proc) = "none" <=> w.rdb.proc = "none"
      /\ Killed(w.rdb.proc) = "ok" <=> w.rdb.proc = "ok"
  BY <1>0 DEF Killed, Rdbs, Procs
<1>2. b \in Rdbs /\ b.pid = w.rdb.pid /\ b.what = w.rdb.what /\ b.proc = Killed(w.rdb.proc)
  BY <1>0, <1>1 DEF Rdbs
<1> HIDE DEF b
<1>3. LET r == [w EXCEPT !.rdb = b]
      IN r \in Servers /\ r.disk = w.disk /\ r.save = w.save /\ r.aof = w.aof /\ r.resizes = w.resizes /\ r.rdb = b
  BY <1>2 DEF Servers
<1>4. [w EXCEPT !.rdb = b] = [w EXCEPT !.rdb.proc = Killed(@)]
  BY DEF b
<1> QED BY <1>1, <1>2, <1>3, <1>4

\* Counting so many more changes.
LEMMA DirtyTo ==
  ASSUME NEW w \in Servers, NEW n \in Int
  PROVE  LET r == [w EXCEPT !.save.dirty = n]
         IN  /\ r \in Servers /\ r.disk = w.disk /\ r.rdb = w.rdb /\ r.aof = w.aof /\ r.resizes = w.resizes
             /\ r.save.dirty = n /\ r.save.before = w.save.before
<1> DEFINE v == [w.save EXCEPT !.dirty = n]
<1>1. v \in Saves /\ v.dirty = n /\ v.before = w.save.before
  BY DEF Servers, Saves
<1>2. [w EXCEPT !.save = v] = [w EXCEPT !.save.dirty = n]
  OBVIOUS
<1> HIDE DEF v
<1>3. LET r == [w EXCEPT !.save = v]
      IN r \in Servers /\ r.disk = w.disk /\ r.save = v /\ r.aof = w.aof /\ r.resizes = w.resizes /\ r.rdb = w.rdb
  BY <1>1 DEF Servers
<1> QED BY <1>1, <1>2, <1>3
----------------------------------------------------------------------------
(* The commands.                                                           *)

LEMMA WriteGood == ASSUME Good(Server), Write PROVE Good(Server)'
<1> DEFINE r == Changed(Server, 1)
<1>1. Becomes(r)
  BY DEF Write
<1>2. /\ r \in Servers /\ r.rdb = Server.rdb /\ r.aof = Server.aof /\ r.resizes = Server.resizes
      /\ r.disk.dump = Server.disk.dump /\ r.disk.life = Server.disk.life
      /\ r.disk.data.life = Server.disk.data.life /\ r.disk.data.n = Server.disk.data.n + 1
      /\ r.save.dirty = Server.save.dirty + 1 /\ r.save.before = Server.save.before
  BY ChangedGood
<1> DEFINE w == Server
<1>3. /\ w.disk.data.n \in Nat /\ w.disk.dump.n \in Nat /\ w.save.dirty \in Int /\ w.save.before \in Nat
      /\ w.rdb.what.n \in Nat
  BY DEF Good, Servers, Disks, Snapshots, Saves, Rdbs
<1> HIDE DEF r, w
<1>4. Counted(r)
  BY <1>2, <1>3 DEF Good, Counted, w
<1>5. ChildCounted(r)
  BY <1>2, <1>3 DEF Good, ChildCounted, w
<1>6. Waited(r) /\ (r.resizes => NoChild(r))
  BY <1>2, Zenon DEF Good, Waited, NoChild
<1>7. Good(r)
  BY <1>2, <1>4, <1>5, <1>6, Zenon DEF Good
<1> QED BY <1>1, <1>7, BecomesGood

LEMMA FlushallGood ==
  ASSUME Good(Server), NEW keys \in {0, 2}, NEW ok \in BOOLEAN, FLUSHALL(keys, ok)
  PROVE  Good(Server)'
<1> DEFINE w == Server
           c == Changed(w, keys)
           f == [c EXCEPT !.rdb.proc = Killed(@)]
           t == RdbSave(f, ok)
           s == IF save.on THEN [t EXCEPT !.save.dirty = f.save.dirty] ELSE f
           r == [s EXCEPT !.save.dirty = @ + 1]
<1>1. Becomes(r)
  BY Zenon DEF FLUSHALL
<1>2. /\ c \in Servers /\ c.rdb = w.rdb /\ c.aof = w.aof /\ c.resizes = w.resizes
      /\ c.disk.dump = w.disk.dump /\ c.disk.life = w.disk.life
      /\ c.disk.data.life = w.disk.data.life /\ c.disk.data.n = w.disk.data.n + 1
      /\ c.save.dirty = w.save.dirty + keys /\ c.save.before = w.save.before
  BY ChangedGood
<1> HIDE DEF w, c
<1>3. /\ f \in Servers /\ f.disk = c.disk /\ f.save = c.save /\ f.aof = w.aof /\ f.resizes = w.resizes
      /\ f.rdb.pid = w.rdb.pid /\ f.rdb.what = w.rdb.what /\ f.rdb.proc # "run"
      /\ f.rdb.proc = "none" <=> w.rdb.proc = "none"
      /\ f.rdb.proc = "ok" <=> w.rdb.proc = "ok"
  BY <1>2, KilledGood
<1>4. c.save.dirty \in Int
  BY <1>2 DEF Servers, Saves
<1> HIDE DEF f
<1>5. /\ t \in Servers /\ t.disk.data = f.disk.data /\ t.disk.life = f.disk.life
      /\ t.disk.dump \in {f.disk.dump, f.disk.data} /\ t.save.before = f.save.before
      /\ t.rdb = f.rdb /\ t.aof = f.aof /\ t.resizes = f.resizes
  BY <1>3, RdbSaved
<1> HIDE DEF t
<1>6. /\ s \in Servers /\ s.disk.data = f.disk.data /\ s.disk.life = f.disk.life
      /\ s.disk.dump \in {f.disk.dump, f.disk.data} /\ s.save.before = f.save.before
      /\ s.rdb = f.rdb /\ s.aof = f.aof /\ s.resizes = f.resizes /\ s.save.dirty = f.save.dirty
  <2>1. f.save.dirty \in Int
    BY <1>3, <1>4
  <2>2. CASE save.on
    BY <1>5, <2>1, <2>2, DirtyTo
  <2>3. CASE ~save.on
    BY <1>3, <2>3
  <2> QED BY <2>2, <2>3
<1> HIDE DEF s
<1>7. /\ r \in Servers /\ r.disk = s.disk /\ r.rdb = s.rdb /\ r.aof = s.aof /\ r.resizes = s.resizes
      /\ r.save.dirty = s.save.dirty + 1 /\ r.save.before = s.save.before
  <2> DEFINE n == s.save.dirty + 1
  <2>1. n \in Int
    BY <1>3, <1>4, <1>6
  <2>2. r = [s EXCEPT !.save.dirty = n]
    OBVIOUS
  <2>3. n = s.save.dirty + 1
    OBVIOUS
  <2> HIDE DEF n, r
  <2> QED BY <1>6, <2>1, <2>2, <2>3, DirtyTo
<1> HIDE DEF r
<1>8. /\ w.disk.data.n \in Nat /\ w.disk.dump.n \in Nat /\ w.save.dirty \in Int /\ w.save.before \in Nat
  BY DEF Good, Servers, Disks, Snapshots, Saves, w
<1>9. /\ r.save.dirty = w.save.dirty + keys + 1 /\ r.save.before = w.save.before
      /\ r.disk.data.n = w.disk.data.n + 1 /\ r.disk.life = w.disk.life
      /\ r.disk.data.life = w.disk.data.life
      /\ \/ r.disk.dump.n = w.disk.dump.n /\ r.disk.dump.life = w.disk.dump.life
         \/ r.disk.dump.n = w.disk.data.n + 1 /\ r.disk.dump.life = w.disk.data.life
  BY <1>2, <1>3, <1>6, <1>7, <1>8
<1>10. /\ w.disk.data.life = w.disk.life /\ w.disk.dump.life = w.disk.life
       /\ w.disk.dump.n <= w.disk.data.n
       /\ w.disk.data.n - w.disk.dump.n <= w.save.dirty
       /\ w.rdb.proc = "ok" => w.disk.data.n - w.disk.dump.n <= w.save.dirty - w.save.before
  BY DEF Good, Counted, ChildCounted, w
<1>11. Counted(r)
  BY <1>8, <1>9, <1>10 DEF Counted
<1>12. ChildCounted(r)
  BY <1>3, <1>6, <1>7, <1>8, <1>9, <1>10 DEF ChildCounted
<1>13. Waited(r) /\ (r.resizes => NoChild(r))
  <2>1. r.rdb.pid = w.rdb.pid /\ r.aof = w.aof /\ r.resizes = w.resizes
    BY <1>3, <1>6, <1>7
  <2>2. r.rdb.proc = "none" <=> w.rdb.proc = "none"
    BY <1>3, <1>6, <1>7
  <2> QED BY <2>1, <2>2, Zenon DEF Good, Waited, NoChild, w
<1>14. Good(r)
  BY <1>7, <1>11, <1>12, <1>13, Zenon DEF Good
<1> QED BY <1>1, <1>14, BecomesGood DEF r
LEMMA SavesGood ==
  ASSUME Good(Server), NEW yes \in BOOLEAN, SAVE(yes) \/ BGSAVE(yes) \/ SlaveBgsave(yes)
  PROVE  Good(Server)'
<1>1. ~Server.rdb.pid
  BY DEF SAVE, BGSAVE, SlaveBgsave, Server
<1>2. Becomes(RdbSave(Server, yes)) \/ Becomes(SaveBackground(Server, yes))
  BY DEF SAVE, BGSAVE, SlaveBgsave
<1> QED BY <1>1, <1>2, RdbSaveGood, SaveBackgroundGood, BecomesGood

\* A field of the append only file that has no part in the invariant.
LEMMA AofGood ==
  ASSUME NEW w, Good(w), NEW a \in Aofs, a.pid = w.aof.pid, a.proc = w.aof.proc
  PROVE  Good([w EXCEPT !.aof = a])
<1> DEFINE v == [w EXCEPT !.aof = a]
<1>1. v \in Servers /\ v.disk = w.disk /\ v.save = w.save /\ v.rdb = w.rdb /\ v.aof = a /\ v.resizes = w.resizes
  BY DEF Good, Servers
<1> HIDE DEF v
<1>2. v.aof.pid <=> v.aof.proc # "none"
  BY <1>1, Zenon DEF Good, Waited
<1>3. v.resizes => NoChild(v)
  BY <1>1, Zenon DEF Good, NoChild
<1> QED BY <1>1, <1>2, <1>3, FrameGood DEF v

LEMMA RewritesGood ==
  ASSUME Good(Server), NEW yes \in BOOLEAN, BGREWRITEAOF(yes) \/ StartAppendOnly(yes)
  PROVE  Good(Server)'
<1> DEFINE r == Rewrite(Server, yes)
<1>1. Good(r)
  BY RewriteGood
<1>2. /\ Good([Server EXCEPT !.aof.scheduled = TRUE])
      /\ Good([r EXCEPT !.aof.state = "WAIT"])
  <2>1. ASSUME NEW w, Good(w)
        PROVE  Good([w EXCEPT !.aof.scheduled = TRUE]) /\ Good([w EXCEPT !.aof.state = "WAIT"])
    <3> DEFINE a == [w.aof EXCEPT !.scheduled = TRUE]
               b == [w.aof EXCEPT !.state = "WAIT"]
    <3>1. a \in Aofs /\ a.pid = w.aof.pid /\ a.proc = w.aof.proc
      BY <2>1 DEF Good, Servers, Aofs
    <3>2. b \in Aofs /\ b.pid = w.aof.pid /\ b.proc = w.aof.proc
      BY <2>1 DEF Good, Servers, Aofs
    <3>3. /\ [w EXCEPT !.aof = a] = [w EXCEPT !.aof.scheduled = TRUE]
          /\ [w EXCEPT !.aof = b] = [w EXCEPT !.aof.state = "WAIT"]
      OBVIOUS
    <3> HIDE DEF a, b
    <3> QED BY <2>1, <3>1, <3>2, <3>3, AofGood
  <2> HIDE DEF r
  <2> QED BY <1>1, <2>1
<1>3. \/ Becomes(r) \/ Becomes(Server)
      \/ Becomes([Server EXCEPT !.aof.scheduled = TRUE]) \/ Becomes([r EXCEPT !.aof.state = "WAIT"])
  BY DEF BGREWRITEAOF, StartAppendOnly
<1> HIDE DEF r
<1> QED BY <1>1, <1>2, <1>3, BecomesGood

LEMMA StopAppendOnlyGood ==
  ASSUME Good(Server), "stop" \notin Overlaps, StopAppendOnly
  PROVE  Good(Server)'
<1> DEFINE w == Server
           a == [w.aof EXCEPT !.state = "OFF", !.pid = FALSE, !.proc = "none"]
           v == [w EXCEPT !.aof = a]
<1>1. Becomes(v)
  <2>1. Becomes([Server EXCEPT !.aof.state = "OFF", !.aof.pid = FALSE, !.aof.proc = "none"])
    BY DEF StopAppendOnly
  <2>2. [Server EXCEPT !.aof.state = "OFF", !.aof.pid = FALSE, !.aof.proc = "none"] = v
    BY DEF Server
  <2> QED BY <2>1, <2>2
<1>2. w \in Servers /\ w.aof \in Aofs
  BY DEF Good, Servers
<1> HIDE DEF w
<1>3. a \in Aofs /\ ~a.pid /\ a.proc = "none"
  BY <1>2 DEF Aofs, Procs
<1> HIDE DEF a
<1>4. v \in Servers /\ v.disk = w.disk /\ v.save = w.save /\ v.rdb = w.rdb /\ v.aof = a /\ v.resizes = w.resizes
  BY <1>2, <1>3 DEF Servers
<1> HIDE DEF v
<1>5. v.resizes => NoChild(v)
  BY <1>3, <1>4, Zenon DEF Good, NoChild, w
<1>6. Good(v)
  BY <1>3, <1>4, <1>5, FrameGood DEF w
<1> QED BY <1>1, <1>6, BecomesGood

\* The save points, and the clocks.
LEMMA SaveFrame ==
  ASSUME NEW w, Good(w), NEW v \in Saves, v.dirty = w.save.dirty, v.before = w.save.before
  PROVE  Good([w EXCEPT !.save = v])
<1> DEFINE r == [w EXCEPT !.save = v]
<1>1. r \in Servers /\ r.disk = w.disk /\ r.save = v /\ r.rdb = w.rdb /\ r.aof = w.aof /\ r.resizes = w.resizes
  BY DEF Good, Servers
<1> HIDE DEF r
<1>2. r.aof.pid <=> r.aof.proc # "none"
  BY <1>1, Zenon DEF Good, Waited
<1>3. r.resizes => NoChild(r)
  BY <1>1, Zenon DEF Good, NoChild
<1> QED BY <1>1, <1>2, <1>3, FrameGood DEF r

LEMMA ConfigSaveGood == ASSUME Good(Server), ConfigSave PROVE Good(Server)'
<1> DEFINE v == [save EXCEPT !.on = ~save.on]
<1>1. save \in Saves
  BY ServerParts
<1>2. v \in Saves /\ v.dirty = save.dirty /\ v.before = save.before
  BY <1>1 DEF Saves
<1>3. Becomes([Server EXCEPT !.save = v])
  BY DEF ConfigSave, Server
<1> HIDE DEF v
<1>4. Good([Server EXCEPT !.save = v])
  BY <1>2, SaveFrame DEF Server
<1> QED BY <1>3, <1>4, BecomesGood

LEMMA SecondGood ==
  ASSUME Good(Server), Seconds \in Nat, RetryDelay \in Nat, Second
  PROVE  Good(Server)'
<1> DEFINE v == [save EXCEPT !.age = Older(@, Seconds), !.tried = Older(@, RetryDelay)]
<1>1. save \in Saves
  BY ServerParts
<1>2. Older(save.age, Seconds) \in Nat /\ Older(save.tried, RetryDelay) \in Nat
  BY <1>1 DEF Older, Saves
<1>3. v \in Saves /\ v.dirty = save.dirty /\ v.before = save.before
  BY <1>1, <1>2 DEF Saves
<1>4. Becomes([Server EXCEPT !.save = v])
  BY DEF Second, Becomes, Server
<1> HIDE DEF v
<1>5. Good([Server EXCEPT !.save = v])
  BY <1>3, SaveFrame DEF Server
<1> QED BY <1>4, <1>5, BecomesGood

\* What a start makes of the counters.
LEMMA StartedSave ==
  ASSUME NEW s \in Saves, RetryDelay \in Nat
  PROVE  LET v == [s EXCEPT !.dirty = 0, !.before = 0, !.age = 0, !.tried = RetryDelay + 1, !.ok = TRUE]
         IN  v \in Saves /\ v.dirty = 0
<1> DEFINE d == [s EXCEPT !.dirty = 0]
           b == [d EXCEPT !.before = 0]
           a == [b EXCEPT !.age = 0]
           t == [a EXCEPT !.tried = RetryDelay + 1]
           v == [t EXCEPT !.ok = TRUE]
<1>0. v = [s EXCEPT !.dirty = 0, !.before = 0, !.age = 0, !.tried = RetryDelay + 1, !.ok = TRUE]
  OBVIOUS
<1>1. d \in Saves /\ d.dirty = 0
  BY DEF Saves
<1> HIDE DEF d
<1>2. b \in Saves /\ b.dirty = 0
  BY <1>1 DEF Saves
<1> HIDE DEF b
<1>3. a \in Saves /\ a.dirty = 0
  BY <1>2 DEF Saves
<1> HIDE DEF a
<1>4. RetryDelay + 1 \in Nat
  OBVIOUS
<1>5. t \in Saves /\ t.dirty = 0
  BY <1>3, <1>4 DEF Saves
<1> HIDE DEF t
<1>6. v \in Saves /\ v.dirty = 0
  BY <1>5 DEF Saves
<1> HIDE DEF v
<1> QED BY <1>0, <1>6

\* Crash, and a SHUTDOWN that succeeds: the next life.
LEMMA StartedGood ==
  ASSUME Good(Server), RetryDelay \in Nat, "orphan" \notin Overlaps, NEW dump, Started(dump)
  PROVE  Good(Server)'
<1> DEFINE new == [life |-> disk.life + 1, n |-> 0]
           k == [data |-> new, dump |-> new, life |-> disk.life + 1]
           v == [save EXCEPT !.dirty = 0, !.before = 0, !.age = 0, !.tried = RetryDelay + 1, !.ok = TRUE]
           r == [disk |-> k, save |-> v, rdb |-> NoRdb, aof |-> NoAof, resizes |-> TRUE]
<1>1. disk \in Disks /\ save \in Saves
  BY ServerParts
<1>2. new \in Snapshots /\ new.life = disk.life + 1 /\ new.n = 0
  BY <1>1 DEF Snapshots, Disks
<1>3. k \in Disks /\ k.data = new /\ k.dump = new /\ k.life = disk.life + 1
  BY <1>1, <1>2 DEF Disks
<1>4. v \in Saves /\ v.dirty = 0
  BY <1>1, StartedSave
<1>5. Becomes(r)
  <2>1. save' = v /\ disk' = k /\ rdb' = NoRdb /\ aof' = NoAof /\ resizes' = TRUE
    BY DEF Started
  <2> HIDE DEF v, k
  <2> QED BY <2>1 DEF Becomes
<1> HIDE DEF new, k, v
<1>7. /\ NoRdb \in Rdbs /\ NoRdb.proc = "none" /\ ~NoRdb.pid
      /\ NoAof \in Aofs /\ NoAof.proc = "none" /\ ~NoAof.pid
  BY DEF NoRdb, NoAof, Rdbs, Aofs, Procs, Snapshots
<1>8. r \in Servers /\ r.disk = k /\ r.save = v /\ r.rdb = NoRdb /\ r.aof = NoAof
  BY <1>3, <1>4, <1>7 DEF Servers
<1> HIDE DEF r
<1>9. Counted(r)
  BY <1>2, <1>3, <1>4, <1>8 DEF Counted
<1>10. ChildCounted(r)
  BY <1>7, <1>8 DEF ChildCounted
<1>11. Waited(r) /\ NoChild(r)
  BY <1>7, <1>8 DEF Waited, NoChild
<1> QED BY <1>5, <1>8, <1>9, <1>10, <1>11, BecomesGood DEF Good

\* Killing the children, as SHUTDOWN does.
LEMMA RdbKilledGood ==
  ASSUME NEW w, Good(w)
  PROVE  Good([w EXCEPT !.rdb.proc = Killed(@)])
<1> DEFINE r == [w EXCEPT !.rdb.proc = Killed(@)]
<1>1. /\ r \in Servers /\ r.disk = w.disk /\ r.save = w.save /\ r.aof = w.aof /\ r.resizes = w.resizes
      /\ r.rdb.pid = w.rdb.pid /\ r.rdb.proc # "run"
  BY KilledGood DEF Good
<1>2. (r.rdb.proc = "none" <=> w.rdb.proc = "none") /\ (r.rdb.proc = "ok" <=> w.rdb.proc = "ok")
  BY KilledGood DEF Good
<1> HIDE DEF r
<1>3. Counted(r) /\ ChildCounted(r)
  BY <1>1, <1>2 DEF Good, Counted, ChildCounted
<1>4. Waited(r) /\ (r.resizes => NoChild(r))
  BY <1>1, <1>2, Zenon DEF Good, Waited, NoChild
<1> QED BY <1>1, <1>3, <1>4, Zenon DEF Good, r

LEMMA AofKilledGood ==
  ASSUME NEW w, Good(w)
  PROVE  Good([w EXCEPT !.aof.proc = Killed(@)])
<1> DEFINE a == [w.aof EXCEPT !.proc = Killed(w.aof.proc)]
           v == [w EXCEPT !.aof = a]
<1>1. w \in Servers /\ w.aof \in Aofs
  BY DEF Good, Servers
<1>2. Killed(w.aof.proc) \in Procs /\ (Killed(w.aof.proc) = "none" <=> w.aof.proc = "none")
  BY <1>1 DEF Killed, Aofs, Procs
<1>3. a \in Aofs /\ a.pid = w.aof.pid /\ a.proc = Killed(w.aof.proc)
  BY <1>1, <1>2 DEF Aofs
<1>4. v = [w EXCEPT !.aof.proc = Killed(@)]
  OBVIOUS
<1> HIDE DEF a
<1>5. v \in Servers /\ v.disk = w.disk /\ v.save = w.save /\ v.rdb = w.rdb /\ v.aof = a /\ v.resizes = w.resizes
  BY <1>1, <1>3 DEF Servers
<1> HIDE DEF v
<1>6. v.aof.pid <=> v.aof.proc # "none"
  BY <1>2, <1>3, <1>5, Zenon DEF Good, Waited
<1>7. v.resizes => NoChild(v)
  BY <1>3, <1>5, Zenon DEF Good, NoChild
<1> QED BY <1>4, <1>5, <1>6, <1>7, FrameGood

LEMMA ShutdownGood ==
  ASSUME Good(Server), RetryDelay \in Nat, "orphan" \notin Overlaps,
         NEW saves \in BOOLEAN, NEW ok \in BOOLEAN, SHUTDOWN(saves, ok)
  PROVE  Good(Server)'
<1> DEFINE k == [Server EXCEPT !.rdb.proc = Killed(@)]
           d == [k EXCEPT !.aof.proc = Killed(@)]
<1>1. Good(k) /\ Good(d)
  <2>1. Good(k)
    BY RdbKilledGood
  <2> HIDE DEF k
  <2> QED BY <2>1, AofKilledGood
<1>2. Becomes(k) \/ Becomes(d) \/ Started(disk.data) \/ Started(disk.dump)
  BY DEF SHUTDOWN
<1> HIDE DEF k, d
<1> QED BY <1>1, <1>2, BecomesGood, StartedGood

LEMMA ResyncGood ==
  ASSUME Good(Server), "resync" \notin Overlaps, Resync
  PROVE  Good(Server)'
<1> DEFINE w == Server
           new == [w.disk.data EXCEPT !.n = @ + 1]
           k == [w.disk EXCEPT !.data = new, !.dump = new]
           r == [w EXCEPT !.disk = k]
<1>1. w \in Servers /\ w.disk \in Disks /\ w.disk.data \in Snapshots /\ w.save \in Saves
  BY DEF Good, Servers, Disks
<1>2. Becomes(r)
  BY DEF Resync, Server
<1>3. w.rdb.proc # "run"
  BY DEF Resync, Server
<1> HIDE DEF w
<1>4. new \in Snapshots /\ new.n = w.disk.data.n + 1 /\ new.life = w.disk.data.life
  BY <1>1 DEF Snapshots
<1> HIDE DEF new
<1>5. k \in Disks /\ k.data = new /\ k.dump = new /\ k.life = w.disk.life
  BY <1>1, <1>4 DEF Disks
<1> HIDE DEF k
<1>6. r \in Servers /\ r.disk = k /\ r.save = w.save /\ r.rdb = w.rdb /\ r.aof = w.aof /\ r.resizes = w.resizes
  BY <1>1, <1>5 DEF Servers
<1> HIDE DEF r
<1>7. /\ w.disk.data.life = w.disk.life /\ w.disk.dump.n <= w.disk.data.n
      /\ w.disk.data.n - w.disk.dump.n <= w.save.dirty
      /\ w.rdb.proc = "ok" => w.disk.data.n - w.disk.dump.n <= w.save.dirty - w.save.before
      /\ w.disk.data.n \in Nat /\ w.disk.dump.n \in Nat /\ w.save.dirty \in Int /\ w.save.before \in Nat
  BY <1>1 DEF Good, Counted, ChildCounted, w, Disks, Snapshots, Saves
<1>8. Counted(r) /\ ChildCounted(r)
  BY <1>3, <1>4, <1>5, <1>6, <1>7 DEF Counted, ChildCounted
<1>9. Waited(r) /\ (r.resizes => NoChild(r))
  BY <1>6, Zenon DEF Good, Waited, NoChild, w
<1>10. Good(r)
  BY <1>6, <1>8, <1>9, Zenon DEF Good
<1> QED BY <1>2, <1>10, BecomesGood

----------------------------------------------------------------------------
(* The children that end, and the cron.                                    *)

LEMMA RdbEndsGood ==
  ASSUME Good(Server), NEW ok \in BOOLEAN, RdbEnds(ok)
  PROVE  Good(Server)'
<1> DEFINE w == Server
           p == IF ok THEN "ok" ELSE "err"
           b == [rdb EXCEPT !.proc = p]
           k == [disk EXCEPT !.dump = rdb.what]
           e == IF ok THEN k ELSE disk
           r == [disk |-> e, save |-> save, rdb |-> b, aof |-> aof, resizes |-> resizes]
<1>1. disk \in Disks /\ save \in Saves /\ rdb \in Rdbs /\ aof \in Aofs /\ resizes \in BOOLEAN
  BY ServerParts
<1>2. rdb.proc = "run" /\ rdb.pid
  BY DEF RdbEnds, Good, Waited, Server
<1>3. Becomes(r)
  BY <1>2 DEF RdbEnds, Becomes
<1>4. p \in Procs /\ p \notin {"none", "run"} /\ (p = "ok" <=> ok)
  BY DEF Procs
<1> HIDE DEF p
<1>5. b \in Rdbs /\ b.pid /\ b.proc = p /\ b.what = rdb.what
  BY <1>1, <1>2, <1>4 DEF Rdbs
<1> HIDE DEF b
<1>6. rdb.what \in Snapshots
  BY <1>1 DEF Rdbs
<1>7. k \in Disks /\ k.data = disk.data /\ k.dump = rdb.what /\ k.life = disk.life
  BY <1>1, <1>6 DEF Disks
<1> HIDE DEF k
<1>8. e \in Disks /\ e.data = disk.data /\ e.life = disk.life /\ e.dump = IF ok THEN rdb.what ELSE disk.dump
  BY <1>1, <1>7
<1> HIDE DEF e
<1>9. r \in Servers /\ r.disk = e /\ r.save = save /\ r.rdb = b /\ r.aof = aof /\ r.resizes = resizes
  BY <1>1, <1>5, <1>8 DEF Servers
<1> HIDE DEF r
<1>10. Counted(w) /\ ChildCounted(w) /\ w.disk = disk /\ w.save = save /\ w.rdb = rdb
  BY DEF Good, Server
<1>11. /\ disk.data.n \in Nat /\ disk.dump.n \in Nat /\ rdb.what.n \in Nat
       /\ save.dirty \in Int /\ save.before \in Nat
  BY <1>1 DEF Disks, Snapshots, Rdbs, Saves
<1> HIDE DEF w
<1>12. Counted(r) /\ ChildCounted(r)
  BY <1>2, <1>4, <1>5, <1>8, <1>9, <1>10, <1>11 DEF Counted, ChildCounted
<1>13. Waited(r) /\ (r.resizes => NoChild(r))
  <2>1. Waited(w) /\ (w.resizes => NoChild(w)) /\ w.aof = aof /\ w.resizes = resizes
    BY DEF Good, Server, w
  <2> QED BY <1>2, <1>4, <1>5, <1>9, <1>10, <2>1, Zenon DEF Waited, NoChild
<1> QED BY <1>3, <1>9, <1>12, <1>13, BecomesGood DEF Good

LEMMA AofEndsGood ==
  ASSUME Good(Server), NEW ok \in BOOLEAN, AofEnds(ok)
  PROVE  Good(Server)'
<1> DEFINE w == Server
           p == IF ok THEN "ok" ELSE "err"
           a == [aof EXCEPT !.proc = p]
           r == [w EXCEPT !.aof = a]
<1>1. aof \in Aofs /\ aof.proc = "run" /\ w \in Servers /\ w.aof = aof
  BY ServerParts DEF AofEnds, Good, Server
<1>2. Becomes(r)
  BY DEF AofEnds, Becomes, Server
<1>3. a \in Aofs /\ a.pid = aof.pid /\ a.proc # "none"
  BY <1>1 DEF Aofs, Procs
<1> HIDE DEF w, a
<1>4. r \in Servers /\ r.disk = w.disk /\ r.save = w.save /\ r.rdb = w.rdb /\ r.aof = a /\ r.resizes = w.resizes
  BY <1>1, <1>3 DEF Servers
<1> HIDE DEF r
<1>5. r.aof.pid <=> r.aof.proc # "none"
  BY <1>1, <1>3, <1>4, Zenon DEF Good, Waited, w
<1>6. r.resizes => NoChild(r)
  BY <1>1, <1>3, <1>4, Zenon DEF Good, NoChild, w
<1> QED BY <1>2, <1>4, <1>5, <1>6, BecomesGood, FrameGood DEF w

\* What the save that ended leaves to count.
LEMMA SaveDoneGood ==
  ASSUME NEW w, Good(w), w.rdb.proc \in Zombie
  PROVE  Good(Policy(SaveDone(w)))
<1> DEFINE e == [w EXCEPT !.rdb = NoRdb]
           d == w.save.dirty - w.save.before
           x == [w.save EXCEPT !.dirty = d]
           y == [x EXCEPT !.age = 0]
           v == [y EXCEPT !.ok = TRUE]
           z == [w.save EXCEPT !.ok = FALSE]
           s == SaveDone(w)
<1>1. w \in Servers /\ w.save \in Saves /\ w.disk \in Disks /\ w.rdb.proc \in {"ok", "err", "sig"}
  BY DEF Good, Servers, Zombie
<1>2. /\ NoRdb \in Rdbs /\ NoRdb.proc = "none" /\ ~NoRdb.pid
  BY DEF NoRdb, Rdbs, Procs, Snapshots
<1>3. e \in Servers /\ e.disk = w.disk /\ e.save = w.save /\ e.rdb = NoRdb /\ e.aof = w.aof /\ e.resizes = w.resizes
  BY <1>1, <1>2 DEF Servers
<1>4. /\ w.rdb.proc = "ok" => s = [e EXCEPT !.save = v]
      /\ w.rdb.proc = "err" => s = [e EXCEPT !.save = z]
      /\ w.rdb.proc = "sig" => s = e
  <2>1. /\ w.rdb.proc = "ok" => s = [e EXCEPT !.save.dirty = @ - w.save.before, !.save.age = 0, !.save.ok = TRUE]
        /\ w.rdb.proc = "err" => s = [e EXCEPT !.save.ok = FALSE]
        /\ w.rdb.proc = "sig" => s = e
    BY DEF SaveDone
  <2>2. /\ [e EXCEPT !.save.dirty = @ - w.save.before, !.save.age = 0, !.save.ok = TRUE]
             = [e EXCEPT !.save = [[[e.save EXCEPT !.dirty = e.save.dirty - w.save.before] EXCEPT !.age = 0] EXCEPT !.ok = TRUE]]
        /\ [e EXCEPT !.save.ok = FALSE] = [e EXCEPT !.save = [e.save EXCEPT !.ok = FALSE]]
    OBVIOUS
  <2> HIDE DEF e, s
  <2> QED BY <1>3, <2>1, <2>2
<1> HIDE DEF e, s
<1>5. d \in Int
  BY <1>1 DEF Saves
<1>5a. d = w.save.dirty - w.save.before
  OBVIOUS
<1> HIDE DEF d
<1>6. x \in Saves /\ x.dirty = d
  BY <1>1, <1>5 DEF Saves
<1> HIDE DEF x
<1>7. y \in Saves /\ y.dirty = d
  BY <1>6 DEF Saves
<1> HIDE DEF y
<1>8. v \in Saves /\ v.dirty = d
  BY <1>7 DEF Saves
<1>9. z \in Saves /\ z.dirty = w.save.dirty
  BY <1>1 DEF Saves
<1> HIDE DEF v, z
<1>10. /\ [e EXCEPT !.save = v] \in Servers /\ [e EXCEPT !.save = z] \in Servers
       /\ [e EXCEPT !.save = v].save = v /\ [e EXCEPT !.save = z].save = z
       /\ [e EXCEPT !.save = v].disk = w.disk /\ [e EXCEPT !.save = z].disk = w.disk
       /\ [e EXCEPT !.save = v].rdb = NoRdb /\ [e EXCEPT !.save = z].rdb = NoRdb
       /\ [e EXCEPT !.save = v].aof = w.aof /\ [e EXCEPT !.save = z].aof = w.aof
  BY <1>3, <1>8, <1>9 DEF Servers
<1>11. /\ s \in Servers /\ s.disk = w.disk /\ s.rdb = NoRdb /\ s.aof = w.aof
       /\ s.save.dirty = w.save.dirty \/ (w.rdb.proc = "ok" /\ s.save.dirty = w.save.dirty - w.save.before)
  BY <1>1, <1>3, <1>4, <1>5a, <1>8, <1>9, <1>10
<1>12. Counted(s)
  BY <1>11 DEF Good, Counted, ChildCounted
<1>13. ChildCounted(s)
  BY <1>2, <1>11 DEF ChildCounted
<1>14. Waited(s)
  BY <1>2, <1>11, Zenon DEF Good, Waited
<1> QED BY <1>11, <1>12, <1>13, <1>14, PolicyGood DEF s

LEMMA RewriteDoneGood ==
  ASSUME NEW w, Good(w)
  PROVE  Good(Policy(RewriteDone(w)))
<1> DEFINE on == w.aof.proc = "ok" /\ w.aof.state = "WAIT"
           st == IF on THEN "ON" ELSE w.aof.state
           sc == w.aof.scheduled \/ (w.aof.state = "WAIT" /\ ~on)
           x == [w.aof EXCEPT !.pid = FALSE]
           y == [x EXCEPT !.proc = "none"]
           z == [y EXCEPT !.state = st]
           a == [z EXCEPT !.scheduled = sc]
           r == [w EXCEPT !.aof = a]
<1>1. w \in Servers /\ w.aof \in Aofs
  BY DEF Good, Servers
<1>2. RewriteDone(w) = r
  BY DEF RewriteDone
<1>3. st \in {"OFF", "WAIT", "ON"} /\ sc \in BOOLEAN
  BY <1>1 DEF Aofs
<1> HIDE DEF st, sc
<1>4. x \in Aofs /\ ~x.pid
  BY <1>1 DEF Aofs
<1> HIDE DEF x
<1>5. y \in Aofs /\ ~y.pid /\ y.proc = "none"
  BY <1>4 DEF Aofs, Procs
<1> HIDE DEF y
<1>6. z \in Aofs /\ ~z.pid /\ z.proc = "none"
  BY <1>3, <1>5 DEF Aofs
<1> HIDE DEF z
<1>7. a \in Aofs /\ ~a.pid /\ a.proc = "none"
  BY <1>3, <1>6 DEF Aofs
<1> HIDE DEF a
<1>8. r \in Servers /\ r.disk = w.disk /\ r.save = w.save /\ r.rdb = w.rdb /\ r.aof = a
  BY <1>1, <1>7 DEF Servers
<1> HIDE DEF r
<1>9. Counted(r) /\ ChildCounted(r)
  BY <1>8 DEF Good, Counted, ChildCounted
<1>10. Waited(r)
  BY <1>7, <1>8, Zenon DEF Good, Waited
<1> QED BY <1>2, <1>8, <1>9, <1>10, PolicyGood

LEMMA CronGood ==
  ASSUME Good(Server), NEW forks \in BOOLEAN, Cron(forks)
  PROVE  Good(Server)'
<1> DEFINE w == IF NoChild(Server) /\ aof.scheduled THEN Rewrite(Server, forks) ELSE Server
           s == IF SavePoint(w.save) THEN SaveBackground(w, forks) ELSE w
<1>1. Good(w)
  BY RewriteGood
<1>2. \/ NoChild(w) /\ (Becomes(s) \/ Becomes(Rewrite(s, forks)))
      \/ w.rdb.proc \in Zombie /\ Becomes(Policy(SaveDone(w)))
      \/ Becomes(Policy(RewriteDone(w))) \/ Becomes(w)
  BY Zenon DEF Cron
<1> HIDE DEF w
<1>3. ASSUME NoChild(w) PROVE Good(s)
  BY <1>1, <1>3, SaveBackgroundGood DEF NoChild
<1> HIDE DEF s
<1>4. ASSUME NoChild(w) PROVE Good(Rewrite(s, forks))
  BY <1>3, <1>4, RewriteGood
<1> QED BY <1>1, <1>2, <1>3, <1>4, SaveDoneGood, RewriteDoneGood, BecomesGood

----------------------------------------------------------------------------

LEMMA ChildrenInitially == RetryDelay \in Nat /\ ChildrenInit => Good(Server)
<1> SUFFICES ASSUME RetryDelay \in Nat, ChildrenInit PROVE Good(Server)
  OBVIOUS
<1>1. NoRdb.what = [life |-> 1, n |-> 0] /\ NoRdb.what \in Snapshots
  BY DEF NoRdb, Snapshots
<1>2. /\ NoRdb \in Rdbs /\ NoRdb.proc = "none" /\ ~NoRdb.pid
      /\ NoAof \in Aofs /\ NoAof.proc = "none" /\ ~NoAof.pid
  BY <1>1 DEF NoRdb, NoAof, Rdbs, Aofs, Procs
<1>3. /\ disk \in Disks /\ disk.data.n = 0 /\ disk.dump.n = 0 /\ disk.life = 1
      /\ disk.data.life = 1 /\ disk.dump.life = 1
  BY <1>1 DEF ChildrenInit, Disks
<1>4. RetryDelay + 1 \in Nat
  OBVIOUS
<1>5. save \in Saves /\ save.dirty = 0
  BY <1>4 DEF ChildrenInit, Saves
<1>6. rdb = NoRdb /\ aof = NoAof /\ resizes = TRUE
  BY DEF ChildrenInit
<1>7. /\ Server \in Servers /\ Server.disk = disk /\ Server.save = save /\ Server.rdb = NoRdb
      /\ Server.aof = NoAof
  BY <1>2, <1>3, <1>5, <1>6 DEF Server, Servers
<1>8. Counted(Server) /\ ChildCounted(Server)
  BY <1>2, <1>3, <1>5, <1>7 DEF Counted, ChildCounted
<1>9. Waited(Server) /\ NoChild(Server)
  BY <1>2, <1>7 DEF Waited, NoChild
<1> QED BY <1>7, <1>8, <1>9 DEF Good

LEMMA ChildrenInductive ==
  ASSUME Overlaps = {}, Seconds \in Nat, RetryDelay \in Nat
  PROVE  Good(Server) /\ [ChildrenNext]_childvars => Good(Server)'
<1> SUFFICES ASSUME Good(Server), [ChildrenNext]_childvars PROVE Good(Server)'
  OBVIOUS
<1>0. "stop" \notin Overlaps /\ "resync" \notin Overlaps /\ "orphan" \notin Overlaps
  OBVIOUS
<1>1. CASE Write \/ ConfigSave \/ StopAppendOnly \/ Resync \/ Second
  BY <1>0, <1>1, WriteGood, ConfigSaveGood, StopAppendOnlyGood, ResyncGood, SecondGood
<1>2. CASE Crash
  BY <1>0, <1>2, StartedGood DEF Crash
<1>3. ASSUME NEW yes \in BOOLEAN, SAVE(yes) \/ BGSAVE(yes) \/ SlaveBgsave(yes)
      PROVE  Good(Server)'
  BY <1>3, SavesGood
<1>4. ASSUME NEW yes \in BOOLEAN, BGREWRITEAOF(yes) \/ StartAppendOnly(yes)
      PROVE  Good(Server)'
  BY <1>4, RewritesGood
<1>5. ASSUME NEW yes \in BOOLEAN, RdbEnds(yes) \/ AofEnds(yes) \/ Cron(yes)
      PROVE  Good(Server)'
  BY <1>5, RdbEndsGood, AofEndsGood, CronGood
<1>6. ASSUME NEW yes \in BOOLEAN, NEW saves \in BOOLEAN, SHUTDOWN(saves, yes)
      PROVE  Good(Server)'
  BY <1>0, <1>6, ShutdownGood
<1>7. ASSUME NEW yes \in BOOLEAN, NEW keys \in {0, 2}, FLUSHALL(keys, yes)
      PROVE  Good(Server)'
  BY <1>7, FlushallGood
<1>8. CASE UNCHANGED childvars
  <2>1. Server' = Server
    BY <1>8 DEF childvars, Server
  <2> QED BY <2>1
<1> QED BY <1>1, <1>2, <1>3, <1>4, <1>5, <1>6, <1>7, <1>8, Zenon DEF ChildrenNext

\* rdb.c, aof.c and serverCron, for any save point, number of changes, commands
\* and starts, when none of the three races of the README's section 6 happens:
\* server.dirty is at least the changes dump.rdb lacks, whoever saved it last and
\* whatever was killed, so no save point is missed; a child is there exactly when
\* its pid is set, so wait3 takes each; and no table resizes while one is there.
THEOREM ChildrenKept ==
  ASSUME Overlaps = {}, Seconds \in Nat, RetryDelay \in Nat
  PROVE  ChildrenSpec => []ChildrenSound
<1>1. Good(Server) => ChildrenSound
  <2> SUFFICES ASSUME Good(Server) PROVE ChildrenSound
    OBVIOUS
  <2>1. Counted(Server) /\ Waited(Server) /\ (Server.resizes => NoChild(Server))
    BY DEF Good
  <2>2. /\ Server.disk = disk /\ Server.save = save /\ Server.rdb = rdb /\ Server.aof = aof
        /\ Server.resizes = resizes
    BY DEF Server
  <2>3. /\ disk.dump.life = disk.life /\ 0 <= disk.data.n - disk.dump.n
        /\ disk.data.n - disk.dump.n <= save.dirty
    <3>1. disk.data.n \in Nat /\ disk.dump.n \in Nat
      BY ServerParts DEF Disks, Snapshots
    <3> QED BY <2>1, <2>2, <3>1 DEF Counted
  <2>4. rdb.pid \in BOOLEAN /\ aof.pid \in BOOLEAN
    BY ServerParts DEF Rdbs, Aofs
  <2>5. (rdb.proc # "none") = rdb.pid /\ (aof.proc # "none") = aof.pid
    BY <2>1, <2>2, <2>4 DEF Waited
  <2> QED BY <2>1, <2>2, <2>3, <2>5, Zenon DEF ChildrenSound
<1>2. ChildrenInit => Good(Server)
  BY ChildrenInitially
<1>3. Good(Server) /\ [ChildrenNext]_childvars => Good(Server)'
  BY ChildrenInductive
<1> QED BY <1>1, <1>2, <1>3, PTL DEF ChildrenSpec
=============================================================================
