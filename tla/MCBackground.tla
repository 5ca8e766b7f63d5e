---------------------------- MODULE MCBackground ---------------------------
(***************************************************************************)
(* What the main thread leaves to others and must be done in the end: the  *)
(* writes and the switching on of the append only file, the threads of     *)
(* bio.c, and the children of the cron, each checked by itself. part says  *)
(* which one a behaviour is about.                                         *)
(***************************************************************************)
EXTENDS MCAof

VARIABLES part,
          bio_mutex, bio_jobs, bio_pending, sleeping, main_at, thread_at, job, created, executed, read,
          disk, save, rdb, aof, resizes, asked

Bi == INSTANCE Bio WITH MaxJobs <- 3
Ch == INSTANCE Children WITH MinChanges <- 2, Seconds <- 1, RetryDelay <- 1, MaxChanges <- 2, MaxAsked <- 2,
                             MaxLives <- 2, Overlaps <- {}

bvars == <<bio_mutex, bio_jobs, bio_pending, sleeping, main_at, thread_at, job, created, executed, read>>
hvars == <<disk, save, rdb, aof, resizes, asked>>
gvars == <<part, vars, bvars, hvars>>

BackgroundInit ==
  /\ part \in {"aof", "bio", "children"}
  /\ Init /\ Bi!BioInit /\ Ch!ChildrenInit
  /\ part # "aof" => scenario = CHOOSE s \in Scenarios : TRUE
  /\ part # "aof" => policy = "everysec"

Aof(A)      == part = "aof" /\ A /\ UNCHANGED <<part, bvars, hvars>>
Threads(A)  == part = "bio" /\ A /\ UNCHANGED <<part, vars, hvars>>
Children(A) == part = "children" /\ A /\ UNCHANGED <<part, vars, bvars>>

BackgroundNext == Aof(Next) \/ Threads(Bi!BioNext) \/ Children(Ch!ChildrenNext)

\* The append only file: see FairSpec. The scheduler runs both threads of bio.c, and
\* grants the mutex in the end; whether the main thread wants it is its own affair.
\* Time goes on, the cron runs, children end, and their forks and they themselves do
\* not fail for ever. Since part does not change, one condition serves several parts.
BackgroundSpec ==
  /\ BackgroundInit /\ [][BackgroundNext]_gvars
  /\ WF_gvars(Aof(Tick) \/ Threads(Bi!MainStep) \/ Children(Ch!Second))
  /\ WF_gvars(\/ Aof(CronRewrite \/ CronChildren \/ CronPostponed \/ CronError \/ RestartAof)
              \/ Children(\E forks \in BOOLEAN : Ch!Cron(forks)))
  /\ WF_gvars(Aof(RewriteChildEnds) \/ Children(\E ok \in BOOLEAN : Ch!AofEnds(ok)))
  /\ WF_gvars(Aof(BgsaveChildEnds) \/ Children(\E ok \in BOOLEAN : Ch!RdbEnds(ok)))
  /\ SF_gvars(Aof(BeforeSleep) \/ Threads(Bi!ThreadStep) \/ Children(Ch!RdbEnds(TRUE)))
  /\ SF_gvars(Children(Ch!AofEnds(TRUE)))
  /\ SF_gvars(Children(Ch!Cron(TRUE) /\ ~rdb.pid /\ rdb'.pid))
  /\ SF_gvars(Children(Ch!Cron(TRUE) /\ ~aof.pid /\ aof'.pid))

\* Every background job that was created is executed, once, in the end: neither its
\* wakeup nor the job itself is lost between the two threads. server.dirty is never less
\* than the changes dump.rdb lacks, and while there are save points and the children can
\* succeed, changes do not stay unsaved; a server that waits for its first append only
\* file gets it.
BackgroundDone ==
  /\ [](Bi!BioSound /\ Ch!ChildrenSound)
  /\ []<>(part = "bio" => Len(executed) = created)
  /\ Ch!ChangesSaved
=============================================================================
