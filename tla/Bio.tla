-------------------------------- MODULE Bio --------------------------------
(***************************************************************************)
(* The background I/O threads (bio.c): per type of job a list, a count of  *)
(* the jobs not finished, a mutex over both and a condition the thread     *)
(* waits on. The thread leaves the job it works on in the list, and works  *)
(* without the mutex; the main thread adds jobs and reads the count.       *)
(* One type is modelled: the types share nothing.                          *)
(***************************************************************************)
EXTENDS Integers, Sequences

CONSTANT MaxJobs        \* bound: jobs created

Nothing == -1

VARIABLES bio_mutex,    \* who holds it: "main", "thread" or "free"
          bio_jobs,     \* the list, jobs being numbered
          bio_pending,
          sleeping,     \* the thread is in pthread_cond_wait
          main_at,      \* where the main thread is, and the thread
          thread_at,
          job,          \* the job it took
          created,      \* history: jobs created
          executed,     \* history: jobs executed, in order
          read          \* what bioPendingJobsOfType answered since the last job, or Nothing

biovars == <<bio_mutex, bio_jobs, bio_pending, sleeping, main_at, thread_at, job, created, executed, read>>

BioInit == /\ bio_mutex = "free" /\ bio_jobs = <<>> /\ bio_pending = 0
           /\ sleeping = FALSE /\ main_at = "out" /\ thread_at = "lock" /\ job = 0
           /\ created = 0 /\ executed = <<>> /\ read = Nothing

----------------------------------------------------------------------------
(* The main thread.                                                        *)

\* bioCreateBackgroundJob, and bioPendingJobsOfType.
MainLock(what) == /\ main_at = "out" /\ bio_mutex = "free"
                  /\ what = "create" => created < MaxJobs
                  /\ bio_mutex' = "main" /\ main_at' = what
                  /\ UNCHANGED <<bio_jobs, bio_pending, sleeping, thread_at, job, created, executed, read>>

AddJob == /\ main_at = "create"
          /\ created' = created + 1
          /\ bio_jobs' = Append(bio_jobs, created + 1)
          /\ bio_pending' = bio_pending + 1
          /\ main_at' = "signal" /\ read' = Nothing
          /\ UNCHANGED <<bio_mutex, sleeping, thread_at, job, executed>>

\* A signal wakes the thread if it waits, and is lost otherwise.
Signal == /\ main_at = "signal"
          /\ sleeping' = FALSE
          /\ main_at' = "unlock"
          /\ UNCHANGED <<bio_mutex, bio_jobs, bio_pending, thread_at, job, created, executed, read>>

ReadPending == /\ main_at = "count"
               /\ read' = bio_pending
               /\ main_at' = "unlock"
               /\ UNCHANGED <<bio_mutex, bio_jobs, bio_pending, sleeping, thread_at, job, created, executed>>

\* bioPendingJobsOfType returns the count before it unlocks.
MainUnlockAfterJob == /\ main_at = "unlock"
                      /\ bio_mutex' = (IF read # Nothing THEN bio_mutex ELSE "free") /\ main_at' = "out"
                      /\ UNCHANGED <<bio_jobs, bio_pending, sleeping, thread_at, job, created, executed, read>>

MainUnlock == /\ main_at = "unlock"
              /\ bio_mutex' = "free" /\ main_at' = "out"
              /\ UNCHANGED <<bio_jobs, bio_pending, sleeping, thread_at, job, created, executed, read>>

----------------------------------------------------------------------------
(* bioProcessBackgroundJobs.                                               *)

\* At the start, after a job, and when it was woken: a wait ends with the mutex.
ThreadLock == /\ thread_at = "lock" \/ (thread_at = "wait" /\ ~sleeping)
              /\ bio_mutex = "free"
              /\ bio_mutex' = "thread"
              /\ thread_at' = IF job = 0 THEN "look" ELSE "delete"
              /\ UNCHANGED <<bio_jobs, bio_pending, sleeping, main_at, job, created, executed, read>>

\* pthread_cond_wait: the mutex is given back and the wait begins at once.
Wait == /\ thread_at = "look" /\ bio_jobs = <<>>
        /\ sleeping' = TRUE /\ bio_mutex' = "free" /\ thread_at' = "wait"
        /\ UNCHANGED <<bio_jobs, bio_pending, main_at, job, created, executed, read>>

\* It may also end without a signal.
SpuriousWakeup == /\ sleeping
                  /\ sleeping' = FALSE
                  /\ UNCHANGED <<bio_mutex, bio_jobs, bio_pending, main_at, thread_at, job, created, executed, read>>

Take == /\ thread_at = "look" /\ bio_jobs # <<>>
        /\ job' = Head(bio_jobs)
        /\ bio_mutex' = "free" /\ thread_at' = "work"
        /\ UNCHANGED <<bio_jobs, bio_pending, sleeping, main_at, created, executed, read>>

Execute == /\ thread_at = "work"
           /\ executed' = Append(executed, job)
           /\ thread_at' = "lock"
           /\ UNCHANGED <<bio_mutex, bio_jobs, bio_pending, sleeping, main_at, job, created, read>>

\* listDelNode, of the node that holds j, wherever it is.
WithoutNode(q, j) ==
  LET i == CHOOSE i \in DOMAIN q : q[i] = j
  IN  SubSeq(q, 1, i - 1) \o SubSeq(q, i + 1, Len(q))

\* The job's node is deleted, and the loop goes on.
Delete == /\ thread_at = "delete"
          /\ bio_jobs' = WithoutNode(bio_jobs, job)
          /\ bio_pending' = bio_pending - 1
          /\ job' = 0 /\ thread_at' = "look"
          /\ UNCHANGED <<bio_mutex, sleeping, main_at, created, executed, read>>

ThreadStep == ThreadLock \/ Wait \/ Take \/ Execute \/ Delete
MainStep   == AddJob \/ Signal \/ ReadPending \/ MainUnlock

BioNext == \/ ThreadStep \/ SpuriousWakeup \/ MainStep
           \/ \E what \in {"create", "count"} : MainLock(what)

BioSpec == BioInit /\ [][BioNext]_biovars

----------------------------------------------------------------------------
\* The count is the length of the list whenever the mutex is free, and what the main
\* thread is answered is never less than the jobs not executed yet, so that 0 means
\* that all is on disk (aof.c waits for it); jobs are executed once each, in order.
BioSound ==
  /\ bio_mutex = "free" => bio_pending = Len(bio_jobs)
  /\ executed = <<>> \o [i \in 1 .. Len(executed) |-> i]
  /\ bio_pending >= created - Len(executed)
  /\ read = 0 => Len(executed) = created
  \* Nobody sleeps through a job: the wakeup is not lost.
  /\ sleeping /\ bio_jobs # <<>> => main_at = "signal"
=============================================================================
