----------------------------- MODULE JobQueueSem -----------------------------
(***************************************************************************)
(* thread_job_queue_sem.c: a semaphore counts the jobs, and a thread waits *)
(* on it before it looks at the list.                                      *)
(***************************************************************************)
EXTENDS JobList, FiniteSets

VARIABLE job_count   \* the semaphore

semVars == <<listVars, job_queue_mutex, threadVars, mainVars, job_count>>

SemThreadLabels == {"unborn", "wait", "lock", "head", "advance", "unlock", "process", "free"}
SemMainLabels == {"create", "malloc", "lock", "link", "publish", "unlock", "post", "join", "returned"}

SemInit == Init("create") /\ job_count = 0

(* Mutant: sem_trywait() whose result is ignored. *)
SemTryWait(t) ==
  /\ Step(t, "wait", "lock")
  /\ job_count' = IF job_count > 0 THEN job_count - 1 ELSE 0
  /\ UNCHANGED <<listVars, job_queue_mutex, next_job, mainVars>>

SemWait(t) ==
  /\ Step(t, "wait", "lock")
  /\ job_count > 0
  /\ job_count' = job_count - 1
  /\ UNCHANGED <<listVars, job_queue_mutex, next_job, mainVars>>

(* The list is not tested for NULL before its head is followed. *)
SemThreadNext(t) ==
  \/ SemWait(t)
  \/ /\ \/ LockQueue(t)
        \/ ReadHead(t)
        \/ Advance(t)
        \/ UnlockQueue(t)
        \/ ProcessJob(t)
        \/ FreeJob(t, "wait")
     /\ UNCHANGED job_count

UnlockThenPost ==
  /\ MainStep("unlock", "post")
  /\ job_queue_mutex' = Nobody
  /\ UNCHANGED <<listVars, threadVars, i, job_count>>

(* Mutant: a flag instead of a counter, which forgets all posts but one. *)
SemPostBinary ==
  /\ NextJob("post", "join")
  /\ job_count' = 1
  /\ UNCHANGED <<listVars, threadVars, job_queue_mutex>>

SemPost ==
  /\ NextJob("post", "join")
  /\ job_count' = job_count + 1
  /\ UNCHANGED <<listVars, threadVars, job_queue_mutex>>

SemMainNext ==
  \/ UnlockThenPost
  \/ SemPost
  \/ /\ \/ CreateThread("wait")
        \/ NewJob
        \/ LockEnqueue
        \/ Link
        \/ Publish
        \/ JoinThread("returned")
     /\ UNCHANGED job_count

SemNext == SemMainNext \/ (\E t \in Threads : SemThreadNext(t))

SemSpec == SemInit /\ [][SemNext]_semVars

(* The operating system runs every thread that can run.  Each job costs one
   locking by main() and one by a thread, so the mutex needs no fairness. *)
SemFairness == WF_semVars(SemMainNext) /\ \A t \in Threads : WF_semVars(SemThreadNext(t))

SemFairSpec == SemSpec /\ SemFairness

-----------------------------------------------------------------------------
SemTypeOK == /\ ListTypeOK(SemThreadLabels, SemMainLabels)
          /\ job_count \in Nat

(* thread_func() follows the head of the list without a test for NULL.  It
   never follows NULL: a thread that passed sem_wait() finds a job. *)
NoNullDeref == \A t \in Threads : tpc[t] \in {"head", "advance"} => job_queue # NULL

(* The jobs on the list are those the semaphore still grants, those of the
   threads that were let in and did not take theirs yet, and the one whose
   sem_post() is still to come. *)
LetIn == { t \in Threads : tpc[t] \in {"lock", "head", "advance"} }
ToPost == IF mpc \in {"unlock", "post"} THEN 1 ELSE 0
SemCountsJobs == job_count + Cardinality(LetIn) + ToPost = Cardinality(Queued)

(* Threads that are faster than enqueue_job() no longer leave jobs behind, as
   those of thread_job_queue.c do, but nor do they end: once every job is processed
   and freed, every thread waits in sem_wait() and main() in the first
   pthread_join(), for good: what the head of thread_job_queue_improved.c
   describes. *)
EndsBlocked == <>[](/\ \A j \in Jobs : printed[j] = 1 /\ heap[j] = "freed"
                    /\ mpc = "join" /\ i = 0 /\ job_count = 0
                    /\ \A t \in Threads : tpc[t] = "wait")

=============================================================================
