------------------------------ MODULE JobQueue ------------------------------
(***************************************************************************)
(* thread_job_queue.c: a thread that finds the list empty exits.           *)
(***************************************************************************)
EXTENDS JobList

queueVars == <<listVars, job_queue_mutex, threadVars, mainVars>>

QueueThreadLabels == {"unborn", "lock", "head", "advance", "unlock", "process", "free", "exited"}
QueueMainLabels == {"create", "malloc", "lock", "link", "publish", "unlock", "join", "returned"}

(* The head is NULL and so is next_job. *)
FindNull(t) ==
  /\ job_queue = NULL
  /\ Step(t, "head", "unlock")
  /\ next_job' = [next_job EXCEPT ![t] = NULL]
  /\ UNCHANGED <<listVars, job_queue_mutex, mainVars>>

FindJob(t) == job_queue # NULL /\ ReadHead(t)

(* Mutant: the way out of the loop forgets the mutex. *)
LeaveLoopLocked(t) ==
  /\ next_job[t] = NULL
  /\ Step(t, "unlock", "exited")
  /\ UNCHANGED <<listVars, job_queue_mutex, next_job, mainVars>>

(* unlock; if (next_job == NULL) break; *)
LeaveLoop(t) ==
  /\ next_job[t] = NULL
  /\ Step(t, "unlock", "exited")
  /\ job_queue_mutex' = Nobody
  /\ UNCHANGED <<listVars, next_job, mainVars>>

Go(t) == next_job[t] # NULL /\ UnlockQueue(t)

QueueThreadNext(t) ==
  \/ LockQueue(t)
  \/ FindNull(t)
  \/ FindJob(t)
  \/ Advance(t)
  \/ LeaveLoop(t)
  \/ Go(t)
  \/ ProcessJob(t)
  \/ FreeJob(t, "lock")

QueueMainNext ==
  \/ CreateThread("lock")
  \/ NewJob
  \/ LockEnqueue
  \/ Link
  \/ Publish
  \/ UnlockEnqueue("join")
  \/ JoinThread("returned")

QueueTerminating == mpc = "returned" /\ AllExited /\ UNCHANGED queueVars

QueueNext == QueueMainNext \/ (\E t \in Threads : QueueThreadNext(t)) \/ QueueTerminating

QueueSpec == Init("create") /\ [][QueueNext]_queueVars

(* The operating system runs every thread that can run.  Fairness of the mutex
   is not assumed: the program locks it a bounded number of times. *)
QueueFairness == WF_queueVars(QueueMainNext) /\ \A t \in Threads : WF_queueVars(QueueThreadNext(t))

QueueFairSpec == QueueSpec /\ QueueFairness

-----------------------------------------------------------------------------
QueueTypeOK == ListTypeOK(QueueThreadLabels, QueueMainLabels)

=============================================================================
