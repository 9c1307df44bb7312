------------------------------- MODULE JobList -------------------------------
(***************************************************************************)
(* The linked list of jobs that the three thread_job_queue programs share, *)
(* and the statements of their threads and of main() that touch it.  Each  *)
(* action is what happens between two points where another thread can      *)
(* observe a difference: taking or releasing job_queue_mutex, one load or  *)
(* store of a pointer, one call.  The programs differ in how a thread      *)
(* waits for work; JobQueue, JobQueueSem and JobQueueFlag add that part.   *)
(*                                                                         *)
(* A struct job is known by its id, which no two jobs share.               *)
(***************************************************************************)
EXTENDS Integers

CONSTANTS NumJobs,  \* bound of the enqueue loop of main(), 10 in the code
          Size      \* SIZE, the number of threads, 3 in the code

ASSUME NumJobsAssumption == NumJobs \in Nat \ {0}
ASSUME SizeAssumption == Size \in Nat \ {0}

NULL == -1
Wild == NumJobs            \* what malloc() leaves in a pointer
Jobs == 0 .. NumJobs - 1
Threads == 0 .. Size - 1
Main == Size               \* main() as the owner of a mutex
Nobody == -1
Owners == Threads \cup {Main, Nobody}

VARIABLES
  job_queue,        \* main()'s list head, shared through the threads' argument
  next,             \* the next field of every job
  heap,             \* whether a job is not allocated yet, live or freed
  printed,          \* how often process_job() printed a job's line
  job_queue_mutex,  \* who holds the mutex
  tpc,              \* the statement each thread is at
  next_job,         \* each thread's local next_job, NULL out of its scope
  mpc,              \* the statement main() is at
  i                 \* main()'s loop counter

listVars == <<job_queue, next, heap, printed>>
threadVars == <<tpc, next_job>>
mainVars == <<mpc, i>>

Init(firstMain) ==
  /\ job_queue = NULL
  /\ next = [j \in Jobs |-> Wild]
  /\ heap = [j \in Jobs |-> "unused"]
  /\ printed = [j \in Jobs |-> 0]
  /\ job_queue_mutex = Nobody
  /\ tpc = [t \in Threads |-> "unborn"]
  /\ next_job = [t \in Threads |-> NULL]
  /\ mpc = firstMain
  /\ i = 0

Step(t, from, to) == tpc[t] = from /\ tpc' = [tpc EXCEPT ![t] = to]
MainStep(from, to) == mpc = from /\ mpc' = to

-----------------------------------------------------------------------------
(* thread_func() *)

(* Mutant: a thread that does not lock, the case the code's comment fears. *)
LockQueueNoMutex(t) ==
  /\ Step(t, "lock", "head")
  /\ UNCHANGED <<listVars, job_queue_mutex, next_job, mainVars>>

LockQueue(t) ==
  /\ job_queue_mutex = Nobody
  /\ job_queue_mutex' = t
  /\ Step(t, "lock", "head")
  /\ UNCHANGED <<listVars, next_job, mainVars>>

(* next_job gets the head of the list. *)
ReadHead(t) ==
  /\ Step(t, "head", "advance")
  /\ next_job' = [next_job EXCEPT ![t] = job_queue]
  /\ UNCHANGED <<listVars, job_queue_mutex, mainVars>>

(* The head becomes the next field of the old head; from NULL there is no such
   step, the program would crash. *)
Advance(t) ==
  /\ Step(t, "advance", "unlock")
  /\ job_queue \in Jobs
  /\ job_queue' = next[job_queue]
  /\ UNCHANGED <<next, heap, printed, job_queue_mutex, next_job, mainVars>>

UnlockQueue(t) ==
  /\ Step(t, "unlock", "process")
  /\ job_queue_mutex' = Nobody
  /\ UNCHANGED <<listVars, next_job, mainVars>>

ProcessJob(t) ==
  /\ Step(t, "process", "free")
  /\ printed' = [printed EXCEPT ![next_job[t]] = @ + 1]
  /\ UNCHANGED <<job_queue, next, heap, job_queue_mutex, next_job, mainVars>>

(* free (next_job); and back to the top of while (1), out of next_job's scope *)
FreeJob(t, top) ==
  /\ Step(t, "free", top)
  /\ heap' = [heap EXCEPT ![next_job[t]] = "freed"]
  /\ next_job' = [next_job EXCEPT ![t] = NULL]
  /\ UNCHANGED <<job_queue, next, printed, job_queue_mutex, mainVars>>

-----------------------------------------------------------------------------
(* main() and enqueue_job() *)

CreateThread(first) ==
  /\ mpc = "create"
  /\ tpc' = [tpc EXCEPT ![i] = first]
  /\ IF i + 1 < Size THEN i' = i + 1 /\ mpc' = mpc
                     ELSE i' = 0 /\ mpc' = "malloc"
  /\ UNCHANGED <<listVars, next_job, job_queue_mutex>>

NewJob ==
  /\ MainStep("malloc", "lock")
  /\ heap' = [heap EXCEPT ![i] = "live"]
  /\ UNCHANGED <<job_queue, next, printed, job_queue_mutex, threadVars, i>>

(* Mutant: enqueue_job() does not lock. *)
LockEnqueueNoMutex ==
  /\ MainStep("lock", "link")
  /\ UNCHANGED <<listVars, threadVars, job_queue_mutex, i>>

LockEnqueue ==
  /\ MainStep("lock", "link")
  /\ job_queue_mutex = Nobody
  /\ job_queue_mutex' = Main
  /\ UNCHANGED <<listVars, threadVars, i>>

Link ==
  /\ MainStep("link", "publish")
  /\ next' = [next EXCEPT ![i] = job_queue]
  /\ UNCHANGED <<job_queue, heap, printed, job_queue_mutex, threadVars, i>>

Publish ==
  /\ MainStep("publish", "unlock")
  /\ job_queue' = i
  /\ UNCHANGED <<next, heap, printed, job_queue_mutex, threadVars, i>>

(* The last statement of enqueue_job(), then the end of the loop's body. *)
NextJob(from, after) ==
  /\ mpc = from
  /\ IF i + 1 < NumJobs THEN i' = i + 1 /\ mpc' = "malloc"
                        ELSE i' = 0 /\ mpc' = after

UnlockEnqueue(after) ==
  /\ NextJob("unlock", after)
  /\ job_queue_mutex' = Nobody
  /\ UNCHANGED <<listVars, threadVars>>

(* Mutant: one thread is not joined. *)
JoinThreadTooFew(after) ==
  /\ mpc = "join"
  /\ tpc[i] = "exited"
  /\ IF i + 2 < Size THEN i' = i + 1 /\ mpc' = mpc
                     ELSE i' = i /\ mpc' = after
  /\ UNCHANGED <<listVars, threadVars, job_queue_mutex>>

JoinThread(after) ==
  /\ mpc = "join"
  /\ tpc[i] = "exited"
  /\ IF i + 1 < Size THEN i' = i + 1 /\ mpc' = mpc
                     ELSE i' = i /\ mpc' = after
  /\ UNCHANGED <<listVars, threadVars, job_queue_mutex>>

-----------------------------------------------------------------------------
(* State functions that the properties and the refinements are written in. *)

(* The job a thread took off the list and has not processed yet. *)
Holding(t) == IF tpc[t] \in {"unlock", "process"} THEN next_job[t] ELSE NULL

(* The jobs whose enqueue_job() has stored the new head. *)
Published ==
  { j \in Jobs : \/ mpc \in {"malloc", "lock", "link", "publish"} /\ j < i
                 \/ mpc \in {"unlock", "post"} /\ j <= i
                 \/ mpc \notin {"create", "malloc", "lock", "link", "publish", "unlock", "post"} }

Done == { j \in Jobs : printed[j] > 0 }

Queued == { j \in Published : j \notin Done /\ \A t \in Threads : Holding(t) # j }

(* x is the youngest job of S, or NULL when there is none. *)
IsTop(x, S) == /\ x \in S \/ (x = NULL /\ S = {})
               /\ \A y \in S : y <= x

(* A thread or main() is between lock and unlock of job_queue_mutex. *)
InThread(t) == tpc[t] \in {"head", "advance", "unlock", "empty"}
InMain == mpc \in {"link", "publish", "unlock"}

AllExited == \A t \in Threads : tpc[t] = "exited"

-----------------------------------------------------------------------------
(* Every variable has its type; tpc ranges over the labels of a program. *)
ListTypeOK(threadLabels, mainLabels) ==
  /\ job_queue \in Jobs \cup {NULL}
  /\ next \in [Jobs -> Jobs \cup {NULL, Wild}]
  /\ heap \in [Jobs -> {"unused", "live", "freed"}]
  /\ printed \in [Jobs -> Nat]
  /\ job_queue_mutex \in Owners
  /\ tpc \in [Threads -> threadLabels]
  /\ next_job \in [Threads -> Jobs \cup {NULL}]
  /\ mpc \in mainLabels
  /\ i \in Nat
  /\ mpc \in {"create", "flaglock", "setflag", "broadcast", "flagunlock", "join"} => i < Size
  /\ mpc \in {"malloc", "lock", "link", "publish", "unlock", "post"} => i < NumJobs

(* The list that starts at job_queue holds exactly the jobs that were
   enqueued and not yet taken, youngest first: nothing that another thread
   does between two statements of enqueue_job() or of thread_func() loses a
   job, and none is on the list after a thread took it. *)
ListInv ==
  /\ IsTop(job_queue, Queued)
  /\ \A j \in Queued : IsTop(next[j], { k \in Queued : k < j })

(* No two threads work on the same job, and none processes a job twice: the
   double take that the comment in thread_func() fears. *)
NoDoubleTake ==
  /\ \A j \in Jobs : printed[j] <= 1
  /\ \A t \in Threads : Holding(t) \in Jobs => printed[Holding(t)] = 0
  /\ \A t, u \in Threads : t # u /\ Holding(t) # NULL => Holding(t) # Holding(u)

(* No thread reads, processes or frees a job that was freed before: free()
   comes after the last use by anybody. *)
NoUseAfterFree ==
  /\ \A t \in Threads :
       /\ tpc[t] = "advance" /\ job_queue \in Jobs => heap[job_queue] = "live"
       /\ tpc[t] \in {"process", "free"} => heap[next_job[t]] = "live"
  /\ mpc \in {"link", "publish"} => heap[i] = "live"

(* When main() returns, a job was either processed once and freed, or it is
   still on the list: no job disappears and no memory is lost with it. *)
EveryJobAccounted ==
  mpc = "returned" =>
    \A j \in Jobs : \/ printed[j] = 1 /\ heap[j] = "freed"
                    \/ printed[j] = 0 /\ heap[j] = "live" /\ j \in Queued

(* What the programs are for: all jobs are processed before main() returns. *)
AllProcessedAtReturn == mpc = "returned" => \A j \in Jobs : printed[j] = 1

(* main() exits, as the first comment of thread_job_queue_improved.c says: every
   pthread_join() returns, however the enqueueing and the taking interleave. *)
MainReturns == <>(mpc = "returned")

Pool == INSTANCE JobPool WITH
          queued <- Queued,
          holding <- [t \in Threads |-> Holding(t)],
          done <- Done

(* The list, the mutex and the locals implement a pool of jobs: the jobs enter
   in main()'s order, every thread takes the youngest job there is, nobody
   takes it again, and what is taken is processed. *)
ImplementsPool == Pool!Spec

==============================================================================
