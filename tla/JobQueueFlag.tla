---------------------------- MODULE JobQueueFlag ----------------------------
(***************************************************************************)
(* thread_job_queue_improved.c: the threads wait on a condition variable   *)
(* for thread_flag, which main() sets when all jobs are on the list.       *)
(***************************************************************************)
EXTENDS JobList

VARIABLES thread_flag,
          thread_flag_mutex,  \* who holds it
          waiters             \* threads blocked on thread_flag_cv

condVars == <<thread_flag, thread_flag_mutex, waiters>>
flagVars == <<listVars, job_queue_mutex, threadVars, mainVars, condVars>>

FlagThreadLabels == {"unborn", "flaglock", "test", "condwait", "sleep", "pass",
                 "lock", "head", "empty", "advance", "unlock", "process", "free", "exited"}
FlagMainLabels == {"create", "malloc", "lock", "link", "publish", "unlock",
               "flaglock", "setflag", "broadcast", "flagunlock", "join", "returned"}

FlagInit == /\ Init("create")
            /\ thread_flag = 0
            /\ thread_flag_mutex = Nobody
            /\ waiters = {}

-----------------------------------------------------------------------------
(* thread_func() *)

LockFlag(t) ==
  /\ Step(t, "flaglock", "test")
  /\ thread_flag_mutex = Nobody
  /\ thread_flag_mutex' = t
  /\ UNCHANGED <<listVars, next_job, job_queue_mutex, mainVars, thread_flag, waiters>>

TestFlag(t) ==
  /\ Step(t, "test", IF thread_flag = 0 THEN "condwait" ELSE "pass")
  /\ UNCHANGED <<listVars, next_job, job_queue_mutex, mainVars, condVars>>

(* pthread_cond_wait() enters the wait and releases the mutex in one step; once
   woken it acquires the mutex again and the while condition is tested again. *)
CondWait(t) ==
  /\ Step(t, "condwait", "sleep")
  /\ waiters' = waiters \cup {t}
  /\ thread_flag_mutex' = Nobody
  /\ UNCHANGED <<listVars, next_job, job_queue_mutex, mainVars, thread_flag>>

(* Mutant: if instead of while around pthread_cond_wait(). *)
CondReturnNoRetest(t) ==
  /\ Step(t, "sleep", "pass")
  /\ t \notin waiters
  /\ thread_flag_mutex = Nobody
  /\ thread_flag_mutex' = t
  /\ UNCHANGED <<listVars, next_job, job_queue_mutex, mainVars, thread_flag, waiters>>

CondReturn(t) ==
  /\ Step(t, "sleep", "test")
  /\ t \notin waiters
  /\ thread_flag_mutex = Nobody
  /\ thread_flag_mutex' = t
  /\ UNCHANGED <<listVars, next_job, job_queue_mutex, mainVars, thread_flag, waiters>>

UnlockFlag(t) ==
  /\ Step(t, "pass", "lock")
  /\ thread_flag_mutex' = Nobody
  /\ UNCHANGED <<listVars, next_job, job_queue_mutex, mainVars, thread_flag, waiters>>

FindEmpty(t) ==
  /\ job_queue = NULL
  /\ Step(t, "head", "empty")
  /\ UNCHANGED <<listVars, next_job, job_queue_mutex, mainVars>>

TakeHead(t) == job_queue # NULL /\ ReadHead(t)

(* unlock and break *)
Break(t) ==
  /\ Step(t, "empty", "exited")
  /\ job_queue_mutex' = Nobody
  /\ UNCHANGED <<listVars, next_job, mainVars>>

FlagThreadNext(t) ==
  \/ LockFlag(t)
  \/ TestFlag(t)
  \/ CondWait(t)
  \/ CondReturn(t)
  \/ UnlockFlag(t)
  \/ /\ \/ LockQueue(t)
        \/ FindEmpty(t)
        \/ TakeHead(t)
        \/ Advance(t)
        \/ Break(t)
        \/ UnlockQueue(t)
        \/ ProcessJob(t)
        \/ FreeJob(t, "flaglock")
     /\ UNCHANGED condVars

(* POSIX lets pthread_cond_wait() return without a signal. *)
SpuriousWakeup(t) ==
  /\ t \in waiters
  /\ waiters' = waiters \ {t}
  /\ UNCHANGED <<listVars, job_queue_mutex, threadVars, mainVars, thread_flag, thread_flag_mutex>>

-----------------------------------------------------------------------------
(* set_thread_flag(1) *)

(* Mutant: the flag is set without the mutex. *)
LockSetFlagNoMutex ==
  /\ MainStep("flaglock", "setflag")
  /\ UNCHANGED <<listVars, threadVars, job_queue_mutex, i, condVars>>

LockSetFlag ==
  /\ MainStep("flaglock", "setflag")
  /\ thread_flag_mutex = Nobody
  /\ thread_flag_mutex' = Main
  /\ UNCHANGED <<listVars, threadVars, job_queue_mutex, i, thread_flag, waiters>>

SetFlag ==
  /\ MainStep("setflag", "broadcast")
  /\ thread_flag' = 1
  /\ UNCHANGED <<listVars, threadVars, job_queue_mutex, i, thread_flag_mutex, waiters>>

(* Mutant: the pthread_cond_signal() that is commented out in the code. *)
BroadcastAsSignal ==
  /\ MainStep("broadcast", "flagunlock")
  /\ \/ waiters = {} /\ waiters' = {}
     \/ \E t \in waiters : waiters' = waiters \ {t}
  /\ UNCHANGED <<listVars, threadVars, job_queue_mutex, i, thread_flag, thread_flag_mutex>>

Broadcast ==
  /\ MainStep("broadcast", "flagunlock")
  /\ waiters' = {}
  /\ UNCHANGED <<listVars, threadVars, job_queue_mutex, i, thread_flag, thread_flag_mutex>>

UnlockSetFlag ==
  /\ MainStep("flagunlock", "join")
  /\ thread_flag_mutex' = Nobody
  /\ UNCHANGED <<listVars, threadVars, job_queue_mutex, i, thread_flag, waiters>>

FlagMainNext ==
  \/ LockSetFlag
  \/ SetFlag
  \/ Broadcast
  \/ UnlockSetFlag
  \/ /\ \/ CreateThread("flaglock")
        \/ NewJob
        \/ LockEnqueue
        \/ Link
        \/ Publish
        \/ UnlockEnqueue("flaglock")
        \/ JoinThread("returned")
     /\ UNCHANGED condVars

FlagTerminating == mpc = "returned" /\ AllExited /\ UNCHANGED flagVars

FlagNext == \/ FlagMainNext
        \/ \E t \in Threads : FlagThreadNext(t) \/ SpuriousWakeup(t)
        \/ FlagTerminating

FlagSpec == FlagInit /\ [][FlagNext]_flagVars

(* The operating system runs every thread that can run, and spurious wakeups
   do not go on for ever.  No fairness of the mutexes is needed. *)
FlagFairness ==
  /\ WF_flagVars(FlagMainNext)
  /\ \A t \in Threads : WF_flagVars(FlagThreadNext(t)) /\ <>[][~ SpuriousWakeup(t)]_flagVars

FlagFairSpec == FlagSpec /\ FlagFairness

-----------------------------------------------------------------------------
FlagTypeOK == /\ ListTypeOK(FlagThreadLabels, FlagMainLabels)
          /\ thread_flag \in {0, 1}
          /\ thread_flag_mutex \in Owners
          /\ waiters \subseteq Threads

(* No thread looks at the list before main() has put the last job on it, so
   none can find it empty too early, as in thread_job_queue.c. *)
NoneStartsEarly ==
  (\E t \in Threads : InThread(t) \/ tpc[t] \in {"pass", "lock"}) => Published = Jobs

(* Once main() is past its broadcast nobody waits on thread_flag_cv or is about
   to: no thread tests the flag, is overtaken by set_thread_flag() and then
   sleeps through the broadcast. *)
NoLostWakeup ==
  thread_flag # 0 /\ mpc # "broadcast" =>
    waiters = {} /\ \A t \in Threads : tpc[t] # "condwait"

=============================================================================
