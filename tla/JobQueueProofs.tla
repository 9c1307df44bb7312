--------------------------- MODULE JobQueueProofs ---------------------------
(***************************************************************************)
(* Proofs about the three thread_job_queue programs for any number of jobs *)
(* and threads.  The first part is what every action of JobList preserves  *)
(* and does to the pool, whichever program it is part of; a part on each   *)
(* of the programs follows.                                                *)
(***************************************************************************)
EXTENDS JobQueue, JobQueueSem, JobQueueFlag, FiniteSetTheorems, TLAPS

AnyThreadLabel == {"unborn", "flaglock", "test", "condwait", "sleep", "pass", "wait", "lock",
                   "head", "empty", "advance", "unlock", "process", "free", "exited"}
AnyMainLabel == {"create", "malloc", "lock", "link", "publish", "unlock", "post", "flaglock",
                 "setflag", "broadcast", "flagunlock", "join", "returned"}

Types == ListTypeOK(AnyThreadLabel, AnyMainLabel)

(* The mutex is held exactly by the one that is in its critical section. *)
MutexInv ==
  /\ \A t \in Threads : InThread(t) <=> job_queue_mutex = t
  /\ InMain <=> job_queue_mutex = Main

(* The job a thread took off the list and has not freed yet. *)
Owns(t) == IF tpc[t] \in {"unlock", "process", "free"} THEN next_job[t] ELSE NULL

(* What the locals of a thread and of main() say about the list. *)
LocalInv ==
  /\ \A t \in Threads :
       /\ tpc[t] = "advance" => next_job[t] = job_queue
       /\ tpc[t] \in {"process", "free"} => next_job[t] \in Jobs
       /\ tpc[t] = "free" => printed[next_job[t]] = 1
  /\ mpc = "publish" => next[i] = job_queue

(* A job has at most one owner, and none before it was on the list. *)
OwnerInv ==
  /\ \A j \in Jobs : printed[j] \in {0, 1}
  /\ \A t \in Threads : Holding(t) \in Jobs => printed[Holding(t)] = 0
  /\ \A t \in Threads : Owns(t) \in Jobs => Owns(t) \in Published
  /\ \A j \in Jobs \ Published : printed[j] = 0
  /\ \A t, u \in Threads : t # u /\ Owns(t) # NULL => Owns(t) # Owns(u)

(* What is listed, owned or about to be listed is not freed. *)
HeapInv ==
  /\ \A j \in Queued : heap[j] = "live"
  /\ \A t \in Threads : Owns(t) \in Jobs => heap[Owns(t)] = "live"
  /\ mpc \in {"lock", "link", "publish"} => heap[i] = "live"
  /\ \A j \in Jobs : printed[j] = 1 /\ (\A t \in Threads : Owns(t) # j) => heap[j] = "freed"

CoreInv == Types /\ MutexInv /\ LocalInv /\ OwnerInv /\ ListInv /\ HeapInv

-----------------------------------------------------------------------------
(* The sets that the list is compared with: which actions change them. *)

LEMMA QueuedJobs == Queued \subseteq Jobs /\ Published \subseteq Jobs /\ Jobs \subseteq Int
BY DEF Queued, Published, Jobs

LEMMA QueuedUnchanged ==
  ASSUME Published' = Published, UNCHANGED printed,
         \A t \in Threads : Holding(t)' = Holding(t)
  PROVE  Queued' = Queued
BY DEF Queued, Done

(* A state with the same list, the same sets and the same ownership keeps the
   parts of the invariant that speak of them. *)
LEMMA ListInvKept ==
  ASSUME ListInv, UNCHANGED <<job_queue, next>>, Queued' = Queued
  PROVE  ListInv'
BY DEF ListInv, IsTop

-----------------------------------------------------------------------------
(* The actions of thread_func(). *)

LEMMA CoreLockQueue ==
  ASSUME CoreInv, NEW t \in Threads, LockQueue(t)
  PROVE  CoreInv'
<1> USE NumJobsAssumption, SizeAssumption DEF Threads, Jobs, NULL
<1>1. Types'
  BY DEF CoreInv, Types, ListTypeOK, LockQueue, Step, listVars, mainVars, AnyThreadLabel, AnyMainLabel, Owners
<1>2. MutexInv'
  BY DEF CoreInv, Types, ListTypeOK, MutexInv, InThread, InMain, LockQueue, Step, listVars, mainVars, Nobody, Main
<1>3. LocalInv'
  BY DEF CoreInv, Types, ListTypeOK, LocalInv, LockQueue, Step, listVars, mainVars
<1>4. /\ Published' = Published
      /\ \A u \in Threads : Holding(u)' = Holding(u) /\ Owns(u)' = Owns(u)
  BY DEF CoreInv, Types, ListTypeOK, LockQueue, Step, listVars, mainVars, Holding, Owns, Published
<1>5. Queued' = Queued
  BY <1>4, QueuedUnchanged DEF LockQueue, listVars
<1>6. OwnerInv'
  BY <1>4 DEF CoreInv, OwnerInv, LockQueue, listVars
<1>7. ListInv'
  BY <1>5, ListInvKept DEF CoreInv, LockQueue, listVars
<1>8. HeapInv'
  BY <1>4, <1>5 DEF CoreInv, HeapInv, LockQueue, listVars, mainVars
<1>9. QED
  BY <1>1, <1>2, <1>3, <1>6, <1>7, <1>8 DEF CoreInv

LEMMA CoreReadHead ==
  ASSUME CoreInv, NEW t \in Threads, ReadHead(t)
  PROVE  CoreInv'
<1> USE NumJobsAssumption, SizeAssumption DEF Threads, Jobs, NULL
<1>1. Types'
  BY DEF CoreInv, Types, ListTypeOK, ReadHead, Step, listVars, mainVars, AnyThreadLabel, AnyMainLabel, Owners
<1>2. MutexInv'
  BY DEF CoreInv, Types, ListTypeOK, MutexInv, InThread, InMain, ReadHead, Step, listVars, mainVars, Nobody, Main
<1>3. LocalInv'
  BY DEF CoreInv, Types, ListTypeOK, LocalInv, ReadHead, Step, listVars, mainVars
<1>4. /\ Published' = Published
      /\ \A u \in Threads : Holding(u)' = Holding(u) /\ Owns(u)' = Owns(u)
  BY DEF CoreInv, Types, ListTypeOK, ReadHead, Step, listVars, mainVars, Holding, Owns, Published
<1>5. Queued' = Queued
  BY <1>4, QueuedUnchanged DEF ReadHead, listVars
<1>6. OwnerInv'
  BY <1>4 DEF CoreInv, OwnerInv, ReadHead, listVars
<1>7. ListInv'
  BY <1>5, ListInvKept DEF CoreInv, ReadHead, listVars
<1>8. HeapInv'
  BY <1>4, <1>5 DEF CoreInv, HeapInv, ReadHead, listVars, mainVars
<1>9. QED
  BY <1>1, <1>2, <1>3, <1>6, <1>7, <1>8 DEF CoreInv

(* A thread that advances the head takes the job at the head off the list. *)
LEMMA AdvanceFacts ==
  ASSUME CoreInv, NEW t \in Threads, Advance(t)
  PROVE  /\ Published' = Published
         /\ job_queue \in Queued
         /\ Owns(t) = NULL /\ Holding(t) = NULL
         /\ Owns(t)' = job_queue /\ Holding(t)' = job_queue
         /\ \A u \in Threads \ {t} : Holding(u)' = Holding(u) /\ Owns(u)' = Owns(u)
         /\ Queued' = Queued \ {job_queue}
<1> USE NumJobsAssumption, SizeAssumption DEF Threads, Jobs, NULL
<1>1. /\ Published' = Published
      /\ job_queue \in Queued
      /\ Owns(t) = NULL /\ Holding(t) = NULL
      /\ Owns(t)' = job_queue /\ Holding(t)' = job_queue
      /\ \A u \in Threads \ {t} : Holding(u)' = Holding(u) /\ Owns(u)' = Owns(u)
  BY DEF CoreInv, Types, ListTypeOK, Advance, Step, listVars, mainVars, Holding, Owns, Published, LocalInv, ListInv, IsTop
<1>2. Queued' = Queued \ {job_queue}
  <2>1. \A j \in Published : j # NULL
    BY DEF Published
  <2>2. job_queue \notin Queued'
    BY <1>1 DEF Queued
  <2>3. \A j \in Published : j # job_queue =>
          ((\A u \in Threads : Holding(u)' # j) <=> (\A u \in Threads : Holding(u) # j))
    BY <1>1, <2>1
  <2>4. Done' = Done
    BY DEF Done, Advance
  <2>5. QED
    BY <1>1, <2>2, <2>3, <2>4 DEF Queued
<1>3. QED
  BY <1>1, <1>2

LEMMA CoreAdvance ==
  ASSUME CoreInv, NEW t \in Threads, Advance(t)
  PROVE  CoreInv'
<1> USE NumJobsAssumption, SizeAssumption DEF Threads, Jobs, NULL
<1>1. Types'
  <2>1. next[job_queue] \in Jobs \cup {NULL}
    BY DEF CoreInv, Types, ListTypeOK, Advance, ListInv, IsTop, Queued, Published
  <2>2. QED
    BY <2>1 DEF CoreInv, Types, ListTypeOK, Advance, Step, listVars, mainVars, AnyThreadLabel,
                AnyMainLabel, Owners
<1>2. MutexInv'
  BY DEF CoreInv, Types, ListTypeOK, MutexInv, InThread, InMain, Advance, Step, listVars, mainVars, Nobody, Main
<1>3. LocalInv'
  BY DEF CoreInv, Types, ListTypeOK, LocalInv, Advance, Step, listVars, mainVars, MutexInv, InThread, InMain, Main
<1>4. /\ Published' = Published
      /\ job_queue \in Queued
      /\ Owns(t) = NULL /\ Holding(t) = NULL
      /\ Owns(t)' = job_queue /\ Holding(t)' = job_queue
      /\ \A u \in Threads \ {t} : Holding(u)' = Holding(u) /\ Owns(u)' = Owns(u)
  BY AdvanceFacts
<1>5. Queued' = Queued \ {job_queue}
  BY AdvanceFacts
<1>6. OwnerInv'
  <2>1. printed[job_queue] = 0 /\ job_queue \in Published /\ job_queue \in Jobs
    BY <1>4 DEF CoreInv, Types, ListTypeOK, Queued, Done, OwnerInv, Published
  <2>2. \A u \in Threads : Owns(u) # job_queue
    <3>1. \A u \in Threads : Holding(u) # job_queue
      BY <1>4 DEF Queued
    <3>2. \A u \in Threads : tpc[u] = "free" => next_job[u] # job_queue
      BY <2>1 DEF CoreInv, LocalInv
    <3>3. QED
      BY <2>1, <3>1, <3>2 DEF Owns, Holding
  <2>3. QED
    BY <1>4, <2>1, <2>2 DEF CoreInv, OwnerInv, Advance
<1>7. ListInv'
  <2>1. Queued \subseteq Int
    BY QueuedJobs
  <2>2. Queued' = { k \in Queued : k < job_queue }
    <3>1. \A k \in Queued : k <= job_queue
      BY DEF CoreInv, ListInv, IsTop
    <3>2. \A k \in Queued : k # job_queue <=> k < job_queue
      BY <1>4, <2>1, <3>1
    <3>3. QED
      BY <1>5, <3>2
  <2>3. IsTop(job_queue', Queued')
    BY <1>4, <2>2 DEF CoreInv, ListInv, Advance
  <2>4. ASSUME NEW j \in Queued'
        PROVE  IsTop(next[j], { k \in Queued' : k < j })
    <3>1. { k \in Queued' : k < j } = { k \in Queued : k < j }
      <4>1. \A k \in Queued : k < j => k < job_queue
        BY <1>4, <2>1, <2>2
      <4>2. QED
        BY <2>2, <4>1
    <3>2. QED
      BY <2>2, <3>1 DEF CoreInv, ListInv
  <2>5. QED
    BY <2>3, <2>4 DEF ListInv, Advance
<1>8. HeapInv'
  BY <1>4, <1>5 DEF CoreInv, Types, ListTypeOK, HeapInv, Advance, mainVars
<1>9. QED
  BY <1>1, <1>2, <1>3, <1>6, <1>7, <1>8 DEF CoreInv

LEMMA CoreUnlockQueue ==
  ASSUME CoreInv, NEW t \in Threads, UnlockQueue(t), next_job[t] \in Jobs
  PROVE  CoreInv'
<1> USE NumJobsAssumption, SizeAssumption DEF Threads, Jobs, NULL
<1>1. Types'
  BY DEF CoreInv, Types, ListTypeOK, UnlockQueue, Step, listVars, mainVars, AnyThreadLabel, AnyMainLabel, Owners
<1>2. MutexInv'
  BY DEF CoreInv, Types, ListTypeOK, MutexInv, InThread, InMain, UnlockQueue, Step, listVars, mainVars, Nobody, Main
<1>3. LocalInv'
  BY DEF CoreInv, Types, ListTypeOK, LocalInv, UnlockQueue, Step, listVars, mainVars
<1>4. /\ Published' = Published
      /\ \A u \in Threads : Holding(u)' = Holding(u) /\ Owns(u)' = Owns(u)
  BY DEF CoreInv, Types, ListTypeOK, UnlockQueue, Step, listVars, mainVars, Holding, Owns, Published
<1>5. Queued' = Queued
  BY <1>4, QueuedUnchanged DEF UnlockQueue, listVars
<1>6. OwnerInv'
  BY <1>4 DEF CoreInv, OwnerInv, UnlockQueue, listVars
<1>7. ListInv'
  BY <1>5, ListInvKept DEF CoreInv, UnlockQueue, listVars
<1>8. HeapInv'
  BY <1>4, <1>5 DEF CoreInv, HeapInv, UnlockQueue, listVars, mainVars
<1>9. QED
  BY <1>1, <1>2, <1>3, <1>6, <1>7, <1>8 DEF CoreInv

LEMMA CoreProcessJob ==
  ASSUME CoreInv, NEW t \in Threads, ProcessJob(t)
  PROVE  CoreInv'
<1> USE NumJobsAssumption, SizeAssumption DEF Threads, Jobs, NULL
<1>1. Types'
  <2>1. printed' \in [Jobs -> Nat]
    BY DEF CoreInv, Types, ListTypeOK, LocalInv, ProcessJob, Step
  <2>2. QED
    BY <2>1 DEF CoreInv, Types, ListTypeOK, ProcessJob, Step, mainVars, AnyThreadLabel, AnyMainLabel,
                Owners
<1>2. MutexInv'
  BY DEF CoreInv, Types, ListTypeOK, MutexInv, InThread, InMain, ProcessJob, Step, listVars, mainVars, Nobody, Main
<1>3. LocalInv'
  <2>1. Holding(t) = next_job[t] /\ next_job[t] \in Jobs
    BY DEF CoreInv, LocalInv, ProcessJob, Step, Holding
  <2>2. printed[next_job[t]] = 0
    BY <2>1 DEF CoreInv, OwnerInv
  <2>3. printed'[next_job[t]] = 1 /\ \A j \in Jobs : j # next_job[t] => printed'[j] = printed[j]
    BY <2>1, <2>2 DEF CoreInv, Types, ListTypeOK, ProcessJob
  <2>4. \A u \in Threads : tpc'[u] = "free" => printed'[next_job[u]] = 1
    BY <2>1, <2>3 DEF CoreInv, Types, ListTypeOK, LocalInv, ProcessJob, Step
  <2>5. QED
    BY <2>1, <2>4 DEF CoreInv, Types, ListTypeOK, LocalInv, ProcessJob, Step, mainVars
<1>4. /\ Published' = Published
      /\ Holding(t) = next_job[t] /\ Holding(t)' = NULL
      /\ next_job[t] \in Jobs
      /\ \A u \in Threads \ {t} : Holding(u)' = Holding(u)
      /\ \A u \in Threads : Owns(u)' = Owns(u)
  BY DEF CoreInv, Types, ListTypeOK, ProcessJob, Step, listVars, mainVars, Holding, Owns, Published, LocalInv
<1>p. /\ printed[next_job[t]] = 0 /\ printed'[next_job[t]] = 1
      /\ \A j \in Jobs : j # next_job[t] => printed'[j] = printed[j]
  <2>1. printed[next_job[t]] = 0
    BY <1>4 DEF CoreInv, OwnerInv
  <2>2. QED
    BY <1>4, <2>1 DEF CoreInv, Types, ListTypeOK, ProcessJob
<1>5. Queued' = Queued
  <2>1. Done' = Done \cup {next_job[t]}
    <3>1. \A j \in Jobs : printed'[j] > 0 <=> printed[j] > 0 \/ j = next_job[t]
      BY <1>4, <1>p
    <3>2. QED
      BY <1>4, <3>1 DEF Done
  <2>2. \A j \in Published : j # NULL
    BY DEF Published
  <2>3. QED
    BY <1>4, <2>1, <2>2 DEF Queued
<1>6. OwnerInv'
  <2>1. /\ \A j \in Jobs : printed'[j] \in {0, 1}
        /\ \A j \in Jobs \ Published : printed'[j] = 0
    <3>1. next_job[t] \in Published
      BY <1>4 DEF CoreInv, OwnerInv, ProcessJob, Step, Owns
    <3>2. QED
      BY <1>p, <3>1 DEF CoreInv, Types, ListTypeOK, OwnerInv
  <2>2. \A u \in Threads : Holding(u)' \in Jobs => printed'[Holding(u)'] = 0
    <3>1. \A u \in Threads \ {t} : Holding(u) \in Jobs => Holding(u) # next_job[t]
      BY <1>4 DEF CoreInv, OwnerInv, Owns, Holding
    <3>2. ASSUME NEW u \in Threads \ {t}, Holding(u)' \in Jobs
          PROVE  printed'[Holding(u)'] = 0
      <4>1. Holding(u)' = Holding(u) /\ Holding(u) \in Jobs
        BY <1>4, <3>2
      <4>2. printed[Holding(u)] = 0 /\ Holding(u) # next_job[t]
        BY <3>1, <4>1 DEF CoreInv, OwnerInv
      <4>3. QED
        BY <1>p, <4>1, <4>2
    <3>3. QED
      BY <1>4, <3>2
  <2>3. QED
    BY <1>4, <2>1, <2>2 DEF CoreInv, OwnerInv
<1>7. ListInv'
  BY <1>5, ListInvKept DEF CoreInv, ProcessJob
<1>8. HeapInv'
  <2>1. Owns(t) = next_job[t]
    BY DEF Owns, ProcessJob, Step
  <2>2. \A j \in Jobs : printed'[j] = 1 /\ (\A u \in Threads : Owns(u) # j) => heap[j] = "freed"
    BY <1>p, <2>1 DEF CoreInv, HeapInv
  <2>3. QED
    BY <1>4, <1>5, <2>2 DEF CoreInv, HeapInv, ProcessJob, mainVars
<1>9. QED
  BY <1>1, <1>2, <1>3, <1>6, <1>7, <1>8 DEF CoreInv

LEMMA CoreFreeJob ==
  ASSUME CoreInv, NEW t \in Threads, NEW top \in {"lock", "wait", "flaglock"}, FreeJob(t, top)
  PROVE  CoreInv'
<1> USE NumJobsAssumption, SizeAssumption DEF Threads, Jobs, NULL
<1>1. Types'
  BY DEF CoreInv, Types, ListTypeOK, FreeJob, Step, listVars, mainVars, AnyThreadLabel, AnyMainLabel, Owners
<1>2. MutexInv'
  BY DEF CoreInv, Types, ListTypeOK, MutexInv, InThread, InMain, FreeJob, Step, listVars, mainVars, Nobody, Main
<1>3. LocalInv'
  BY DEF CoreInv, Types, ListTypeOK, LocalInv, FreeJob, Step, listVars, mainVars
<1>4. /\ Published' = Published
      /\ Owns(t) = next_job[t] /\ Owns(t)' = NULL
      /\ next_job[t] \in Jobs /\ printed[next_job[t]] = 1
      /\ \A u \in Threads \ {t} : Owns(u)' = Owns(u)
      /\ \A u \in Threads : Holding(u)' = Holding(u)
  BY DEF CoreInv, Types, ListTypeOK, FreeJob, Step, listVars, mainVars, Holding, Owns, Published, LocalInv
<1>5. Queued' = Queued
  BY <1>4, QueuedUnchanged DEF FreeJob
<1>6. OwnerInv'
  BY <1>4 DEF CoreInv, OwnerInv, FreeJob
<1>7. ListInv'
  BY <1>5, ListInvKept DEF CoreInv, FreeJob
<1>8. HeapInv'
  <2>1. next_job[t] \notin Queued
    BY <1>4 DEF Queued, Done
  <2>2. mpc \in {"lock", "link", "publish"} => next_job[t] # i
    BY <1>4 DEF CoreInv, Types, ListTypeOK, OwnerInv, Published
  <2>3. \A j \in Jobs : printed[j] = 1 /\ (\A u \in Threads : Owns(u)' # j) => heap'[j] = "freed"
    BY <1>4 DEF CoreInv, Types, ListTypeOK, HeapInv, FreeJob
  <2>4. /\ \A j \in Queued : heap'[j] = "live"
        /\ \A u \in Threads : Owns(u)' \in Jobs => heap'[Owns(u)'] = "live"
        /\ mpc \in {"lock", "link", "publish"} => heap'[i] = "live"
    <3>1. \A j \in Jobs : j # next_job[t] => heap'[j] = heap[j]
      BY <1>4 DEF CoreInv, Types, ListTypeOK, FreeJob
    <3>2. \A u \in Threads : Owns(u)' \in Jobs => Owns(u)' # next_job[t] /\ Owns(u)' = Owns(u)
      BY <1>4 DEF CoreInv, OwnerInv
    <3>3. mpc \in {"lock", "link", "publish"} => i \in Jobs
      BY DEF CoreInv, Types, ListTypeOK
    <3>4. QED
      BY <2>1, <2>2, <3>1, <3>2, <3>3, QueuedJobs DEF CoreInv, HeapInv
  <2>5. QED
    BY <1>4, <1>5, <2>3, <2>4 DEF HeapInv, FreeJob, mainVars
<1>9. QED
  BY <1>1, <1>2, <1>3, <1>6, <1>7, <1>8 DEF CoreInv

-----------------------------------------------------------------------------
(* The actions of main() and enqueue_job(). *)

LEMMA CoreCreateThread ==
  ASSUME CoreInv, NEW first \in {"lock", "wait", "flaglock"}, CreateThread(first), tpc[i] = "unborn"
  PROVE  CoreInv'
<1> USE NumJobsAssumption, SizeAssumption DEF Threads, Jobs, NULL
<1>1. Types'
  BY DEF CoreInv, Types, ListTypeOK, CreateThread, MainStep, listVars, threadVars, AnyThreadLabel, AnyMainLabel, Owners
<1>2. MutexInv'
  BY DEF CoreInv, Types, ListTypeOK, MutexInv, InThread, InMain, CreateThread, MainStep, listVars, threadVars, Nobody, Main
<1>3. LocalInv'
  BY DEF CoreInv, Types, ListTypeOK, LocalInv, CreateThread, MainStep, listVars, threadVars
<1>4. /\ Published' = Published
      /\ \A u \in Threads : Holding(u)' = Holding(u) /\ Owns(u)' = Owns(u)
  BY DEF CoreInv, Types, ListTypeOK, CreateThread, MainStep, listVars, threadVars, Holding, Owns, Published
<1>5. Queued' = Queued
  BY <1>4, QueuedUnchanged DEF CreateThread, MainStep, listVars, threadVars
<1>6. OwnerInv'
  BY <1>4 DEF CoreInv, OwnerInv, CreateThread, MainStep, listVars, threadVars
<1>7. ListInv'
  BY <1>5, ListInvKept DEF CoreInv, CreateThread, MainStep, listVars, threadVars
<1>8. HeapInv'
  BY <1>4, <1>5 DEF CoreInv, Types, ListTypeOK, HeapInv, CreateThread, MainStep, listVars, threadVars
<1>9. QED
  BY <1>1, <1>2, <1>3, <1>6, <1>7, <1>8 DEF CoreInv

LEMMA CoreNewJob ==
  ASSUME CoreInv, NewJob
  PROVE  CoreInv'
<1> USE NumJobsAssumption, SizeAssumption DEF Threads, Jobs, NULL
<1>1. Types'
  BY DEF CoreInv, Types, ListTypeOK, NewJob, MainStep, listVars, threadVars, AnyThreadLabel, AnyMainLabel, Owners
<1>2. MutexInv'
  BY DEF CoreInv, Types, ListTypeOK, MutexInv, InThread, InMain, NewJob, MainStep, listVars, threadVars, Nobody, Main
<1>3. LocalInv'
  BY DEF CoreInv, Types, ListTypeOK, LocalInv, NewJob, MainStep, listVars, threadVars
<1>4. /\ Published' = Published
      /\ \A u \in Threads : Holding(u)' = Holding(u) /\ Owns(u)' = Owns(u)
  BY DEF CoreInv, Types, ListTypeOK, NewJob, MainStep, listVars, threadVars, Holding, Owns, Published
<1>5. Queued' = Queued
  BY <1>4, QueuedUnchanged DEF NewJob, MainStep, listVars, threadVars
<1>6. OwnerInv'
  BY <1>4 DEF CoreInv, OwnerInv, NewJob, MainStep, listVars, threadVars
<1>7. ListInv'
  BY <1>5, ListInvKept DEF CoreInv, NewJob, MainStep, listVars, threadVars
<1>8. HeapInv'
  <2>1. i \notin Published
    BY DEF NewJob, MainStep, Published
  <2>2. i \notin Queued /\ \A u \in Threads : Owns(u) # i
    <3>1. i \in Jobs
      BY DEF CoreInv, Types, ListTypeOK, NewJob, MainStep
    <3>2. QED
      BY <2>1, <3>1 DEF CoreInv, OwnerInv, Queued
  <2>3. heap'[i] = "live" /\ \A j \in Jobs : j # i => heap'[j] = heap[j]
    BY DEF CoreInv, Types, ListTypeOK, NewJob, MainStep
  <2>4. \A j \in Jobs : printed[j] = 1 => j # i
    BY <2>1 DEF CoreInv, OwnerInv
  <2>5. QED
    BY <1>4, <1>5, <2>2, <2>3, <2>4, QueuedJobs DEF CoreInv, HeapInv, NewJob
<1>9. QED
  BY <1>1, <1>2, <1>3, <1>6, <1>7, <1>8 DEF CoreInv

LEMMA CoreLockEnqueue ==
  ASSUME CoreInv, LockEnqueue
  PROVE  CoreInv'
<1> USE NumJobsAssumption, SizeAssumption DEF Threads, Jobs, NULL
<1>1. Types'
  BY DEF CoreInv, Types, ListTypeOK, LockEnqueue, MainStep, listVars, threadVars, AnyThreadLabel, AnyMainLabel, Owners
<1>2. MutexInv'
  BY DEF CoreInv, Types, ListTypeOK, MutexInv, InThread, InMain, LockEnqueue, MainStep, listVars, threadVars, Nobody, Main
<1>3. LocalInv'
  BY DEF CoreInv, Types, ListTypeOK, LocalInv, LockEnqueue, MainStep, listVars, threadVars
<1>4. /\ Published' = Published
      /\ \A u \in Threads : Holding(u)' = Holding(u) /\ Owns(u)' = Owns(u)
  BY DEF CoreInv, Types, ListTypeOK, LockEnqueue, MainStep, listVars, threadVars, Holding, Owns, Published
<1>5. Queued' = Queued
  BY <1>4, QueuedUnchanged DEF LockEnqueue, MainStep, listVars, threadVars
<1>6. OwnerInv'
  BY <1>4 DEF CoreInv, OwnerInv, LockEnqueue, MainStep, listVars, threadVars
<1>7. ListInv'
  BY <1>5, ListInvKept DEF CoreInv, LockEnqueue, MainStep, listVars, threadVars
<1>8. HeapInv'
  BY <1>4, <1>5 DEF CoreInv, Types, ListTypeOK, HeapInv, LockEnqueue, MainStep, listVars, threadVars
<1>9. QED
  BY <1>1, <1>2, <1>3, <1>6, <1>7, <1>8 DEF CoreInv

LEMMA CoreLink ==
  ASSUME CoreInv, Link
  PROVE  CoreInv'
<1> USE NumJobsAssumption, SizeAssumption DEF Threads, Jobs, NULL
<1>1. Types'
  BY DEF CoreInv, Types, ListTypeOK, Link, MainStep, listVars, threadVars, AnyThreadLabel, AnyMainLabel, Owners
<1>2. MutexInv'
  BY DEF CoreInv, Types, ListTypeOK, MutexInv, InThread, InMain, Link, MainStep, listVars, threadVars, Nobody, Main
<1>3. LocalInv'
  BY DEF CoreInv, Types, ListTypeOK, LocalInv, Link, MainStep, listVars, threadVars
<1>4. /\ Published' = Published
      /\ \A u \in Threads : Holding(u)' = Holding(u) /\ Owns(u)' = Owns(u)
  BY DEF CoreInv, Types, ListTypeOK, Link, MainStep, listVars, threadVars, Holding, Owns, Published
<1>5. Queued' = Queued
  BY <1>4, QueuedUnchanged DEF Link, MainStep, listVars, threadVars
<1>6. OwnerInv'
  BY <1>4 DEF CoreInv, OwnerInv, Link, MainStep, listVars, threadVars
<1>7. ListInv'
  <2>1. i \notin Queued
    BY DEF Link, MainStep, Queued, Published
  <2>2. \A j \in Queued : next'[j] = next[j]
    BY <2>1, QueuedJobs DEF CoreInv, Types, ListTypeOK, Link, MainStep
  <2>3. QED
    BY <1>5, <2>2 DEF CoreInv, ListInv, Link
<1>8. HeapInv'
  BY <1>4, <1>5 DEF CoreInv, Types, ListTypeOK, HeapInv, Link, MainStep, listVars, threadVars
<1>9. QED
  BY <1>1, <1>2, <1>3, <1>6, <1>7, <1>8 DEF CoreInv

(* When Publish stores the new head, job i joins the published jobs. *)
LEMMA PublishFacts ==
  ASSUME CoreInv, Publish
  PROVE  /\ Published' = Published \cup {i} /\ i \notin Published /\ i \in Jobs
         /\ \A j \in Jobs : j < i <=> j \in Published
         /\ \A u \in Threads : Holding(u)' = Holding(u) /\ Owns(u)' = Owns(u)
         /\ \A u \in Threads : Holding(u) # i /\ Owns(u) # i
         /\ i \notin Done /\ Done' = Done
         /\ Queued' = Queued \cup {i} /\ i \notin Queued
<1> USE NumJobsAssumption, SizeAssumption DEF Threads, Jobs, NULL
<1>1. Published' = Published \cup {i} /\ i \notin Published /\ i \in Jobs
  BY DEF CoreInv, Types, ListTypeOK, Publish, MainStep, Published
<1>2. \A j \in Jobs : j < i <=> j \in Published
  BY DEF Publish, MainStep, Published
<1>3. \A u \in Threads : Holding(u)' = Holding(u) /\ Owns(u)' = Owns(u)
  BY DEF Publish, threadVars, Holding, Owns
<1>4. \A u \in Threads : Holding(u) # i /\ Owns(u) # i
  <2>1. \A u \in Threads : Holding(u) \in Jobs => Holding(u) = Owns(u)
    BY DEF Holding, Owns
  <2>2. QED
    BY <1>1, <2>1 DEF CoreInv, OwnerInv
<1>5. i \notin Done /\ Done' = Done
  BY <1>1 DEF CoreInv, OwnerInv, Done, Publish
<1>6. Queued' = Queued \cup {i} /\ i \notin Queued
  BY <1>1, <1>3, <1>4, <1>5 DEF Queued
<1>7. QED
  BY <1>1, <1>2, <1>3, <1>4, <1>5, <1>6

LEMMA CorePublish ==
  ASSUME CoreInv, Publish
  PROVE  CoreInv'
<1> USE NumJobsAssumption, SizeAssumption DEF Threads, Jobs, NULL
<1>1. Types'
  BY DEF CoreInv, Types, ListTypeOK, Publish, MainStep, listVars, threadVars, AnyThreadLabel, AnyMainLabel, Owners
<1>2. MutexInv'
  BY DEF CoreInv, Types, ListTypeOK, MutexInv, InThread, InMain, Publish, MainStep, listVars, threadVars, Nobody, Main
<1>3. LocalInv'
  <2>1. \A t \in Threads : tpc[t] # "advance"
    BY DEF CoreInv, MutexInv, InThread, InMain, Main, Publish, MainStep
  <2>2. QED
    BY <2>1 DEF CoreInv, Types, ListTypeOK, LocalInv, Publish, MainStep, threadVars
<1>4. /\ Published' = Published \cup {i} /\ i \notin Published /\ i \in Jobs
      /\ \A j \in Published : j < i
      /\ \A u \in Threads : Holding(u)' = Holding(u) /\ Owns(u)' = Owns(u)
      /\ \A u \in Threads : Holding(u) # i /\ Owns(u) # i
  BY PublishFacts, QueuedJobs
<1>5. Queued' = Queued \cup {i}
  BY PublishFacts
<1>6. OwnerInv'
  BY <1>4 DEF CoreInv, Types, ListTypeOK, OwnerInv, Publish
<1>7. ListInv'
  <2>1. \A k \in Queued : k < i
    BY <1>4 DEF Queued
  <2>2. IsTop(job_queue', Queued')
    BY <1>4, <1>5, <2>1, QueuedJobs DEF IsTop, Publish
  <2>3. { k \in Queued' : k < i } = Queued
    <3>1. ~ (i < i)
      BY <1>4, QueuedJobs
    <3>2. QED
      BY <1>5, <2>1, <3>1
  <2>4. IsTop(next[i], { k \in Queued' : k < i })
    BY <2>3 DEF CoreInv, ListInv, LocalInv, Publish, MainStep
  <2>5. ASSUME NEW j \in Queued
        PROVE  IsTop(next[j], { k \in Queued' : k < j })
    <3>1. { k \in Queued' : k < j } = { k \in Queued : k < j }
      BY <1>4, <1>5, <2>1, QueuedJobs
    <3>2. QED
      BY <3>1 DEF CoreInv, ListInv
  <2>6. QED
    BY <1>5, <2>2, <2>4, <2>5 DEF ListInv, Publish
<1>8. HeapInv'
  BY <1>4, <1>5 DEF CoreInv, Types, ListTypeOK, HeapInv, Publish, MainStep
<1>9. QED
  BY <1>1, <1>2, <1>3, <1>6, <1>7, <1>8 DEF CoreInv

LEMMA CoreUnlockEnqueue ==
  ASSUME CoreInv, NEW after \in {"join", "flaglock"}, UnlockEnqueue(after)
  PROVE  CoreInv'
<1> USE NumJobsAssumption, SizeAssumption DEF Threads, Jobs, NULL
<1>1. Types'
  <2>1. i \in Nat /\ (mpc = "unlock" => i < NumJobs)
    BY DEF CoreInv, Types, ListTypeOK
  <2>2. \/ mpc' = "malloc" /\ i' = i + 1 /\ i + 1 < NumJobs
        \/ mpc' = after /\ i' = 0
    BY DEF UnlockEnqueue, NextJob
  <2>3. /\ mpc' \in AnyMainLabel /\ i' \in Nat
        /\ mpc' \in {"create", "flaglock", "setflag", "broadcast", "flagunlock", "join"} => i' < Size
        /\ mpc' \in {"malloc", "lock", "link", "publish", "unlock", "post"} => i' < NumJobs
    BY <2>1, <2>2 DEF AnyMainLabel
  <2>4. job_queue_mutex' \in Owners
    BY DEF UnlockEnqueue, Owners
  <2>5. QED
    BY <2>3, <2>4 DEF CoreInv, Types, ListTypeOK, UnlockEnqueue, listVars, threadVars
<1>2. MutexInv'
  BY DEF CoreInv, Types, ListTypeOK, MutexInv, InThread, InMain, UnlockEnqueue, NextJob, MainStep, listVars, threadVars, Nobody, Main
<1>3. LocalInv'
  BY DEF CoreInv, Types, ListTypeOK, LocalInv, UnlockEnqueue, NextJob, MainStep, listVars, threadVars
<1>4. /\ Published' = Published
      /\ \A u \in Threads : Holding(u)' = Holding(u) /\ Owns(u)' = Owns(u)
  BY DEF CoreInv, Types, ListTypeOK, UnlockEnqueue, NextJob, MainStep, listVars, threadVars, Holding, Owns, Published
<1>5. Queued' = Queued
  BY <1>4, QueuedUnchanged DEF UnlockEnqueue, NextJob, MainStep, listVars, threadVars
<1>6. OwnerInv'
  BY <1>4 DEF CoreInv, OwnerInv, UnlockEnqueue, NextJob, MainStep, listVars, threadVars
<1>7. ListInv'
  BY <1>5, ListInvKept DEF CoreInv, UnlockEnqueue, NextJob, MainStep, listVars, threadVars
<1>8. HeapInv'
  BY <1>4, <1>5 DEF CoreInv, Types, ListTypeOK, HeapInv, UnlockEnqueue, NextJob, MainStep, listVars, threadVars
<1>9. QED
  BY <1>1, <1>2, <1>3, <1>6, <1>7, <1>8 DEF CoreInv

LEMMA CoreJoinThread ==
  ASSUME CoreInv, JoinThread("returned")
  PROVE  CoreInv'
<1> USE NumJobsAssumption, SizeAssumption DEF Threads, Jobs, NULL
<1>1. Types'
  BY DEF CoreInv, Types, ListTypeOK, JoinThread, MainStep, listVars, threadVars, AnyThreadLabel, AnyMainLabel, Owners
<1>2. MutexInv'
  BY DEF CoreInv, Types, ListTypeOK, MutexInv, InThread, InMain, JoinThread, MainStep, listVars, threadVars, Nobody, Main
<1>3. LocalInv'
  BY DEF CoreInv, Types, ListTypeOK, LocalInv, JoinThread, MainStep, listVars, threadVars
<1>4. /\ Published' = Published
      /\ \A u \in Threads : Holding(u)' = Holding(u) /\ Owns(u)' = Owns(u)
  BY DEF CoreInv, Types, ListTypeOK, JoinThread, MainStep, listVars, threadVars, Holding, Owns, Published
<1>5. Queued' = Queued
  BY <1>4, QueuedUnchanged DEF JoinThread, MainStep, listVars, threadVars
<1>6. OwnerInv'
  BY <1>4 DEF CoreInv, OwnerInv, JoinThread, MainStep, listVars, threadVars
<1>7. ListInv'
  BY <1>5, ListInvKept DEF CoreInv, JoinThread, MainStep, listVars, threadVars
<1>8. HeapInv'
  BY <1>4, <1>5 DEF CoreInv, Types, ListTypeOK, HeapInv, JoinThread, MainStep, listVars, threadVars
<1>9. QED
  BY <1>1, <1>2, <1>3, <1>6, <1>7, <1>8 DEF CoreInv

-----------------------------------------------------------------------------
(* What the invariant means for the programs. *)

LEMMA CoreNoDoubleTake == CoreInv => NoDoubleTake
<1> SUFFICES ASSUME CoreInv
             PROVE  NoDoubleTake
  OBVIOUS
<1>1. \A j \in Jobs : printed[j] <= 1
  BY DEF CoreInv, OwnerInv
<1>2. \A t, u \in Threads : t # u /\ Holding(t) # NULL => Holding(t) # Holding(u)
  BY DEF CoreInv, OwnerInv, Holding, Owns
<1>3. QED
  BY <1>1, <1>2 DEF NoDoubleTake, CoreInv, OwnerInv

LEMMA CoreNoUseAfterFree == CoreInv => NoUseAfterFree
<1> SUFFICES ASSUME CoreInv
             PROVE  NoUseAfterFree
  OBVIOUS
<1>1. job_queue \in Jobs => job_queue \in Queued
  BY DEF CoreInv, ListInv, IsTop, Jobs, NULL
<1>2. \A t \in Threads : tpc[t] \in {"process", "free"} => Owns(t) = next_job[t] /\ next_job[t] \in Jobs
  BY DEF CoreInv, LocalInv, Owns
<1>3. QED
  BY <1>1, <1>2 DEF CoreInv, HeapInv, NoUseAfterFree

LEMMA CoreAccounted ==
  ASSUME CoreInv, AllExited, Published = Jobs, NEW j \in Jobs
  PROVE  \/ printed[j] = 1 /\ heap[j] = "freed"
         \/ printed[j] = 0 /\ heap[j] = "live" /\ j \in Queued
<1>1. \A t \in Threads : Owns(t) = NULL /\ Holding(t) = NULL
  BY DEF AllExited, Owns, Holding
<1>2. j # NULL
  BY DEF Jobs, NULL
<1>3. CASE printed[j] = 1
  BY <1>1, <1>2, <1>3 DEF CoreInv, HeapInv
<1>4. CASE printed[j] = 0
  <2>1. j \in Queued
    BY <1>1, <1>2, <1>4 DEF Queued, Done
  <2>2. QED
    BY <1>4, <2>1 DEF CoreInv, HeapInv
<1>5. QED
  BY <1>3, <1>4 DEF CoreInv, OwnerInv

-----------------------------------------------------------------------------
(* Every step of the list is a step of the pool or leaves the pool alone. *)

LEMMA PoolStutter ==
  ASSUME Queued' = Queued, UNCHANGED printed,
         \A t \in Threads : Holding(t)' = Holding(t)
  PROVE  UNCHANGED Pool!poolVars
BY DEF Pool!poolVars, Done

LEMMA PoolPublish ==
  ASSUME CoreInv, Publish
  PROVE  Pool!Submit(i)
<1> USE NumJobsAssumption, SizeAssumption DEF Threads, Jobs, NULL
<1>1. \A j \in Published : j \in Queued \/ j \in Done \/ \E t \in Threads : Holding(t) = j
  BY DEF Queued
<1>2. QED
  BY <1>1, PublishFacts DEF Pool!Submit, Pool!Submitted, Pool!Threads, Pool!Jobs

LEMMA PoolAdvance ==
  ASSUME CoreInv, NEW t \in Threads, Advance(t)
  PROVE  Pool!Take(t, job_queue)
<1>1. \A k \in Queued : k <= job_queue
  BY DEF CoreInv, ListInv, IsTop
<1>2. Done' = Done
  BY DEF Done, Advance
<1>3. QED
  BY <1>1, <1>2, AdvanceFacts DEF Pool!Take, Pool!NULL, NULL, Pool!Threads, Threads

LEMMA PoolProcessJob ==
  ASSUME CoreInv, NEW t \in Threads, ProcessJob(t), Queued' = Queued
  PROVE  Pool!Finish(t)
<1> USE NumJobsAssumption, SizeAssumption DEF Threads, Jobs, NULL
<1>1. /\ Holding(t) = next_job[t] /\ Holding(t)' = NULL
      /\ next_job[t] \in Jobs
      /\ \A u \in Threads \ {t} : Holding(u)' = Holding(u)
  BY DEF CoreInv, Types, ListTypeOK, ProcessJob, Step, Holding, LocalInv
<1>2. printed[next_job[t]] = 0
  BY <1>1 DEF CoreInv, OwnerInv
<1>3. /\ printed'[next_job[t]] = 1
      /\ \A j \in Jobs : j # next_job[t] => printed'[j] = printed[j]
  BY <1>1, <1>2 DEF CoreInv, Types, ListTypeOK, ProcessJob
<1>4. \A j \in Jobs : printed'[j] > 0 <=> printed[j] > 0 \/ j = next_job[t]
  BY <1>1, <1>3
<1>5. Done' = Done \cup {next_job[t]} /\ next_job[t] \notin Done
  BY <1>1, <1>2, <1>4 DEF Done
<1>6. [u \in Threads |-> Holding(u)]' = [[u \in Threads |-> Holding(u)] EXCEPT ![t] = NULL]
  BY <1>1
<1>7. [u \in Threads |-> Holding(u)][t] = next_job[t] /\ next_job[t] # NULL
  BY <1>1
<1>8. QED
  BY <1>5, <1>6, <1>7 DEF Pool!Finish, Pool!NULL, Pool!Threads

(* The other steps of main() and of the threads do not show in the pool. *)
QuietMain == \/ \E first \in {"lock", "wait", "flaglock"} : CreateThread(first)
             \/ NewJob
             \/ LockEnqueue
             \/ Link
             \/ \E after \in {"join", "flaglock"} : UnlockEnqueue(after)
             \/ JoinThread("returned")

QuietThread(t) == \/ LockQueue(t)
                  \/ ReadHead(t)
                  \/ UnlockQueue(t)
                  \/ \E top \in {"lock", "wait", "flaglock"} : FreeJob(t, top)

LEMMA PoolQuietMain ==
  ASSUME CoreInv, QuietMain, mpc = "create" => tpc[i] = "unborn"
  PROVE  UNCHANGED Pool!poolVars
<1> USE NumJobsAssumption, SizeAssumption DEF Threads, Jobs, NULL
<1>1. \A t \in Threads : Holding(t)' = Holding(t)
  BY DEF CoreInv, Types, ListTypeOK, QuietMain, CreateThread, NewJob, LockEnqueue, Link, UnlockEnqueue,
         JoinThread, Holding, threadVars
<1>2. Published' = Published
  <2>1. CASE \E first \in {"lock", "wait", "flaglock"} : CreateThread(first)
    BY <2>1 DEF CreateThread, Published
  <2>2. CASE NewJob \/ LockEnqueue \/ Link
    BY <2>2 DEF NewJob, LockEnqueue, Link, MainStep, Published
  <2>3. CASE \E after \in {"join", "flaglock"} : UnlockEnqueue(after)
    BY <2>3 DEF CoreInv, Types, ListTypeOK, UnlockEnqueue, NextJob, Published
  <2>4. CASE JoinThread("returned")
    BY <2>4 DEF JoinThread, Published
  <2>5. QED
    BY <2>1, <2>2, <2>3, <2>4 DEF QuietMain
<1>3. UNCHANGED printed
  BY DEF QuietMain, CreateThread, NewJob, LockEnqueue, Link, UnlockEnqueue, JoinThread, listVars
<1>4. QED
  BY <1>1, <1>2, <1>3, QueuedUnchanged, PoolStutter

LEMMA PoolQuietThread ==
  ASSUME CoreInv, NEW t \in Threads, QuietThread(t)
  PROVE  UNCHANGED Pool!poolVars
<1> USE NumJobsAssumption, SizeAssumption DEF Threads, Jobs, NULL
<1>1. \A u \in Threads : Holding(u)' = Holding(u)
  BY DEF CoreInv, Types, ListTypeOK, QuietThread, LockQueue, ReadHead, UnlockQueue, FreeJob, Step, Holding
<1>2. Published' = Published
  BY DEF QuietThread, LockQueue, ReadHead, UnlockQueue, FreeJob, mainVars, Published
<1>3. UNCHANGED printed
  BY DEF QuietThread, LockQueue, ReadHead, UnlockQueue, FreeJob, listVars
<1>4. QED
  BY <1>1, <1>2, <1>3, QueuedUnchanged, PoolStutter

(* Processing a job leaves the queued jobs of the pool as they are. *)
LEMMA ProcessKeepsQueued ==
  ASSUME CoreInv, NEW t \in Threads, ProcessJob(t)
  PROVE  Queued' = Queued
<1> USE NumJobsAssumption, SizeAssumption DEF Threads, Jobs, NULL
<1>1. /\ Published' = Published
      /\ Holding(t) = next_job[t] /\ Holding(t)' = NULL
      /\ next_job[t] \in Jobs
      /\ \A u \in Threads \ {t} : Holding(u)' = Holding(u)
  BY DEF CoreInv, Types, ListTypeOK, ProcessJob, Step, mainVars, Holding, Published, LocalInv
<1>2. printed[next_job[t]] = 0
  BY <1>1 DEF CoreInv, OwnerInv
<1>3. \A j \in Jobs : printed'[j] > 0 <=> printed[j] > 0 \/ j = next_job[t]
  BY <1>1, <1>2 DEF CoreInv, Types, ListTypeOK, ProcessJob
<1>4. Done' = Done \cup {next_job[t]}
  BY <1>1, <1>3 DEF Done
<1>5. \A j \in Published : j # NULL
  BY DEF Published
<1>6. QED
  BY <1>1, <1>4, <1>5 DEF Queued

(* The initial state is one of the pool. *)
LEMMA PoolInit ==
  ASSUME NEW firstMain, Init(firstMain), firstMain = "create"
  PROVE  Pool!Init
<1> USE DEF Init, Threads, Jobs, NULL
<1>1. \A t \in Threads : Holding(t) = NULL
  BY DEF Holding
<1>2. Queued = {} /\ Done = {}
  BY DEF Queued, Published, Done
<1>3. QED
  BY <1>1, <1>2 DEF Pool!Init, Pool!Threads, Pool!NULL

-----------------------------------------------------------------------------
(* main() creates its threads in the order of their index. *)
CreateInv == mpc = "create" => \A t \in Threads : t >= i => tpc[t] = "unborn"

(* The threads that main() joined have exited. *)
JoinInv == /\ mpc = "join" => \A t \in Threads : t < i => tpc[t] = "exited"
           /\ mpc = "returned" => AllExited

(* No thread leaves its critical section without a job, where the head is tested. *)
UnlockInv == \A t \in Threads : tpc[t] = "unlock" => next_job[t] \in Jobs

LEMMA CoreInit ==
  ASSUME Init("create")
  PROVE  CoreInv /\ CreateInv /\ JoinInv /\ Queued = {}
<1> USE NumJobsAssumption, SizeAssumption DEF Init, Threads, Jobs, NULL
<1>1. Types
  BY DEF Types, ListTypeOK, AnyThreadLabel, AnyMainLabel, Owners, Nobody, Wild
<1>2. MutexInv
  BY DEF MutexInv, InThread, InMain, Nobody, Main
<1>3. LocalInv
  BY DEF LocalInv
<1>4. Published = {} /\ \A t \in Threads : Holding(t) = NULL /\ Owns(t) = NULL
  BY DEF Published, Holding, Owns
<1>5. Queued = {}
  BY <1>4 DEF Queued
<1>6. OwnerInv
  BY <1>4 DEF OwnerInv
<1>7. ListInv
  BY <1>5 DEF ListInv, IsTop
<1>8. HeapInv
  BY <1>4, <1>5 DEF HeapInv
<1>9. CreateInv /\ JoinInv
  BY DEF CreateInv, JoinInv
<1>10. QED
  BY <1>1, <1>2, <1>3, <1>5, <1>6, <1>7, <1>8, <1>9 DEF CoreInv

-----------------------------------------------------------------------------
(* thread_job_queue.c *)

QueueLabels == tpc \in [Threads -> QueueThreadLabels] /\ mpc \in QueueMainLabels

QueueIInv == CoreInv /\ QueueLabels /\ CreateInv /\ JoinInv

LEMMA QueueInitInv ==
  ASSUME Init("create")
  PROVE  QueueIInv
<1>1. QueueLabels
  BY SizeAssumption DEF Init, QueueLabels, QueueThreadLabels, QueueMainLabels, Threads
<1>2. QED
  BY <1>1, CoreInit DEF QueueIInv

-----------------------------------------------------------------------------
(* The two actions that only this program has. *)

LEMMA CoreFindNull ==
  ASSUME CoreInv, NEW t \in Threads, FindNull(t)
  PROVE  CoreInv'
<1> USE NumJobsAssumption, SizeAssumption DEF Threads, Jobs, NULL, FindNull, Step, mainVars
<1>1. Types'
  BY DEF CoreInv, Types, ListTypeOK, listVars, AnyThreadLabel, AnyMainLabel, Owners
<1>2. MutexInv'
  BY DEF CoreInv, Types, ListTypeOK, MutexInv, InThread, InMain, Nobody, Main
<1>3. LocalInv'
  BY DEF CoreInv, Types, ListTypeOK, LocalInv, listVars
<1>4. /\ Published' = Published
      /\ \A u \in Threads : Holding(u)' = Holding(u) /\ Owns(u)' = Owns(u)
  BY DEF CoreInv, Types, ListTypeOK, Holding, Owns, Published
<1>5. Queued' = Queued
  BY <1>4, QueuedUnchanged DEF listVars
<1>6. OwnerInv'
  BY <1>4 DEF CoreInv, OwnerInv, listVars
<1>7. ListInv'
  BY <1>5, ListInvKept DEF CoreInv, listVars
<1>8. HeapInv'
  BY <1>4, <1>5 DEF CoreInv, HeapInv, listVars
<1>9. QED
  BY <1>1, <1>2, <1>3, <1>6, <1>7, <1>8 DEF CoreInv

LEMMA CoreLeaveLoop ==
  ASSUME CoreInv, NEW t \in Threads, LeaveLoop(t)
  PROVE  CoreInv'
<1> USE NumJobsAssumption, SizeAssumption DEF Threads, Jobs, NULL, LeaveLoop, Step, mainVars
<1>1. Types'
  BY DEF CoreInv, Types, ListTypeOK, listVars, AnyThreadLabel, AnyMainLabel, Owners
<1>2. MutexInv'
  BY DEF CoreInv, Types, ListTypeOK, MutexInv, InThread, InMain, Nobody, Main
<1>3. LocalInv'
  BY DEF CoreInv, Types, ListTypeOK, LocalInv, listVars
<1>4. /\ Published' = Published
      /\ \A u \in Threads : Holding(u)' = Holding(u) /\ Owns(u)' = Owns(u)
  BY DEF CoreInv, Types, ListTypeOK, Holding, Owns, Published
<1>5. Queued' = Queued
  BY <1>4, QueuedUnchanged DEF listVars
<1>6. OwnerInv'
  BY <1>4 DEF CoreInv, OwnerInv, listVars
<1>7. ListInv'
  BY <1>5, ListInvKept DEF CoreInv, listVars
<1>8. HeapInv'
  BY <1>4, <1>5 DEF CoreInv, HeapInv, listVars
<1>9. QED
  BY <1>1, <1>2, <1>3, <1>6, <1>7, <1>8 DEF CoreInv

-----------------------------------------------------------------------------
LEMMA QueueCoreStep ==
  ASSUME QueueIInv, [QueueNext]_queueVars
  PROVE  CoreInv'
<1>1. CASE UNCHANGED queueVars
  BY <1>1 DEF queueVars, listVars, threadVars, mainVars, QueueIInv, CoreInv, Types, ListTypeOK, MutexInv,
              InThread, InMain, LocalInv, OwnerInv, ListInv, HeapInv, IsTop, Queued, Published,
              Done, Holding, Owns
<1>2. CASE QueueMainNext
  <2>1. CASE CreateThread("lock")
    <3>1. tpc[i] = "unborn"
      BY <2>1, SizeAssumption DEF QueueIInv, CoreInv, Types, ListTypeOK, CreateInv, CreateThread, Threads
    <3>2. QED
      BY <2>1, <3>1, CoreCreateThread DEF QueueIInv
  <2>2. QED
    BY <1>2, <2>1, CoreNewJob, CoreLockEnqueue, CoreLink, CorePublish, CoreUnlockEnqueue,
       CoreJoinThread DEF QueueMainNext, QueueIInv
<1>3. ASSUME NEW t \in Threads, QueueThreadNext(t)
      PROVE  CoreInv'
  <2>1. CASE Go(t)
    <3>1. next_job[t] \in Jobs
      BY <2>1 DEF QueueIInv, CoreInv, Types, ListTypeOK, Go
    <3>2. QED
      BY <2>1, <3>1, CoreUnlockQueue DEF QueueIInv, Go
  <2>2. QED
    BY <1>3, <2>1, CoreLockQueue, CoreFindNull, CoreReadHead, CoreAdvance, CoreLeaveLoop,
       CoreProcessJob, CoreFreeJob DEF QueueThreadNext, FindJob, QueueIInv
<1>4. QED
  BY <1>1, <1>2, <1>3 DEF QueueNext, QueueTerminating

LEMMA QueueLabelsStep ==
  ASSUME QueueIInv, [QueueNext]_queueVars
  PROVE  QueueLabels' /\ CreateInv' /\ JoinInv'
<1> USE NumJobsAssumption, SizeAssumption
    DEF QueueIInv, CoreInv, Types, ListTypeOK, QueueLabels, CreateInv, JoinInv, AllExited, QueueThreadLabels,
        QueueMainLabels, Threads
<1>1. CASE UNCHANGED queueVars
  BY <1>1 DEF queueVars, threadVars, mainVars
<1>2. CASE QueueMainNext
  <2>1. CASE CreateThread("lock")
    BY <2>1 DEF CreateThread, threadVars
  <2>2. CASE JoinThread("returned")
    <3>1. QueueLabels' /\ CreateInv'
      BY <2>2 DEF JoinThread, threadVars
    <3>2. i + 1 < Size => JoinInv'
      BY <2>2 DEF JoinThread, threadVars
    <3>3. ~ (i + 1 < Size) => JoinInv'
      BY <2>2 DEF JoinThread, threadVars
    <3>4. QED
      BY <3>1, <3>2, <3>3
  <2>3. CASE NewJob \/ LockEnqueue \/ Link \/ Publish \/ UnlockEnqueue("join")
    BY <2>3 DEF NewJob, LockEnqueue, Link, Publish, UnlockEnqueue, NextJob, MainStep, threadVars
  <2>4. QED
    BY <1>2, <2>1, <2>2, <2>3 DEF QueueMainNext
<1>3. ASSUME NEW t \in Threads, QueueThreadNext(t)
      PROVE  QueueLabels' /\ CreateInv' /\ JoinInv'
  BY <1>3 DEF QueueThreadNext, LockQueue, FindNull, FindJob, ReadHead, Advance, LeaveLoop, Go, UnlockQueue,
              ProcessJob, FreeJob, Step, mainVars
<1>4. QED
  BY <1>1, <1>2, <1>3 DEF QueueNext, QueueTerminating

(* The invariant holds in every reachable state. *)
THEOREM QueueInvariance == QueueSpec => []QueueIInv
<1>1. Init("create") => QueueIInv
  BY QueueInitInv
<1>2. QueueIInv /\ [QueueNext]_queueVars => QueueIInv'
  BY QueueCoreStep, QueueLabelsStep DEF QueueIInv
<1>3. QED
  BY <1>1, <1>2, PTL DEF QueueSpec

(* Type correctness of every variable of thread_job_queue.c. *)
THEOREM QueueTypeCorrect == QueueSpec => []QueueTypeOK
<1>1. QueueIInv => QueueTypeOK
  BY DEF QueueIInv, CoreInv, Types, QueueLabels, QueueTypeOK, ListTypeOK
<1>2. QED
  BY <1>1, QueueInvariance, PTL

(* The list always holds exactly the jobs enqueued and not yet taken. *)
THEOREM QueueListCorrect == QueueSpec => []ListInv
<1>1. QueueIInv => ListInv
  BY DEF QueueIInv, CoreInv
<1>2. QED
  BY <1>1, QueueInvariance, PTL

(* No job is ever taken by two threads or processed twice. *)
THEOREM QueueProcessedAtMostOnce == QueueSpec => []NoDoubleTake
<1>1. QueueIInv => NoDoubleTake
  BY CoreNoDoubleTake DEF QueueIInv
<1>2. QED
  BY <1>1, QueueInvariance, PTL

(* No freed job is followed, processed or freed again. *)
THEOREM QueueNothingUsedAfterFree == QueueSpec => []NoUseAfterFree
<1>1. QueueIInv => NoUseAfterFree
  BY CoreNoUseAfterFree DEF QueueIInv
<1>2. QED
  BY <1>1, QueueInvariance, PTL

(* When main() returns, no job was lost or leaked: what was not processed and
   freed is still on the list. *)
THEOREM QueueJobsAccounted == QueueSpec => []EveryJobAccounted
<1>1. QueueIInv => EveryJobAccounted
  <2>1. mpc = "returned" => Published = Jobs
    BY DEF Published
  <2>2. QED
    BY <2>1, CoreAccounted DEF QueueIInv, JoinInv, EveryJobAccounted
<1>2. QED
  BY <1>1, QueueInvariance, PTL

-----------------------------------------------------------------------------
LEMMA QueuePoolStep ==
  ASSUME QueueIInv, [QueueNext]_queueVars
  PROVE  [Pool!Next]_(Pool!poolVars)
<1> USE NumJobsAssumption, SizeAssumption
<1>1. CASE UNCHANGED queueVars
  <2>1. \A t \in Threads : Holding(t)' = Holding(t)
    BY <1>1 DEF queueVars, threadVars, Holding
  <2>2. Published' = Published /\ UNCHANGED printed
    BY <1>1 DEF queueVars, mainVars, listVars, Published
  <2>3. QED
    BY <2>1, <2>2, QueuedUnchanged, PoolStutter
<1>2. CASE QueueMainNext
  <2>1. CASE Publish
    <3>1. i \in Pool!Jobs
      BY <2>1, PublishFacts DEF QueueIInv, Pool!Jobs, Jobs
    <3>2. QED
      BY <2>1, <3>1, PoolPublish DEF QueueIInv, Pool!Next
  <2>2. CASE QueueMainNext /\ ~ Publish
    <3>1. QuietMain
      BY <2>2 DEF QueueMainNext, QuietMain
    <3>2. mpc = "create" => tpc[i] = "unborn"
      BY DEF QueueIInv, CoreInv, Types, ListTypeOK, CreateInv, Threads
    <3>3. QED
      BY <3>1, <3>2, PoolQuietMain DEF QueueIInv
  <2>3. QED
    BY <1>2, <2>1, <2>2
<1>3. ASSUME NEW t \in Threads, QueueThreadNext(t)
      PROVE  [Pool!Next]_(Pool!poolVars)
  <2>1. CASE Advance(t)
    <3>1. job_queue \in Pool!Jobs /\ t \in Pool!Threads
      BY <2>1 DEF Advance, Pool!Jobs, Jobs, Pool!Threads, Threads
    <3>2. QED
      BY <2>1, <3>1, PoolAdvance DEF QueueIInv, Pool!Next
  <2>2. CASE ProcessJob(t)
    <3>1. Queued' = Queued
      BY <2>2, ProcessKeepsQueued DEF QueueIInv
    <3>2. Pool!Finish(t)
      BY <2>2, <3>1, PoolProcessJob DEF QueueIInv
    <3>3. QED
      BY <3>2 DEF Pool!Next, Pool!Threads, Threads
  <2>3. CASE FindNull(t) \/ LeaveLoop(t)
    <3>1. \A u \in Threads : Holding(u)' = Holding(u)
      BY <2>3 DEF QueueIInv, CoreInv, Types, ListTypeOK, FindNull, LeaveLoop, Step, Holding
    <3>2. Published' = Published /\ UNCHANGED printed
      BY <2>3 DEF FindNull, LeaveLoop, mainVars, listVars, Published
    <3>3. QED
      BY <3>1, <3>2, QueuedUnchanged, PoolStutter
  <2>4. CASE LockQueue(t) \/ FindJob(t) \/ Go(t) \/ FreeJob(t, "lock")
    <3>1. QuietThread(t)
      BY <2>4 DEF QuietThread, FindJob, Go
    <3>2. QED
      BY <3>1, PoolQuietThread DEF QueueIInv
  <2>5. QED
    BY <1>3, <2>1, <2>2, <2>3, <2>4 DEF QueueThreadNext
<1>4. QED
  BY <1>1, <1>2, <1>3 DEF QueueNext, QueueTerminating

(* thread_job_queue.c implements the pool: jobs are handed out once each, the
   youngest first, and what is taken is processed. *)
THEOREM QueueRefinement == QueueSpec => ImplementsPool
<1>1. Init("create") => Pool!Init
  BY PoolInit
<1>2. QueueIInv /\ [QueueNext]_queueVars => [Pool!Next]_(Pool!poolVars)
  BY QueuePoolStep
<1>3. QED
  BY <1>1, <1>2, QueueInvariance, PTL DEF QueueSpec, ImplementsPool, Pool!Spec

-----------------------------------------------------------------------------
(* thread_job_queue_sem.c *)

SemLabels == /\ tpc \in [Threads -> SemThreadLabels]
          /\ mpc \in SemMainLabels
          /\ job_count \in Nat

SemIInv == CoreInv /\ SemLabels /\ CreateInv /\ UnlockInv /\ SemCountsJobs

LEMMA Finite == IsFiniteSet(LetIn) /\ IsFiniteSet(Queued)
<1>1. IsFiniteSet(Threads) /\ IsFiniteSet(Jobs)
  BY FS_Interval, NumJobsAssumption, SizeAssumption DEF Threads, Jobs
<1>2. LetIn \subseteq Threads
  BY DEF LetIn
<1>3. QED
  BY <1>1, <1>2, QueuedJobs, FS_Subset

LEMMA SemInitInv ==
  ASSUME SemInit
  PROVE  SemIInv
<1>1. CoreInv /\ CreateInv /\ Queued = {}
  BY CoreInit DEF SemInit
<1>2. SemLabels /\ UnlockInv
  BY SizeAssumption
  DEF SemInit, Init, SemLabels, SemThreadLabels, SemMainLabels, UnlockInv, Threads
<1>3. SemCountsJobs
  <2>1. LetIn = {} /\ ToPost = 0 /\ job_count = 0
    BY DEF SemInit, Init, LetIn, ToPost
  <2>2. Cardinality(LetIn) = 0 /\ Cardinality(Queued) = 0
    BY <1>1, <2>1, FS_EmptySet
  <2>3. QED
    BY <2>1, <2>2 DEF SemCountsJobs
<1>4. QED
  BY <1>1, <1>2, <1>3 DEF SemIInv

-----------------------------------------------------------------------------
(* The actions that only this program has, and the list. *)

SemOnly(t) == SemWait(t) \/ UnlockThenPost \/ SemPost

LEMMA SemOnlyFacts ==
  ASSUME CoreInv, NEW t \in Threads, SemOnly(t)
  PROVE  /\ Published' = Published
         /\ \A u \in Threads : Holding(u)' = Holding(u) /\ Owns(u)' = Owns(u)
         /\ UNCHANGED listVars
         /\ Queued' = Queued
<1> USE NumJobsAssumption, SizeAssumption DEF Threads, Jobs, NULL
<1>1. Published' = Published
  BY DEF CoreInv, Types, ListTypeOK, SemOnly, SemWait, UnlockThenPost, SemPost, NextJob, MainStep,
         mainVars, Published
<1>2. \A u \in Threads : Holding(u)' = Holding(u) /\ Owns(u)' = Owns(u)
  BY DEF CoreInv, Types, ListTypeOK, SemOnly, SemWait, UnlockThenPost, SemPost, Step, threadVars,
         Holding, Owns
<1>3. UNCHANGED listVars
  BY DEF SemOnly, SemWait, UnlockThenPost, SemPost
<1>4. QED
  BY <1>1, <1>2, <1>3, QueuedUnchanged DEF listVars

LEMMA PostFacts ==
  ASSUME SemPost
  PROVE  \/ mpc' = "malloc" /\ i' = i + 1 /\ i + 1 < NumJobs
         \/ mpc' = "join" /\ i' = 0
  BY DEF SemPost, NextJob

LEMMA CoreSemOnly ==
  ASSUME CoreInv, NEW t \in Threads, SemOnly(t)
  PROVE  CoreInv'
<1> USE NumJobsAssumption, SizeAssumption
    DEF Threads, Jobs, NULL, SemOnly, SemWait, UnlockThenPost, SemPost, NextJob, MainStep, Step,
        mainVars, threadVars, listVars
<1>1. Types'
  <2>1. CASE SemWait(t)
    BY <2>1 DEF CoreInv, Types, ListTypeOK, AnyThreadLabel, AnyMainLabel, Owners
  <2>2. CASE UnlockThenPost
    BY <2>2 DEF CoreInv, Types, ListTypeOK, AnyThreadLabel, AnyMainLabel, Owners
  <2>3. CASE SemPost
    <3>1. i \in Nat /\ i < NumJobs /\ 0 < Size
      BY <2>3, SizeAssumption DEF CoreInv, Types, ListTypeOK
    <3>2. \/ mpc' = "malloc" /\ i' = i + 1 /\ i + 1 < NumJobs
          \/ mpc' = "join" /\ i' = 0
      BY <2>3, PostFacts
    <3>3. /\ mpc' \in AnyMainLabel /\ i' \in Nat
          /\ mpc' \in {"create", "flaglock", "setflag", "broadcast", "flagunlock", "join"} => i' < Size
          /\ mpc' \in {"malloc", "lock", "link", "publish", "unlock", "post"} => i' < NumJobs
      BY <3>1, <3>2 DEF AnyMainLabel
    <3>4. QED
      BY <2>3, <3>3 DEF CoreInv, Types, ListTypeOK
  <2>4. QED
    BY <2>1, <2>2, <2>3
<1>2. MutexInv'
  <2>1. CASE SemWait(t)
    BY <2>1 DEF CoreInv, Types, ListTypeOK, MutexInv, InThread, InMain, Nobody, Main
  <2>2. CASE UnlockThenPost
    BY <2>2 DEF CoreInv, Types, ListTypeOK, MutexInv, InThread, InMain, Nobody, Main
  <2>3. CASE SemPost
    BY <2>3 DEF CoreInv, Types, ListTypeOK, MutexInv, InThread, InMain, Nobody, Main
  <2>4. QED
    BY <2>1, <2>2, <2>3
<1>3. LocalInv'
  <2>1. CASE SemWait(t)
    BY <2>1 DEF CoreInv, Types, ListTypeOK, LocalInv
  <2>2. CASE UnlockThenPost
    BY <2>2 DEF CoreInv, Types, ListTypeOK, LocalInv
  <2>3. CASE SemPost
    BY <2>3 DEF CoreInv, Types, ListTypeOK, LocalInv
  <2>4. QED
    BY <2>1, <2>2, <2>3
<1>4. OwnerInv'
  BY SemOnlyFacts DEF CoreInv, OwnerInv
<1>5. ListInv'
  BY SemOnlyFacts, ListInvKept DEF CoreInv
<1>6. HeapInv'
  BY SemOnlyFacts DEF CoreInv, Types, ListTypeOK, HeapInv
<1>7. QED
  BY <1>1, <1>2, <1>3, <1>4, <1>5, <1>6 DEF CoreInv

LEMMA SemCoreStep ==
  ASSUME SemIInv, [SemNext]_semVars
  PROVE  CoreInv'
<1>1. CASE UNCHANGED semVars
  BY <1>1 DEF semVars, listVars, threadVars, mainVars, SemIInv, CoreInv, Types, ListTypeOK, MutexInv,
              InThread, InMain, LocalInv, OwnerInv, ListInv, HeapInv, IsTop, Queued, Published,
              Done, Holding, Owns
<1>2. CASE SemMainNext
  <2>1. CASE CreateThread("wait")
    <3>1. tpc[i] = "unborn"
      BY <2>1, SizeAssumption DEF SemIInv, CoreInv, Types, ListTypeOK, CreateInv, CreateThread, Threads
    <3>2. QED
      BY <2>1, <3>1, CoreCreateThread DEF SemIInv
  <2>2. CASE UnlockThenPost \/ SemPost
    <3>1. 0 \in Threads
      BY SizeAssumption DEF Threads
    <3>2. QED
      BY <2>2, <3>1, CoreSemOnly DEF SemOnly, SemIInv
  <2>3. QED
    BY <1>2, <2>1, <2>2, CoreNewJob, CoreLockEnqueue, CoreLink, CorePublish, CoreJoinThread
       DEF SemMainNext, SemIInv
<1>3. ASSUME NEW t \in Threads, SemThreadNext(t)
      PROVE  CoreInv'
  <2>1. CASE UnlockQueue(t)
    <3>1. next_job[t] \in Jobs
      BY <2>1 DEF SemIInv, UnlockInv, UnlockQueue, Step
    <3>2. QED
      BY <2>1, <3>1, CoreUnlockQueue DEF SemIInv
  <2>2. QED
    BY <1>3, <2>1, CoreSemOnly, CoreLockQueue, CoreReadHead, CoreAdvance, CoreProcessJob, CoreFreeJob
       DEF SemThreadNext, SemOnly, SemIInv
<1>4. QED
  BY <1>1, <1>2, <1>3 DEF SemNext

LEMMA SemLabelsStep ==
  ASSUME SemIInv, [SemNext]_semVars
  PROVE  SemLabels' /\ CreateInv' /\ UnlockInv'
<1> USE NumJobsAssumption, SizeAssumption
    DEF SemIInv, CoreInv, Types, ListTypeOK, SemLabels, CreateInv, UnlockInv, SemThreadLabels, SemMainLabels, Threads
<1>1. CASE UNCHANGED semVars
  BY <1>1 DEF semVars, threadVars, mainVars
<1>2. CASE SemMainNext
  <2>1. CASE CreateThread("wait") /\ UNCHANGED job_count
    BY <2>1 DEF CreateThread, threadVars
  <2>2. CASE UnlockThenPost \/ SemPost
    BY <2>2 DEF UnlockThenPost, SemPost, NextJob, MainStep, threadVars
  <2>3. CASE /\ NewJob \/ LockEnqueue \/ Link \/ Publish \/ JoinThread("returned")
             /\ UNCHANGED job_count
    BY <2>3 DEF NewJob, LockEnqueue, Link, Publish, JoinThread, MainStep, threadVars
  <2>4. QED
    BY <1>2, <2>1, <2>2, <2>3 DEF SemMainNext
<1>3. ASSUME NEW t \in Threads, SemThreadNext(t)
      PROVE  SemLabels' /\ CreateInv' /\ UnlockInv'
  <2>1. CASE SemWait(t)
    BY <2>1 DEF SemWait, Step, mainVars
  <2>2. CASE Advance(t) /\ UNCHANGED job_count
    BY <2>2 DEF Advance, Step, mainVars, LocalInv, threadVars
  <2>3. CASE /\ LockQueue(t) \/ ReadHead(t) \/ UnlockQueue(t) \/ ProcessJob(t) \/ FreeJob(t, "wait")
             /\ UNCHANGED job_count
    <3>0. /\ \E to \in SemThreadLabels : tpc[t] # "unborn" /\ tpc' = [tpc EXCEPT ![t] = to]
          /\ UNCHANGED mainVars
      BY <2>3 DEF LockQueue, ReadHead, UnlockQueue, ProcessJob, FreeJob, Step
    <3>1. SemLabels' /\ CreateInv'
      BY <2>3, <3>0 DEF mainVars
    <3>2. \A u \in Threads : tpc'[u] = "unlock" => tpc[u] = "unlock" /\ next_job'[u] = next_job[u]
      BY <2>3 DEF LockQueue, ReadHead, UnlockQueue, ProcessJob, FreeJob, Step
    <3>3. QED
      BY <3>1, <3>2
  <2>4. QED
    BY <1>3, <2>1, <2>2, <2>3 DEF SemThreadNext
<1>4. QED
  BY <1>1, <1>2, <1>3 DEF SemNext

-----------------------------------------------------------------------------
(* How each step moves the three terms that make up the number of jobs. *)
LEMMA SemCountStep ==
  ASSUME SemIInv, [SemNext]_semVars
  PROVE  SemCountsJobs'
<1> USE NumJobsAssumption, SizeAssumption
<1>0. /\ job_count \in Nat /\ ToPost \in Nat
      /\ Cardinality(LetIn) \in Nat /\ Cardinality(Queued) \in Nat
  BY Finite, FS_CardinalityType DEF SemIInv, SemLabels, ToPost
<1>1. CASE UNCHANGED semVars
  BY <1>1 DEF semVars, listVars, threadVars, mainVars, SemIInv, SemCountsJobs, LetIn, ToPost, Queued,
              Published, Done, Holding
<1>2. CASE SemMainNext
  <2>1. CASE UnlockThenPost
    <3>1. Queued' = Queued /\ LetIn' = LetIn /\ ToPost' = ToPost /\ job_count' = job_count
      <4>1. 0 \in Threads
        BY DEF Threads
      <4>2. QED
        BY <2>1, <4>1, SemOnlyFacts
           DEF SemOnly, UnlockThenPost, MainStep, LetIn, threadVars, ToPost, SemIInv
    <3>2. QED
      BY <3>1 DEF SemIInv, SemCountsJobs
  <2>2. CASE SemPost
    <3>1. /\ Queued' = Queued /\ LetIn' = LetIn /\ ToPost = 1 /\ ToPost' = 0
          /\ job_count' = job_count + 1
      <4>1. 0 \in Threads
        BY DEF Threads
      <4>2. QED
        BY <2>2, <4>1, SemOnlyFacts DEF SemOnly, SemPost, NextJob, LetIn, threadVars, ToPost, SemIInv
    <3>2. QED
      BY <1>0, <3>1 DEF SemIInv, SemCountsJobs
  <2>3. CASE Publish /\ UNCHANGED job_count
    <3>1. /\ Queued' = Queued \cup {i} /\ i \notin Queued
          /\ LetIn' = LetIn /\ ToPost = 0 /\ ToPost' = 1
      BY <2>3, PublishFacts DEF Publish, MainStep, LetIn, threadVars, ToPost, SemIInv
    <3>2. Cardinality(Queued') = Cardinality(Queued) + 1
      BY <3>1, Finite, FS_AddElement
    <3>3. QED
      BY <1>0, <2>3, <3>1, <3>2 DEF SemIInv, SemCountsJobs
  <2>4. CASE /\ CreateThread("wait") \/ NewJob \/ LockEnqueue \/ Link \/ JoinThread("returned")
             /\ UNCHANGED job_count
    <3>1. Queued' = Queued
      <4>1. mpc = "create" => tpc[i] = "unborn"
        BY DEF SemIInv, CoreInv, Types, ListTypeOK, CreateInv, Threads
      <4>2. QuietMain
        BY <2>4 DEF QuietMain
      <4>3. QED
        BY <4>1, <4>2, PoolQuietMain DEF SemIInv, Pool!poolVars
    <3>2. LetIn' = LetIn
      BY <2>4 DEF SemIInv, CoreInv, Types, ListTypeOK, CreateInv, Threads, CreateThread, NewJob,
                  LockEnqueue, Link, JoinThread, LetIn, threadVars
    <3>3. ToPost' = ToPost
      BY <2>4 DEF CreateThread, NewJob, LockEnqueue, Link, JoinThread, MainStep, ToPost
    <3>4. QED
      BY <2>4, <3>1, <3>2, <3>3 DEF SemIInv, SemCountsJobs
  <2>5. QED
    BY <1>2, <2>1, <2>2, <2>3, <2>4 DEF SemMainNext
<1>3. ASSUME NEW t \in Threads, SemThreadNext(t)
      PROVE  SemCountsJobs'
  <2>0. ToPost' = ToPost
    BY <1>3 DEF SemThreadNext, SemWait, LockQueue, ReadHead, Advance, UnlockQueue, ProcessJob, FreeJob,
                mainVars, ToPost
  <2>1. CASE SemWait(t)
    <3>1. Queued' = Queued
      BY <2>1, SemOnlyFacts DEF SemOnly, SemIInv
    <3>2. LetIn' = LetIn \cup {t} /\ t \notin LetIn
      BY <2>1 DEF SemIInv, SemLabels, SemWait, Step, LetIn
    <3>3. Cardinality(LetIn') = Cardinality(LetIn) + 1
      BY <3>2, Finite, FS_AddElement
    <3>4. QED
      BY <1>0, <2>0, <2>1, <3>1, <3>3 DEF SemIInv, SemCountsJobs, SemWait
  <2>2. CASE Advance(t) /\ UNCHANGED job_count
    <3>1. job_queue \in Queued /\ Queued' = Queued \ {job_queue}
      BY <2>2, AdvanceFacts DEF SemIInv
    <3>2. t \in LetIn /\ LetIn' = LetIn \ {t}
      BY <2>2 DEF SemIInv, SemLabels, Advance, Step, LetIn
    <3>3. /\ Cardinality(Queued') = Cardinality(Queued) - 1
          /\ Cardinality(LetIn') = Cardinality(LetIn) - 1
      BY <3>1, <3>2, Finite, FS_RemoveElement
    <3>4. QED
      BY <1>0, <2>0, <2>2, <3>3 DEF SemIInv, SemCountsJobs
  <2>3. CASE /\ LockQueue(t) \/ ReadHead(t) \/ UnlockQueue(t) \/ ProcessJob(t) \/ FreeJob(t, "wait")
             /\ UNCHANGED job_count
    <3>1. Queued' = Queued
      <4>1. CASE ProcessJob(t)
        BY <4>1, ProcessKeepsQueued DEF SemIInv
      <4>2. CASE LockQueue(t) \/ ReadHead(t) \/ UnlockQueue(t) \/ FreeJob(t, "wait")
        BY <4>2, PoolQuietThread DEF QuietThread, SemIInv, Pool!poolVars
      <4>3. QED
        BY <2>3, <4>1, <4>2
    <3>2. LetIn' = LetIn
      BY <2>3 DEF SemIInv, SemLabels, LockQueue, ReadHead, UnlockQueue, ProcessJob, FreeJob, Step, LetIn
    <3>3. QED
      BY <2>0, <2>3, <3>1, <3>2 DEF SemIInv, SemCountsJobs
  <2>4. QED
    BY <1>3, <2>1, <2>2, <2>3 DEF SemThreadNext
<1>4. QED
  BY <1>1, <1>2, <1>3 DEF SemNext

(* The invariant holds in every reachable state. *)
THEOREM SemInvariance == SemSpec => []SemIInv
<1>1. SemInit => SemIInv
  BY SemInitInv
<1>2. SemIInv /\ [SemNext]_semVars => SemIInv'
  BY SemCoreStep, SemLabelsStep, SemCountStep DEF SemIInv
<1>3. QED
  BY <1>1, <1>2, PTL DEF SemSpec

(* Type correctness of every variable of thread_job_queue_sem.c. *)
THEOREM SemTypeCorrect == SemSpec => []SemTypeOK
<1>1. SemIInv => SemTypeOK
  BY DEF SemIInv, CoreInv, Types, SemLabels, SemTypeOK, ListTypeOK
<1>2. QED
  BY <1>1, SemInvariance, PTL

(* The semaphore and the threads it let in always add up to the jobs listed. *)
THEOREM SemaphoreCorrect == SemSpec => []SemCountsJobs
<1>1. SemIInv => SemCountsJobs
  BY DEF SemIInv
<1>2. QED
  BY <1>1, SemInvariance, PTL

LEMMA LetInFindsJob ==
  ASSUME SemIInv
  PROVE  NoNullDeref
<1>1. SUFFICES ASSUME NEW t \in Threads, tpc[t] \in {"head", "advance"}
               PROVE  job_queue # NULL
  BY DEF NoNullDeref
<1>2. t \in LetIn
  BY <1>1 DEF LetIn
<1>3. Cardinality(LetIn) # 0 /\ Cardinality(LetIn) \in Nat /\ Cardinality(Queued) \in Nat
  BY <1>2, Finite, FS_EmptySet, FS_CardinalityType
<1>4. Cardinality(Queued) # 0
  BY <1>3 DEF SemIInv, SemCountsJobs, SemLabels, ToPost
<1>5. Queued # {}
  BY <1>4, FS_EmptySet
<1>6. job_queue \in Queued
  BY <1>5 DEF SemIInv, CoreInv, ListInv, IsTop
<1>7. QED
  BY <1>6, QueuedJobs DEF Jobs, NULL

(* A thread that passed sem_wait() never follows a NULL head. *)
THEOREM NeverNull == SemSpec => []NoNullDeref
<1>1. SemIInv => NoNullDeref
  BY LetInFindsJob
<1>2. QED
  BY <1>1, SemInvariance, PTL

(* The list always holds exactly the jobs enqueued and not yet taken. *)
THEOREM SemListCorrect == SemSpec => []ListInv
<1>1. SemIInv => ListInv
  BY DEF SemIInv, CoreInv
<1>2. QED
  BY <1>1, SemInvariance, PTL

(* No job is used after it was freed. *)
THEOREM SemNothingUsedAfterFree == SemSpec => []NoUseAfterFree
<1>1. SemIInv => NoUseAfterFree
  BY CoreNoUseAfterFree DEF SemIInv
<1>2. QED
  BY <1>1, SemInvariance, PTL

-----------------------------------------------------------------------------
(* Every step is a step of the pool or changes nothing of it. *)
LEMMA SemPoolStep ==
  ASSUME SemIInv, [SemNext]_semVars
  PROVE  [Pool!Next]_(Pool!poolVars)
<1> USE NumJobsAssumption, SizeAssumption
<1>1. CASE UNCHANGED semVars
  <2>1. \A t \in Threads : Holding(t)' = Holding(t)
    BY <1>1 DEF semVars, threadVars, Holding
  <2>2. Published' = Published /\ UNCHANGED printed
    BY <1>1 DEF semVars, mainVars, listVars, Published
  <2>3. QED
    BY <2>1, <2>2, QueuedUnchanged, PoolStutter
<1>2. ASSUME NEW t \in Threads, SemOnly(t)
      PROVE  [Pool!Next]_(Pool!poolVars)
  BY <1>2, SemOnlyFacts, PoolStutter DEF SemIInv, listVars
<1>3. CASE SemMainNext
  <2>1. CASE Publish
    <3>1. i \in Pool!Jobs
      BY <2>1, PublishFacts DEF SemIInv, Pool!Jobs, Jobs
    <3>2. QED
      BY <2>1, <3>1, PoolPublish DEF SemIInv, Pool!Next
  <2>2. CASE UnlockThenPost \/ SemPost
    <3>1. 0 \in Threads
      BY DEF Threads
    <3>2. QED
      BY <1>2, <2>2, <3>1 DEF SemOnly
  <2>3. CASE CreateThread("wait") \/ NewJob \/ LockEnqueue \/ Link \/ JoinThread("returned")
    <3>1. QuietMain
      BY <2>3 DEF QuietMain
    <3>2. mpc = "create" => tpc[i] = "unborn"
      BY DEF SemIInv, CoreInv, Types, ListTypeOK, CreateInv, Threads
    <3>3. QED
      BY <3>1, <3>2, PoolQuietMain DEF SemIInv
  <2>4. QED
    BY <1>3, <2>1, <2>2, <2>3 DEF SemMainNext
<1>4. ASSUME NEW t \in Threads, SemThreadNext(t)
      PROVE  [Pool!Next]_(Pool!poolVars)
  <2>1. CASE Advance(t)
    <3>1. t \in Pool!Threads
      BY DEF Pool!Threads, Threads
    <3>2. job_queue \in Pool!Jobs
      BY <2>1, AdvanceFacts, QueuedJobs DEF SemIInv, Pool!Jobs, Jobs
    <3>3. QED
      BY <2>1, <3>1, <3>2, PoolAdvance DEF SemIInv, Pool!Next
  <2>2. CASE ProcessJob(t)
    <3>1. Queued' = Queued
      BY <2>2, ProcessKeepsQueued DEF SemIInv
    <3>2. Pool!Finish(t)
      BY <2>2, <3>1, PoolProcessJob DEF SemIInv
    <3>3. QED
      BY <3>2 DEF Pool!Next, Pool!Threads, Threads
  <2>3. CASE LockQueue(t) \/ ReadHead(t) \/ UnlockQueue(t) \/ FreeJob(t, "wait")
    <3>1. QuietThread(t)
      BY <2>3 DEF QuietThread
    <3>2. QED
      BY <3>1, PoolQuietThread DEF SemIInv
  <2>4. QED
    BY <1>2, <1>4, <2>1, <2>2, <2>3 DEF SemThreadNext, SemOnly
<1>5. QED
  BY <1>1, <1>3, <1>4 DEF SemNext

(* thread_job_queue_sem.c implements the pool as well: jobs are handed out once
   each, the youngest first, and what is taken is processed. *)
THEOREM SemRefinement == SemSpec => ImplementsPool
<1>1. SemInit => Pool!Init
  BY PoolInit DEF SemInit
<1>2. SemIInv /\ [SemNext]_semVars => [Pool!Next]_(Pool!poolVars)
  BY SemPoolStep
<1>3. QED
  BY <1>1, <1>2, SemInvariance, PTL DEF SemSpec, ImplementsPool, Pool!Spec

-----------------------------------------------------------------------------
(* thread_job_queue_improved.c *)

FlagLabels == /\ tpc \in [Threads -> FlagThreadLabels]
          /\ mpc \in FlagMainLabels
          /\ thread_flag \in {0, 1}
          /\ thread_flag_mutex \in Owners
          /\ waiters \subseteq Threads

FlagCreateInv == CreateInv /\ (mpc \in {"flaglock", "setflag", "broadcast", "flagunlock"} => i = 0)

(* thread_flag_mutex is held exactly inside its critical sections. *)
FlagMutexInv ==
  /\ \A t \in Threads : tpc[t] \in {"test", "condwait", "pass"} <=> thread_flag_mutex = t
  /\ mpc \in {"setflag", "broadcast", "flagunlock"} <=> thread_flag_mutex = Main

(* The flag is set after the last job, nobody gets past the test before, and
   who decided to wait did so while the flag was clear. *)
FlagInv ==
  /\ thread_flag = 1 <=> mpc \in {"broadcast", "flagunlock", "join", "returned"}
  /\ \A t \in Threads :
       /\ tpc[t] \notin {"unborn", "flaglock", "test", "condwait", "sleep"} => thread_flag = 1
       /\ tpc[t] = "condwait" => thread_flag = 0
       /\ t \in waiters => tpc[t] = "sleep"
  /\ mpc \in {"flagunlock", "join", "returned"} => waiters = {}

(* A thread leaves only when nothing is left to do. *)
EmptyInv == (\E t \in Threads : tpc[t] \in {"empty", "exited"}) => job_queue = NULL

ProgramInv == FlagLabels /\ FlagCreateInv /\ JoinInv /\ UnlockInv /\ FlagMutexInv /\ FlagInv /\ EmptyInv

FlagIInv == CoreInv /\ ProgramInv

LEMMA FlagInitInv ==
  ASSUME FlagInit
  PROVE  FlagIInv
<1> USE SizeAssumption DEF FlagInit, Init, Threads, Nobody, Main
<1>1. CoreInv /\ CreateInv /\ JoinInv
  BY CoreInit
<1>2. FlagLabels /\ FlagCreateInv /\ UnlockInv
  BY <1>1 DEF FlagLabels, FlagThreadLabels, FlagMainLabels, FlagCreateInv, UnlockInv, Owners
<1>3. FlagMutexInv /\ FlagInv /\ EmptyInv
  BY DEF FlagMutexInv, FlagInv, EmptyInv
<1>4. QED
  BY <1>1, <1>2, <1>3 DEF FlagIInv, ProgramInv

-----------------------------------------------------------------------------
(* The actions that only this program has leave the list alone. *)

FlagThread(t) == LockFlag(t) \/ TestFlag(t) \/ CondWait(t) \/ CondReturn(t) \/ UnlockFlag(t)
ListThread(t) == FindEmpty(t) \/ Break(t)
FlagMain == LockSetFlag \/ SetFlag \/ Broadcast \/ UnlockSetFlag

LEMMA CoreFlagThread ==
  ASSUME CoreInv, NEW t \in Threads, FlagThread(t) \/ ListThread(t)
  PROVE  CoreInv' /\ UNCHANGED Pool!poolVars
<1> USE NumJobsAssumption, SizeAssumption DEF Threads, Jobs, NULL
<1>0. /\ \E from, to \in {"flaglock", "test", "condwait", "sleep", "pass", "lock", "head", "empty",
                          "exited"} : tpc[t] = from /\ tpc' = [tpc EXCEPT ![t] = to]
      /\ UNCHANGED <<listVars, next_job, mainVars>>
  BY DEF FlagThread, ListThread, LockFlag, TestFlag, CondWait, CondReturn, UnlockFlag, FindEmpty,
         Break, Step
<1>1. Types'
  BY <1>0 DEF CoreInv, Types, ListTypeOK, FlagThread, ListThread, LockFlag, TestFlag, CondWait,
              CondReturn, UnlockFlag, FindEmpty, Break, listVars, mainVars, AnyThreadLabel, Owners
<1>2. MutexInv'
  <2>1. CASE FlagThread(t)
    BY <2>1 DEF CoreInv, Types, ListTypeOK, MutexInv, InThread, InMain, FlagThread, LockFlag, TestFlag,
                CondWait, CondReturn, UnlockFlag, Step, mainVars
  <2>2. CASE ListThread(t)
    BY <2>2 DEF CoreInv, Types, ListTypeOK, MutexInv, InThread, InMain, ListThread, FindEmpty, Break,
                Step, mainVars, Nobody, Main
  <2>3. QED
    BY <2>1, <2>2
<1>3. LocalInv'
  BY <1>0 DEF CoreInv, Types, ListTypeOK, LocalInv, listVars, mainVars
<1>4. /\ Published' = Published
      /\ \A u \in Threads : Holding(u)' = Holding(u) /\ Owns(u)' = Owns(u)
  BY <1>0 DEF CoreInv, Types, ListTypeOK, Holding, Owns, Published, mainVars
<1>5. Queued' = Queued
  BY <1>0, <1>4, QueuedUnchanged DEF listVars
<1>6. OwnerInv'
  BY <1>0, <1>4 DEF CoreInv, OwnerInv, listVars
<1>7. ListInv'
  BY <1>0, <1>5, ListInvKept DEF CoreInv, listVars
<1>8. HeapInv'
  BY <1>0, <1>4, <1>5 DEF CoreInv, HeapInv, listVars, mainVars
<1>9. UNCHANGED Pool!poolVars
  BY <1>0, <1>4, <1>5, PoolStutter DEF listVars
<1>10. QED
  BY <1>1, <1>2, <1>3, <1>6, <1>7, <1>8, <1>9 DEF CoreInv

LEMMA CoreFlagMain ==
  ASSUME CoreInv, FlagMain \/ (\E t \in Threads : SpuriousWakeup(t))
  PROVE  CoreInv' /\ UNCHANGED Pool!poolVars
<1> USE NumJobsAssumption, SizeAssumption DEF Threads, Jobs, NULL
<1>0. /\ \/ UNCHANGED mpc
         \/ /\ mpc \in {"flaglock", "setflag", "broadcast", "flagunlock"}
            /\ mpc' \in {"setflag", "broadcast", "flagunlock", "join"}
      /\ UNCHANGED <<listVars, job_queue_mutex, threadVars>>
      /\ UNCHANGED i
  BY DEF FlagMain, LockSetFlag, SetFlag, Broadcast, UnlockSetFlag, SpuriousWakeup, MainStep, mainVars
<1>1. Types'
  BY <1>0 DEF CoreInv, Types, ListTypeOK, listVars, threadVars, AnyMainLabel
<1>2. MutexInv'
  BY <1>0 DEF CoreInv, MutexInv, InThread, InMain, threadVars
<1>3. LocalInv'
  BY <1>0 DEF CoreInv, LocalInv, listVars, threadVars
<1>4. /\ Published' = Published
      /\ \A u \in Threads : Holding(u)' = Holding(u) /\ Owns(u)' = Owns(u)
  BY <1>0 DEF Holding, Owns, Published, threadVars
<1>5. Queued' = Queued
  BY <1>0, <1>4, QueuedUnchanged DEF listVars
<1>6. OwnerInv'
  BY <1>0, <1>4 DEF CoreInv, OwnerInv, listVars
<1>7. ListInv'
  BY <1>0, <1>5, ListInvKept DEF CoreInv, listVars
<1>8. HeapInv'
  BY <1>0, <1>4, <1>5 DEF CoreInv, HeapInv, listVars
<1>9. UNCHANGED Pool!poolVars
  BY <1>0, <1>4, <1>5, PoolStutter DEF listVars
<1>10. QED
  BY <1>1, <1>2, <1>3, <1>6, <1>7, <1>8, <1>9 DEF CoreInv

LEMMA CoreStutter ==
  ASSUME CoreInv, UNCHANGED flagVars
  PROVE  CoreInv' /\ UNCHANGED Pool!poolVars
BY DEF flagVars, listVars, threadVars, mainVars, CoreInv, Types, ListTypeOK, MutexInv, InThread, InMain,
       LocalInv, OwnerInv, ListInv, HeapInv, IsTop, Queued, Published, Done, Holding, Owns,
       Pool!poolVars

LEMMA FlagCoreStep ==
  ASSUME FlagIInv, [FlagNext]_flagVars
  PROVE  CoreInv' /\ [Pool!Next]_(Pool!poolVars)
<1> USE NumJobsAssumption, SizeAssumption
<1>1. CASE UNCHANGED flagVars
  BY <1>1, CoreStutter DEF FlagIInv
<1>2. CASE FlagMainNext
  <2>1. CASE CreateThread("flaglock")
    <3>1. tpc[i] = "unborn"
      BY <2>1 DEF FlagIInv, CoreInv, ProgramInv, Types, ListTypeOK, FlagCreateInv, CreateInv, CreateThread, Threads
    <3>2. QED
      BY <2>1, <3>1, CoreCreateThread, PoolQuietMain DEF FlagIInv, QuietMain
  <2>2. CASE FlagMain
    BY <2>2, CoreFlagMain DEF FlagIInv
  <2>3. CASE Publish
    <3>1. i \in Pool!Jobs
      BY <2>3, PublishFacts DEF FlagIInv, Pool!Jobs, Jobs
    <3>2. QED
      BY <2>3, <3>1, PoolPublish, CorePublish DEF FlagIInv, Pool!Next
  <2>4. CASE NewJob \/ LockEnqueue \/ Link \/ UnlockEnqueue("flaglock") \/ JoinThread("returned")
    <3>1. QuietMain /\ mpc # "create"
      BY <2>4 DEF QuietMain, NewJob, LockEnqueue, Link, UnlockEnqueue, NextJob, JoinThread, MainStep
    <3>2. QED
      BY <2>4, <3>1, PoolQuietMain, CoreNewJob, CoreLockEnqueue, CoreLink, CoreUnlockEnqueue,
         CoreJoinThread DEF FlagIInv
  <2>5. QED
    BY <1>2, <2>1, <2>2, <2>3, <2>4 DEF FlagMainNext, FlagMain
<1>3. ASSUME NEW t \in Threads, FlagThreadNext(t)
      PROVE  CoreInv' /\ [Pool!Next]_(Pool!poolVars)
  <2>1. CASE UnlockQueue(t)
    <3>1. next_job[t] \in Jobs
      BY <2>1 DEF FlagIInv, ProgramInv, UnlockInv, UnlockQueue, Step
    <3>2. QED
      BY <2>1, <3>1, CoreUnlockQueue, PoolQuietThread DEF FlagIInv, QuietThread
  <2>2. CASE Advance(t)
    <3>1. job_queue \in Pool!Jobs /\ t \in Pool!Threads
      BY <2>2 DEF Advance, Pool!Jobs, Jobs, Pool!Threads, Threads
    <3>2. QED
      BY <2>2, <3>1, PoolAdvance, CoreAdvance DEF FlagIInv, Pool!Next
  <2>3. CASE ProcessJob(t)
    <3>1. Pool!Finish(t)
      BY <2>3, ProcessKeepsQueued, PoolProcessJob DEF FlagIInv
    <3>2. QED
      BY <2>3, <3>1, CoreProcessJob DEF FlagIInv, Pool!Next, Pool!Threads, Threads
  <2>4. CASE LockQueue(t) \/ TakeHead(t) \/ FreeJob(t, "flaglock")
    <3>1. QuietThread(t)
      BY <2>4 DEF QuietThread, TakeHead
    <3>2. QED
      BY <2>4, <3>1, PoolQuietThread, CoreLockQueue, CoreReadHead, CoreFreeJob DEF FlagIInv, TakeHead
  <2>5. CASE FlagThread(t) \/ ListThread(t)
    BY <2>5, CoreFlagThread DEF FlagIInv
  <2>6. QED
    BY <1>3, <2>1, <2>2, <2>3, <2>4, <2>5 DEF FlagThreadNext, FlagThread, ListThread
<1>4. ASSUME NEW t \in Threads, SpuriousWakeup(t)
      PROVE  CoreInv' /\ [Pool!Next]_(Pool!poolVars)
  BY <1>4, CoreFlagMain DEF FlagIInv
<1>5. QED
  BY <1>1, <1>2, <1>3, <1>4 DEF FlagNext, FlagTerminating

-----------------------------------------------------------------------------
(* What the flag, the condition variable and the exits preserve. *)

LEMMA ProgramStutter ==
  ASSUME ProgramInv, UNCHANGED flagVars
  PROVE  ProgramInv'
BY DEF flagVars, listVars, threadVars, mainVars, condVars, ProgramInv, FlagLabels, FlagCreateInv, CreateInv, JoinInv, AllExited,
       UnlockInv, FlagMutexInv, FlagInv, EmptyInv

LEMMA ProgramMain ==
  ASSUME FlagIInv, FlagMainNext
  PROVE  ProgramInv'
<1> USE NumJobsAssumption, SizeAssumption
    DEF FlagIInv, ProgramInv, FlagLabels, FlagCreateInv, CreateInv, JoinInv, UnlockInv, FlagMutexInv, FlagInv, EmptyInv,
        FlagThreadLabels, FlagMainLabels, Threads, AllExited, NULL
<1>1. CASE CreateThread("flaglock") /\ UNCHANGED condVars
  <2>1. i \in Threads /\ tpc[i] = "unborn"
    BY <1>1 DEF CoreInv, Types, ListTypeOK, CreateThread
  <2>2. thread_flag_mutex # i
    BY <2>1
  <2>3. QED
    BY <1>1, <2>1, <2>2 DEF CoreInv, Types, ListTypeOK, CreateThread, condVars, listVars
<1>2. CASE JoinThread("returned") /\ UNCHANGED condVars
  <2>1. \A t \in Threads : t < i + 1 => tpc[t] = "exited"
    BY <1>2 DEF CoreInv, Types, ListTypeOK, JoinThread
  <2>2. JoinInv'
    BY <1>2, <2>1 DEF CoreInv, Types, ListTypeOK, JoinThread, threadVars
  <2>3. QED
    BY <1>2, <2>2 DEF JoinThread, threadVars, listVars, condVars
<1>3. CASE Publish /\ UNCHANGED condVars
  <2>1. \A t \in Threads : tpc[t] \notin {"empty", "exited"}
    BY <1>3 DEF Publish, MainStep
  <2>2. QED
    BY <1>3, <2>1 DEF Publish, MainStep, threadVars, condVars
<1>4. CASE NewJob /\ UNCHANGED condVars
  BY <1>4 DEF NewJob, MainStep, threadVars, condVars
<1>5. CASE LockEnqueue /\ UNCHANGED condVars
  BY <1>5 DEF LockEnqueue, MainStep, threadVars, condVars, listVars
<1>6. CASE Link /\ UNCHANGED condVars
  BY <1>6 DEF Link, MainStep, threadVars, condVars
<1>7. CASE UnlockEnqueue("flaglock") /\ UNCHANGED condVars
  BY <1>7 DEF UnlockEnqueue, NextJob, threadVars, condVars, listVars
<1>8. CASE LockSetFlag
  BY <1>8 DEF LockSetFlag, MainStep, threadVars, listVars, Nobody, Main, Owners
<1>9. CASE SetFlag
  BY <1>9 DEF SetFlag, MainStep, threadVars, listVars, Main
<1>10. CASE Broadcast
  BY <1>10 DEF Broadcast, MainStep, threadVars, listVars, Main
<1>11. CASE UnlockSetFlag
  <2>1. i = 0
    BY <1>11 DEF UnlockSetFlag, MainStep
  <2>2. QED
    BY <1>11, <2>1 DEF UnlockSetFlag, MainStep, threadVars, listVars, Nobody, Main, Owners
<1>12. QED
  BY <1>1, <1>2, <1>3, <1>4, <1>5, <1>6, <1>7, <1>8, <1>9, <1>10, <1>11 DEF FlagMainNext

LEMMA ProgramFlagThread ==
  ASSUME FlagIInv, NEW t \in Threads, FlagThread(t) \/ SpuriousWakeup(t)
  PROVE  ProgramInv'
<1> USE NumJobsAssumption, SizeAssumption
    DEF FlagIInv, ProgramInv, FlagLabels, FlagCreateInv, CreateInv, JoinInv, UnlockInv, FlagMutexInv, FlagInv, EmptyInv,
        FlagThreadLabels, FlagMainLabels, Threads, AllExited, NULL
<1>1. CASE LockFlag(t)
  BY <1>1 DEF LockFlag, Step, listVars, mainVars, Nobody, Main, Owners
<1>2. CASE TestFlag(t)
  BY <1>2 DEF TestFlag, Step, listVars, mainVars, condVars
<1>3. CASE CondWait(t)
  BY <1>3 DEF CondWait, Step, listVars, mainVars, Nobody, Main, Owners
<1>4. CASE CondReturn(t)
  BY <1>4 DEF CondReturn, Step, listVars, mainVars, Nobody, Main, Owners
<1>5. CASE UnlockFlag(t)
  BY <1>5 DEF UnlockFlag, Step, listVars, mainVars, Nobody, Main, Owners
<1>6. CASE SpuriousWakeup(t)
  BY <1>6 DEF SpuriousWakeup, listVars, mainVars, threadVars
<1>7. QED
  BY <1>1, <1>2, <1>3, <1>4, <1>5, <1>6 DEF FlagThread

LEMMA ProgramListThread ==
  ASSUME FlagIInv, NEW t \in Threads, UNCHANGED condVars,
         \/ LockQueue(t) \/ FindEmpty(t) \/ TakeHead(t) \/ Advance(t) \/ Break(t)
         \/ UnlockQueue(t) \/ ProcessJob(t) \/ FreeJob(t, "flaglock")
  PROVE  ProgramInv'
<1> USE NumJobsAssumption, SizeAssumption
    DEF FlagIInv, ProgramInv, FlagLabels, FlagCreateInv, CreateInv, JoinInv, UnlockInv, FlagMutexInv, FlagInv, EmptyInv,
        FlagThreadLabels, FlagMainLabels, Threads, AllExited, NULL
<1>1. CASE LockQueue(t)
  BY <1>1 DEF LockQueue, Step, listVars, mainVars, condVars
<1>2. CASE FindEmpty(t)
  BY <1>2 DEF FindEmpty, Step, listVars, mainVars, condVars
<1>3. CASE TakeHead(t)
  BY <1>3 DEF TakeHead, ReadHead, Step, listVars, mainVars, condVars
<1>4. CASE Advance(t)
  <2>1. next_job[t] = job_queue /\ job_queue \in Jobs
    BY <1>4 DEF CoreInv, LocalInv, Advance, Step
  <2>2. \A u \in Threads : tpc[u] \notin {"empty", "exited"}
    BY <2>1 DEF Jobs
  <2>3. QED
    BY <1>4, <2>1, <2>2 DEF Advance, Step, mainVars, condVars
<1>5. CASE Break(t)
  BY <1>5 DEF Break, Step, listVars, mainVars, condVars
<1>6. CASE UnlockQueue(t)
  BY <1>6 DEF UnlockQueue, Step, listVars, mainVars, condVars
<1>7. CASE ProcessJob(t)
  BY <1>7 DEF ProcessJob, Step, mainVars, condVars
<1>8. CASE FreeJob(t, "flaglock")
  BY <1>8 DEF FreeJob, Step, mainVars, condVars
<1>9. QED
  BY <1>1, <1>2, <1>3, <1>4, <1>5, <1>6, <1>7, <1>8

LEMMA ProgramStep ==
  ASSUME FlagIInv, [FlagNext]_flagVars
  PROVE  ProgramInv'
<1>1. CASE UNCHANGED flagVars
  BY <1>1, ProgramStutter DEF FlagIInv
<1>2. CASE FlagMainNext
  BY <1>2, ProgramMain
<1>3. ASSUME NEW t \in Threads, FlagThreadNext(t) \/ SpuriousWakeup(t)
      PROVE  ProgramInv'
  BY <1>3, ProgramFlagThread, ProgramListThread DEF FlagThreadNext, FlagThread
<1>4. QED
  BY <1>1, <1>2, <1>3 DEF FlagNext, FlagTerminating

(* The invariant holds in every reachable state. *)
THEOREM FlagInvariance == FlagSpec => []FlagIInv
<1>1. FlagInit => FlagIInv
  BY FlagInitInv
<1>2. FlagIInv /\ [FlagNext]_flagVars => FlagIInv'
  BY FlagCoreStep, ProgramStep DEF FlagIInv
<1>3. QED
  BY <1>1, <1>2, PTL DEF FlagSpec

(* Type correctness of every variable of thread_job_queue_improved.c. *)
THEOREM FlagTypeCorrect == FlagSpec => []FlagTypeOK
<1>1. FlagIInv => FlagTypeOK
  BY DEF FlagIInv, ProgramInv, CoreInv, Types, FlagLabels, FlagTypeOK, ListTypeOK
<1>2. QED
  BY <1>1, FlagInvariance, PTL

(* No thread sleeps through the only broadcast. *)
THEOREM WakeupNeverLost == FlagSpec => []NoLostWakeup
<1>1. FlagIInv => NoLostWakeup
  BY DEF FlagIInv, ProgramInv, FlagLabels, FlagInv, NoLostWakeup
<1>2. QED
  BY <1>1, FlagInvariance, PTL

(* No thread reaches the list before the last job is on it. *)
THEOREM FlagOrdersThreads == FlagSpec => []NoneStartsEarly
<1>1. ASSUME FlagIInv
      PROVE  NoneStartsEarly
  <2>1. thread_flag = 1 => Published = Jobs
    BY <1>1 DEF FlagIInv, ProgramInv, FlagInv, Published
  <2>2. QED
    BY <1>1, <2>1 DEF FlagIInv, ProgramInv, FlagInv, NoneStartsEarly, InThread
<1>2. QED
  BY <1>1, FlagInvariance, PTL

(* When main() returns, every job was processed: what thread_job_queue.c
   cannot promise. *)
THEOREM NothingLeftOver == FlagSpec => []AllProcessedAtReturn
<1>1. ASSUME FlagIInv, mpc = "returned", NEW j \in Jobs
      PROVE  printed[j] = 1
  <2>1. AllExited /\ Published = Jobs
    BY <1>1 DEF FlagIInv, ProgramInv, JoinInv, Published
  <2>2. job_queue = NULL
    <3>1. 0 \in Threads
      BY SizeAssumption DEF Threads
    <3>2. QED
      BY <1>1, <2>1, <3>1 DEF FlagIInv, ProgramInv, EmptyInv, AllExited
  <2>3. Queued = {}
    BY <1>1, <2>2, QueuedJobs DEF FlagIInv, CoreInv, ListInv, IsTop, Jobs, NULL
  <2>4. QED
    BY <1>1, <2>1, <2>3, CoreAccounted DEF FlagIInv
<1>2. FlagIInv => AllProcessedAtReturn
  BY <1>1 DEF AllProcessedAtReturn
<1>3. QED
  BY <1>2, FlagInvariance, PTL

(* The program with the flag implements the pool. *)
THEOREM FlagRefinement == FlagSpec => ImplementsPool
<1>1. FlagInit => Pool!Init
  BY PoolInit DEF FlagInit
<1>2. FlagIInv /\ [FlagNext]_flagVars => [Pool!Next]_(Pool!poolVars)
  BY FlagCoreStep
<1>3. QED
  BY <1>1, <1>2, FlagInvariance, PTL DEF FlagSpec, ImplementsPool, Pool!Spec

-----------------------------------------------------------------------------
(* Where the programs come to a stop.  A program is stuck when nothing that main() or
   a thread is at can go on: a lock is held, a thread to join has not exited, the head
   to follow is NULL, or, depending on the program, the semaphore is 0 or nobody has
   woken the sleeper. *)

MainStuck ==
  /\ mpc \in {"lock", "join", "returned"}
  /\ mpc = "lock" => job_queue_mutex # Nobody
  /\ mpc = "join" => tpc[i] # "exited"

ThreadStuck(t) ==
  /\ tpc[t] \in {"unborn", "lock", "advance", "exited"}
  /\ tpc[t] = "lock" => job_queue_mutex # Nobody
  /\ tpc[t] = "advance" => job_queue = NULL

(* Only threads that main() has still to create are unborn. *)
BornInv == \A t \in Threads : tpc[t] = "unborn" => mpc = "create" /\ i <= t

(* The head that Advance follows is a job. *)
HeadInv == \A t \in Threads : tpc[t] = "advance" => job_queue \in Jobs

LEMMA BornKept ==
  ASSUME BornInv,
         \A t \in Threads : tpc'[t] = "unborn" => tpc[t] = "unborn",
         mpc # "create" \/ UNCHANGED mainVars
  PROVE  BornInv'
BY DEF BornInv, mainVars

LEMMA BornCreate ==
  ASSUME CoreInv, BornInv, NEW first \in AnyThreadLabel, first # "unborn", CreateThread(first)
  PROVE  BornInv'
<1>1. i \in Threads /\ i \in Nat /\ tpc' = [tpc EXCEPT ![i] = first]
  BY SizeAssumption DEF CoreInv, Types, ListTypeOK, CreateThread, Threads
<1>2. ASSUME NEW t \in Threads, tpc'[t] = "unborn"
      PROVE  mpc' = "create" /\ i' <= t
  <2>1. tpc[t] = "unborn" /\ t # i /\ i <= t
    BY <1>1, <1>2 DEF BornInv, CoreInv, Types, ListTypeOK
  <2>2. i + 1 <= t /\ i + 1 < Size
    BY <1>1, <2>1, SizeAssumption DEF Threads
  <2>3. QED
    BY <2>2 DEF CreateThread
<1>3. QED
  BY <1>2 DEF BornInv

(* main() publishes and a thread takes the head off only while nobody else is between
   lock and unlock. *)
LEMMA HeadPublish ==
  ASSUME CoreInv, Publish
  PROVE  HeadInv'
<1>1. \A t \in Threads : job_queue_mutex # t
  BY SizeAssumption DEF CoreInv, MutexInv, InMain, Publish, MainStep, Threads, Main
<1>2. \A t \in Threads : tpc[t] # "advance"
  BY <1>1 DEF CoreInv, MutexInv, InThread
<1>3. QED
  BY <1>2 DEF HeadInv, Publish, threadVars

LEMMA HeadAdvance ==
  ASSUME CoreInv, NEW t \in Threads, Advance(t)
  PROVE  HeadInv'
<1>1. \A u \in Threads \ {t} : tpc[u] # "advance"
  BY DEF CoreInv, MutexInv, InThread, Advance, Step
<1>2. QED
  BY <1>1 DEF HeadInv, Advance, Step, CoreInv, Types, ListTypeOK

LEMMA HeadRead ==
  ASSUME CoreInv, HeadInv, NEW t \in Threads, ReadHead(t), job_queue # NULL
  PROVE  HeadInv'
<1>1. job_queue \in Jobs /\ job_queue' = job_queue
  BY DEF CoreInv, Types, ListTypeOK, ReadHead, listVars
<1>2. QED
  BY <1>1 DEF HeadInv, Jobs

LEMMA HeadKept ==
  ASSUME HeadInv, job_queue' = job_queue,
         \A t \in Threads : tpc'[t] = "advance" => tpc[t] = "advance"
  PROVE  HeadInv'
BY DEF HeadInv, Jobs

(* Who holds the mutex is not stuck, so when all are stuck the mutex is free. *)
LEMMA StuckMutex ==
  ASSUME CoreInv, HeadInv, mpc \notin {"link", "publish", "unlock"},
         \A t \in Threads : tpc[t] \notin {"head", "empty", "unlock"},
         \A t \in Threads : tpc[t] = "advance" => job_queue = NULL
  PROVE  job_queue_mutex = Nobody /\ \A t \in Threads : tpc[t] # "advance"
<1>1. \A t \in Threads : tpc[t] # "advance"
  BY DEF HeadInv, Jobs, NULL
<1>2. QED
  BY <1>1 DEF CoreInv, Types, ListTypeOK, MutexInv, InThread, InMain, Owners

(* When the threads have all exited, so has main(). *)
LEMMA StuckJoin ==
  ASSUME CoreInv, BornInv, MainStuck, mpc # "lock",
         \A t \in Threads : tpc[t] \in {"unborn", "exited"}
  PROVE  mpc = "returned" /\ AllExited
<1>1. AllExited
  BY DEF MainStuck, BornInv, AllExited
<1>2. mpc = "join" => i \in Threads
  BY SizeAssumption DEF CoreInv, Types, ListTypeOK, Threads
<1>3. QED
  BY <1>1, <1>2 DEF MainStuck, AllExited

-----------------------------------------------------------------------------
QueueStuck == MainStuck /\ \A t \in Threads : ThreadStuck(t)

LEMMA QueueStuckInv ==
  ASSUME QueueIInv, BornInv, HeadInv, [QueueNext]_queueVars
  PROVE  BornInv' /\ HeadInv'
<1>0. CoreInv /\ tpc \in [Threads -> QueueThreadLabels]
  BY DEF QueueIInv, QueueLabels
<1>1. CASE UNCHANGED queueVars
  BY <1>1 DEF queueVars, listVars, threadVars, mainVars, BornInv, HeadInv, Jobs
<1>2. CASE CreateThread("lock")
  <2>1. BornInv'
    BY <1>0, <1>2, BornCreate DEF AnyThreadLabel
  <2>2. job_queue' = job_queue /\ \A t \in Threads : tpc'[t] = "advance" => tpc[t] = "advance"
    BY <1>0, <1>2 DEF CreateThread, listVars
  <2>3. QED
    BY <2>1, <2>2, HeadKept
<1>3. CASE Publish
  <2>1. tpc' = tpc /\ mpc # "create"
    BY <1>3 DEF Publish, MainStep, threadVars
  <2>2. QED
    BY <1>0, <1>3, <2>1, BornKept, HeadPublish
<1>4. CASE NewJob \/ LockEnqueue \/ Link \/ UnlockEnqueue("join") \/ JoinThread("returned")
  <2>1. tpc' = tpc /\ mpc # "create" /\ job_queue' = job_queue
    BY <1>4 DEF NewJob, LockEnqueue, Link, UnlockEnqueue, JoinThread, NextJob, MainStep, threadVars, listVars
  <2>2. QED
    BY <2>1, BornKept, HeadKept
<1>5. ASSUME NEW t \in Threads, QueueThreadNext(t)
      PROVE  BornInv' /\ HeadInv'
  <2>1. UNCHANGED mainVars /\ \A u \in Threads : tpc'[u] = "unborn" => tpc[u] = "unborn"
    BY <1>0, <1>5 DEF QueueThreadNext, LockQueue, FindNull, FindJob, ReadHead, Advance, LeaveLoop, Go,
                      UnlockQueue, ProcessJob, FreeJob, Step
  <2>2. CASE Advance(t)
    BY <1>0, <2>1, <2>2, BornKept, HeadAdvance
  <2>3. CASE FindJob(t)
    BY <1>0, <2>1, <2>3, BornKept, HeadRead DEF FindJob
  <2>4. CASE LockQueue(t) \/ FindNull(t) \/ LeaveLoop(t) \/ Go(t) \/ ProcessJob(t) \/ FreeJob(t, "lock")
    <3>1. job_queue' = job_queue /\ \A u \in Threads : tpc'[u] = "advance" => tpc[u] = "advance"
      BY <1>0, <2>4 DEF LockQueue, FindNull, LeaveLoop, Go, UnlockQueue, ProcessJob, FreeJob, Step, listVars
    <3>2. QED
      BY <2>1, <3>1, BornKept, HeadKept
  <2>5. QED
    BY <1>5, <2>2, <2>3, <2>4 DEF QueueThreadNext
<1>6. QED
  BY <1>1, <1>2, <1>3, <1>4, <1>5 DEF QueueNext, QueueMainNext, QueueTerminating

(* thread_job_queue.c is never stuck before main() has returned, and no thread of it
   follows a NULL head, for any number of jobs and threads. *)
QueueNeverStuck == (QueueStuck => mpc = "returned" /\ AllExited) /\ HeadInv

THEOREM QueueGoesOn == QueueSpec => []QueueNeverStuck
<1>1. Init("create") => BornInv /\ HeadInv
  BY DEF Init, BornInv, HeadInv, Threads
<1>2. QueueIInv /\ BornInv /\ HeadInv /\ [QueueNext]_queueVars => (BornInv /\ HeadInv)'
  BY QueueStuckInv
<1>3. QueueIInv /\ BornInv /\ HeadInv => QueueNeverStuck
  <2>1. SUFFICES ASSUME QueueIInv, BornInv, HeadInv, QueueStuck
                 PROVE  mpc = "returned" /\ AllExited
    BY DEF QueueNeverStuck
  <2>2. job_queue_mutex = Nobody /\ \A t \in Threads : tpc[t] # "advance"
    BY <2>1, StuckMutex DEF QueueIInv, QueueStuck, MainStuck, ThreadStuck
  <2>3. mpc # "lock" /\ \A t \in Threads : tpc[t] \in {"unborn", "exited"}
    BY <2>1, <2>2 DEF QueueStuck, MainStuck, ThreadStuck
  <2>4. QED
    BY <2>1, <2>3, StuckJoin DEF QueueIInv, QueueStuck
<1>4. QED
  BY <1>1, <1>2, <1>3, QueueInvariance, PTL DEF QueueSpec

-----------------------------------------------------------------------------
SemStuck == MainStuck /\ \A t \in Threads : ThreadStuck(t) \/ (tpc[t] = "wait" /\ job_count = 0)

(* No thread ever exits, so main() waits for the first. *)
FirstJoin == mpc # "returned" /\ (mpc = "join" => i = 0)

LEMMA SemStuckInv ==
  ASSUME SemIInv, BornInv, FirstJoin, [SemNext]_semVars
  PROVE  BornInv' /\ FirstJoin'
<1>0. /\ CoreInv /\ tpc \in [Threads -> SemThreadLabels] /\ mpc \in SemMainLabels
      /\ mpc = "join" => i \in Threads
  BY SizeAssumption DEF SemIInv, SemLabels, CoreInv, Types, ListTypeOK, Threads
<1>1. CASE UNCHANGED semVars
  BY <1>1 DEF semVars, threadVars, mainVars, BornInv, FirstJoin
<1>2. CASE CreateThread("wait")
  <2>1. BornInv'
    BY <1>0, <1>2, BornCreate DEF AnyThreadLabel
  <2>2. FirstJoin'
    BY <1>2 DEF CreateThread, FirstJoin
  <2>3. QED
    BY <2>1, <2>2
<1>3. CASE NewJob \/ LockEnqueue \/ Link \/ Publish \/ UnlockThenPost
  <2>1. tpc' = tpc /\ mpc # "create" /\ mpc' \notin {"join", "returned"}
    BY <1>3 DEF NewJob, LockEnqueue, Link, Publish, UnlockThenPost, MainStep, threadVars
  <2>2. QED
    BY <2>1, BornKept DEF FirstJoin
<1>4. CASE SemPost
  <2>1. tpc' = tpc /\ mpc # "create"
    BY <1>4 DEF SemPost, NextJob, threadVars
  <2>2. FirstJoin'
    BY <1>4, PostFacts DEF FirstJoin
  <2>3. QED
    BY <2>1, <2>2, BornKept
<1>5. CASE JoinThread("returned")
  BY <1>0, <1>5 DEF JoinThread, SemThreadLabels
<1>6. ASSUME NEW t \in Threads, SemThreadNext(t)
      PROVE  BornInv' /\ FirstJoin'
  <2>1. UNCHANGED mainVars /\ \A u \in Threads : tpc'[u] = "unborn" => tpc[u] = "unborn"
    BY <1>0, <1>6 DEF SemThreadNext, SemWait, LockQueue, ReadHead, Advance, UnlockQueue, ProcessJob,
                      FreeJob, Step
  <2>2. QED
    BY <2>1, BornKept DEF FirstJoin, mainVars
<1>7. QED
  BY <1>1, <1>2, <1>3, <1>4, <1>5, <1>6 DEF SemNext, SemMainNext

(* thread_job_queue_sem.c comes to a stop only when every job is processed and freed:
   then each thread waits in sem_wait() and main() for the first of them. *)
StopsWhenDone ==
  SemStuck => /\ \A j \in Jobs : printed[j] = 1 /\ heap[j] = "freed"
              /\ mpc = "join" /\ i = 0 /\ job_count = 0
              /\ \A t \in Threads : tpc[t] = "wait"

THEOREM SemStopsWhenDone == SemSpec => []StopsWhenDone
<1>1. SemInit => BornInv /\ FirstJoin
  BY DEF SemInit, Init, BornInv, FirstJoin, Threads
<1>2. SemIInv /\ BornInv /\ FirstJoin /\ [SemNext]_semVars => (BornInv /\ FirstJoin)'
  BY SemStuckInv
<1>3. SemIInv /\ BornInv /\ FirstJoin => StopsWhenDone
  <2>1. SUFFICES ASSUME SemIInv, BornInv, FirstJoin, SemStuck
                 PROVE  StopsWhenDone
    BY DEF StopsWhenDone
  <2>2. HeadInv
    BY <2>1, LetInFindsJob DEF SemIInv, CoreInv, Types, ListTypeOK, NoNullDeref, HeadInv
  <2>3. job_queue_mutex = Nobody /\ \A t \in Threads : tpc[t] # "advance"
    BY <2>1, <2>2, StuckMutex DEF SemIInv, SemStuck, MainStuck, ThreadStuck
  <2>4. mpc = "join" /\ i = 0
    BY <2>1, <2>3 DEF SemStuck, MainStuck, FirstJoin
  <2>5. \A t \in Threads : tpc[t] = "wait" /\ job_count = 0
    BY <2>1, <2>3, <2>4 DEF SemStuck, ThreadStuck, BornInv, SemIInv, SemLabels, SemThreadLabels
  <2>6. job_count = 0
    BY <2>5, SizeAssumption DEF Threads
  <2>7. LetIn = {} /\ ToPost = 0
    BY <2>4, <2>5 DEF LetIn, ToPost
  <2>8. Queued = {}
    <3>1. Cardinality(LetIn) = 0 /\ Cardinality(Queued) = 0
      BY <2>1, <2>6, <2>7, FS_EmptySet DEF SemIInv, SemCountsJobs
    <3>2. QED
      BY <3>1, Finite, FS_EmptySet
  <2>9. Published = Jobs /\ \A t \in Threads : Holding(t) = NULL /\ Owns(t) = NULL
    BY <2>4, <2>5 DEF Published, Holding, Owns
  <2>10. ASSUME NEW j \in Jobs PROVE printed[j] = 1 /\ heap[j] = "freed"
    <3>1. j # NULL
      BY DEF Jobs, NULL
    <3>2. printed[j] = 1
      BY <2>1, <2>8, <2>9, <3>1 DEF Queued, Done, SemIInv, CoreInv, OwnerInv
    <3>3. QED
      BY <2>1, <2>9, <3>1, <3>2 DEF SemIInv, CoreInv, HeapInv
  <2>11. QED
    BY <2>4, <2>5, <2>6, <2>10 DEF StopsWhenDone
<1>4. QED
  BY <1>1, <1>2, <1>3, SemInvariance, PTL DEF SemSpec

-----------------------------------------------------------------------------
(* Here nobody is counted on to wake up without a signal. *)
FlagStuck ==
  /\ MainStuck \/ (mpc = "flaglock" /\ thread_flag_mutex # Nobody)
  /\ \A t \in Threads : \/ ThreadStuck(t)
                        \/ tpc[t] = "flaglock" /\ thread_flag_mutex # Nobody
                        \/ tpc[t] = "sleep" /\ (t \in waiters \/ thread_flag_mutex # Nobody)

LEMMA FlagStuckInv ==
  ASSUME FlagIInv, BornInv, HeadInv, [FlagNext]_flagVars
  PROVE  BornInv' /\ HeadInv'
<1>0. CoreInv /\ tpc \in [Threads -> FlagThreadLabels]
  BY DEF FlagIInv, ProgramInv, FlagLabels
<1>1. CASE UNCHANGED flagVars
  BY <1>1 DEF flagVars, listVars, threadVars, mainVars, BornInv, HeadInv, Jobs
<1>2. CASE CreateThread("flaglock")
  <2>1. BornInv'
    BY <1>0, <1>2, BornCreate DEF AnyThreadLabel
  <2>2. job_queue' = job_queue /\ \A t \in Threads : tpc'[t] = "advance" => tpc[t] = "advance"
    BY <1>0, <1>2 DEF CreateThread, listVars
  <2>3. QED
    BY <2>1, <2>2, HeadKept
<1>3. CASE Publish
  <2>1. tpc' = tpc /\ mpc # "create"
    BY <1>3 DEF Publish, MainStep, threadVars
  <2>2. QED
    BY <1>0, <1>3, <2>1, BornKept, HeadPublish
<1>4. CASE \/ NewJob \/ LockEnqueue \/ Link \/ UnlockEnqueue("flaglock") \/ JoinThread("returned")
           \/ LockSetFlag \/ SetFlag \/ Broadcast \/ UnlockSetFlag
  <2>1. tpc' = tpc /\ mpc # "create" /\ job_queue' = job_queue
    BY <1>4 DEF NewJob, LockEnqueue, Link, UnlockEnqueue, JoinThread, LockSetFlag, SetFlag, Broadcast,
                UnlockSetFlag, NextJob, MainStep, threadVars, listVars
  <2>2. QED
    BY <2>1, BornKept, HeadKept
<1>5. ASSUME NEW t \in Threads, FlagThreadNext(t) \/ SpuriousWakeup(t)
      PROVE  BornInv' /\ HeadInv'
  <2>1. UNCHANGED mainVars /\ \A u \in Threads : tpc'[u] = "unborn" => tpc[u] = "unborn"
    BY <1>0, <1>5 DEF FlagThreadNext, LockFlag, TestFlag, CondWait, CondReturn, UnlockFlag, SpuriousWakeup,
                      LockQueue, FindEmpty, TakeHead, ReadHead, Advance, Break, UnlockQueue, ProcessJob,
                      FreeJob, Step, threadVars
  <2>2. CASE Advance(t)
    BY <1>0, <2>1, <2>2, BornKept, HeadAdvance
  <2>3. CASE TakeHead(t)
    BY <1>0, <2>1, <2>3, BornKept, HeadRead DEF TakeHead
  <2>4. CASE \/ LockFlag(t) \/ TestFlag(t) \/ CondWait(t) \/ CondReturn(t) \/ UnlockFlag(t)
             \/ SpuriousWakeup(t) \/ LockQueue(t) \/ FindEmpty(t) \/ Break(t) \/ UnlockQueue(t)
             \/ ProcessJob(t) \/ FreeJob(t, "flaglock")
    <3>1. job_queue' = job_queue /\ \A u \in Threads : tpc'[u] = "advance" => tpc[u] = "advance"
      BY <1>0, <2>4 DEF LockFlag, TestFlag, CondWait, CondReturn, UnlockFlag, SpuriousWakeup, LockQueue,
                        FindEmpty, Break, UnlockQueue, ProcessJob, FreeJob, Step, threadVars, listVars
    <3>2. QED
      BY <2>1, <3>1, BornKept, HeadKept
  <2>5. QED
    BY <1>5, <2>2, <2>3, <2>4 DEF FlagThreadNext
<1>6. QED
  BY <1>1, <1>2, <1>3, <1>4, <1>5 DEF FlagNext, FlagMainNext, FlagTerminating

(* thread_job_queue_improved.c is never stuck before main() has returned, with two
   mutexes and one broadcast, and no thread of it follows a NULL head. *)
FlagNeverStuck == (FlagStuck => mpc = "returned" /\ AllExited) /\ HeadInv

THEOREM FlagGoesOn == FlagSpec => []FlagNeverStuck
<1>1. FlagInit => BornInv /\ HeadInv
  BY DEF FlagInit, Init, BornInv, HeadInv, Threads
<1>2. FlagIInv /\ BornInv /\ HeadInv /\ [FlagNext]_flagVars => (BornInv /\ HeadInv)'
  BY FlagStuckInv
<1>3. FlagIInv /\ BornInv /\ HeadInv => FlagNeverStuck
  <2>1. SUFFICES ASSUME FlagIInv, BornInv, HeadInv, FlagStuck
                 PROVE  mpc = "returned" /\ AllExited
    BY DEF FlagNeverStuck
  <2>2. job_queue_mutex = Nobody /\ \A t \in Threads : tpc[t] # "advance"
    BY <2>1, StuckMutex DEF FlagIInv, FlagStuck, MainStuck, ThreadStuck
  <2>3. thread_flag_mutex = Nobody
    BY <2>1 DEF FlagStuck, MainStuck, ThreadStuck, FlagIInv, ProgramInv, FlagLabels, FlagMutexInv, Owners
  <2>4. MainStuck /\ mpc # "lock"
    BY <2>1, <2>2, <2>3 DEF FlagStuck, MainStuck
  <2>5. waiters = {}
    BY <2>1, <2>4 DEF MainStuck, FlagIInv, ProgramInv, FlagInv
  <2>6. \A t \in Threads : tpc[t] \in {"unborn", "exited"}
    BY <2>1, <2>2, <2>3, <2>5 DEF FlagStuck, ThreadStuck
  <2>7. QED
    BY <2>1, <2>4, <2>6, StuckJoin DEF FlagIInv
<1>4. QED
  BY <1>1, <1>2, <1>3, FlagInvariance, PTL DEF FlagSpec

=============================================================================
