------------------------------- MODULE JobPool -------------------------------
(***************************************************************************)
(* What the thread_job_queue programs promise, with lists, locks and heap  *)
(* taken away: the main thread submits the jobs 0, 1, 2, ... one by one, a *)
(* thread takes the job that was submitted last, no two threads ever take  *)
(* the same one, and a job that was taken is processed once.               *)
(***************************************************************************)
EXTENDS Integers

CONSTANTS NumJobs,  \* how many jobs main() creates
          Size      \* how many threads it creates

NULL == -1
Jobs == 0 .. NumJobs - 1
Threads == 0 .. Size - 1

VARIABLES queued,   \* jobs submitted and not yet taken
          holding,  \* the job each thread works on, or NULL
          done      \* jobs processed

poolVars == <<queued, holding, done>>

Init == /\ queued = {}
        /\ holding = [t \in Threads |-> NULL]
        /\ done = {}

Submitted(j) == j \in queued \/ j \in done \/ \E t \in Threads : holding[t] = j

Submit(j) ==
  /\ ~ Submitted(j)
  /\ \A k \in Jobs : k < j => Submitted(k)
  /\ queued' = queued \cup {j}
  /\ UNCHANGED <<holding, done>>

Take(t, j) ==
  /\ holding[t] = NULL
  /\ j \in queued
  /\ \A k \in queued : k <= j
  /\ queued' = queued \ {j}
  /\ holding' = [holding EXCEPT ![t] = j]
  /\ UNCHANGED done

Finish(t) ==
  /\ holding[t] # NULL
  /\ holding[t] \notin done
  /\ done' = done \cup {holding[t]}
  /\ holding' = [holding EXCEPT ![t] = NULL]
  /\ UNCHANGED queued

Next == \/ \E j \in Jobs : Submit(j)
        \/ \E t \in Threads, j \in Jobs : Take(t, j)
        \/ \E t \in Threads : Finish(t)

Spec == Init /\ [][Next]_poolVars

==============================================================================
