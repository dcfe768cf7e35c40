------------------------------- MODULE JobLease -------------------------------
(***************************************************************************)
(* What the job lock of RedisJobStoreService promises to BaseWorker: a job *)
(* has at most one runner, a call chain runs at most one job, and a job    *)
(* passes from one runner to the next only after the first has given it up *)
(* (released it, or been aborted by its timeout or by a shutdown).         *)
(***************************************************************************)
CONSTANTS Job, Thread, None

VARIABLE runner  \* runner[j]: the chain that may execute job j, or None

TypeOK == runner \in [Job -> Thread \cup {None}]

Init == runner = [j \in Job |-> None]

Acquire(j, t) ==
  /\ runner[j] = None
  /\ \A i \in Job : runner[i] # t
  /\ runner' = [runner EXCEPT ![j] = t]

GiveUp(j) ==
  /\ runner[j] # None
  /\ runner' = [runner EXCEPT ![j] = None]

Next == \E j \in Job : GiveUp(j) \/ \E t \in Thread : Acquire(j, t)

Spec == Init /\ [][Next]_runner
=============================================================================
