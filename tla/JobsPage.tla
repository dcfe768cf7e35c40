------------------------------ MODULE JobsPage ------------------------------
(***************************************************************************)
(* The jobs dashboard of the web application.  It plays the job system     *)
(* with timers of its own: a job that is enqueued or retried has timers    *)
(* that will write its next states, and no button takes a timer back.      *)
(***************************************************************************)
EXTENDS Naturals, FiniteSets

CONSTANTS NewJob,     \* ids of the jobs enqueued here
          EnqueuedType, \* the job types chosen for them
          MaxClicks,  \* bound: buttons pressed
          None

VARIABLES jobs,        \* jobs[j]: state and workerId; None before it is enqueued
          workers,     \* status of the worker of every type
          starting,    \* jobs whose 1.2 s timer is pending, with their type
          finishing,   \* jobs whose 3.5 s timer is pending
          redoing,     \* redoing[j]: pending 2.5 s timers of retries
          reaping,     \* pending 3 s timers of simulated crashes
          selectedJob, \* the drawer: a copy of a row as it was when clicked
          clicks

vars == <<jobs, workers, starting, finishing, redoing, reaping, selectedJob, clicks>>

JobType == {"REPOSITORY_INDEX", "CODE_ANALYSIS", "EMBEDDING_GENERATION",
            "TEST_EXECUTION", "AI_REVIEW", "DOCUMENTATION"}

SeedJobs == [idx |-> [state |-> "COMPLETED",   worker |-> "REPOSITORY_INDEX"],
             emb |-> [state |-> "PROCESSING",  worker |-> "EMBEDDING_GENERATION"],
             rev |-> [state |-> "RETRYING",    worker |-> "AI_REVIEW"],
             tst |-> [state |-> "COMPLETED",   worker |-> "TEST_EXECUTION"],
             ana |-> [state |-> "COMPLETED",   worker |-> "CODE_ANALYSIS"],
             doc |-> [state |-> "DEAD_LETTER", worker |-> None]]

SeedWorkers ==
  [t \in JobType |-> IF t \in {"EMBEDDING_GENERATION", "AI_REVIEW"} THEN "BUSY" ELSE "ALIVE"]

Job == NewJob \cup DOMAIN SeedJobs

Init ==
  /\ jobs = [j \in Job |-> IF j \in NewJob THEN None ELSE SeedJobs[j]]
  /\ workers = SeedWorkers
  /\ starting = {} /\ finishing = {} /\ redoing = [j \in Job |-> 0] /\ reaping = 0
  /\ selectedJob = None /\ clicks = 0

Click == clicks < MaxClicks /\ clicks' = clicks + 1
Shown(j) == jobs[j] # None

-----------------------------------------------------------------------------
HandleEnqueueSubmit(j, type) ==
  /\ Click /\ jobs[j] = None
  /\ jobs' = [jobs EXCEPT ![j] = [state |-> "QUEUED", worker |-> None]]
  /\ starting' = starting \cup {<<j, type>>} /\ finishing' = finishing \cup {j}
  /\ UNCHANGED <<workers, redoing, reaping, selectedJob>>

\* Both timers were set at once, so the shorter one comes first.
StartTimer(j, type) ==
  /\ <<j, type>> \in starting
  /\ starting' = starting \ {<<j, type>>}
  /\ jobs' = [jobs EXCEPT ![j] = [state |-> "PROCESSING", worker |-> type]]
  /\ UNCHANGED <<workers, finishing, redoing, reaping, selectedJob, clicks>>

FinishTimer(j) ==
  /\ j \in finishing /\ \A s \in starting : s[1] # j
  /\ finishing' = finishing \ {j}
  /\ jobs' = [jobs EXCEPT ![j].state = "COMPLETED"]
  /\ UNCHANGED <<workers, starting, redoing, reaping, selectedJob, clicks>>

\* Fault variant of Requeue: the timer that would complete the job is not set.
RequeueOnly(j) ==
  /\ jobs' = [jobs EXCEPT ![j].state = "PROCESSING"]
  /\ UNCHANGED redoing

Requeue(j) ==
  /\ jobs' = [jobs EXCEPT ![j].state = "PROCESSING"]
  /\ redoing' = [redoing EXCEPT ![j] = @ + 1]

\* The buttons of a row.
Cancellable(state) == state \in {"PROCESSING", "QUEUED"}
Retryable(state) == state \in {"DEAD_LETTER", "FAILED", "CANCELLED"}

HandleRetryJob(j) ==
  /\ Click /\ Shown(j) /\ Retryable(jobs[j].state)
  /\ Requeue(j)
  /\ UNCHANGED <<workers, starting, finishing, reaping, selectedJob>>

RedoTimer(j) ==
  /\ redoing[j] > 0
  /\ redoing' = [redoing EXCEPT ![j] = @ - 1]
  /\ jobs' = [jobs EXCEPT ![j].state = "COMPLETED"]
  /\ UNCHANGED <<workers, starting, finishing, reaping, selectedJob, clicks>>

HandleCancelJob(j) ==
  /\ Click /\ Shown(j) /\ Cancellable(jobs[j].state)
  /\ jobs' = [jobs EXCEPT ![j].state = "CANCELLED"]
  /\ UNCHANGED <<workers, starting, finishing, redoing, reaping, selectedJob>>

ShowDetails(j) ==
  /\ Click /\ Shown(j)
  /\ selectedJob' = [id |-> j, state |-> jobs[j].state]
  /\ UNCHANGED <<jobs, workers, starting, finishing, redoing, reaping>>

\* The drawer decides by the state it was opened with, not by the row's.
RequeueFromDrawer ==
  /\ Click /\ selectedJob # None /\ selectedJob.state \in {"DEAD_LETTER", "CANCELLED"}
  /\ Requeue(selectedJob.id)
  /\ selectedJob' = None
  /\ UNCHANGED <<workers, starting, finishing, reaping>>

-----------------------------------------------------------------------------
ChaosCrash ==
  /\ Click
  /\ workers' = [workers EXCEPT !["REPOSITORY_INDEX"] = "DEAD"]
  /\ reaping' = reaping + 1
  /\ UNCHANGED <<jobs, starting, finishing, redoing, selectedJob>>

\* Reclaims what the crashed worker was processing, restored or not.
ReaperTimer ==
  /\ reaping > 0
  /\ reaping' = reaping - 1
  /\ jobs' = [j \in Job |-> IF Shown(j) /\ jobs[j].state = "PROCESSING" /\ jobs[j].worker = "REPOSITORY_INDEX"
                            THEN [state |-> "RETRYING", worker |-> None] ELSE jobs[j]]
  /\ UNCHANGED <<workers, starting, finishing, redoing, selectedJob, clicks>>

ChaosRestore ==
  /\ Click
  /\ workers' = [t \in JobType |-> "ALIVE"]
  /\ UNCHANGED <<jobs, starting, finishing, redoing, reaping, selectedJob>>

Next ==
  \/ \E j \in NewJob, type \in EnqueuedType : HandleEnqueueSubmit(j, type) \/ StartTimer(j, type)
  \/ \E j \in Job : FinishTimer(j) \/ HandleRetryJob(j) \/ RedoTimer(j) \/ HandleCancelJob(j) \/ ShowDetails(j)
  \/ RequeueFromDrawer \/ ChaosCrash \/ ReaperTimer \/ ChaosRestore

Spec == Init /\ [][Next]_vars

-----------------------------------------------------------------------------
(***************************************************************************)
(* Properties                                                              *)
(***************************************************************************)
JobState == {"QUEUED", "PROCESSING", "COMPLETED", "FAILED", "RETRYING", "CANCELLED", "DEAD_LETTER"}

Row == [state : JobState, worker : JobType \cup {None}]
Drawer == [id : Job, state : JobState]

\* Types of the rows, the workers, the timers and the drawer.
TypeOK ==
  /\ jobs \in [Job -> Row \cup {None}]
  /\ workers \in [JobType -> {"ALIVE", "BUSY", "DEAD"}]
  /\ starting \subseteq NewJob \X EnqueuedType /\ finishing \subseteq NewJob
  /\ redoing \in [Job -> 0 .. MaxClicks] /\ reaping \in 0 .. MaxClicks /\ clicks \in 0 .. MaxClicks
  /\ selectedJob \in Drawer \cup {None}

\* Whatever is cancelled, retried, reclaimed or requeued from a drawer that
\* is out of date: a job shown as unfinished has a timer pending that will
\* finish it, unless it is a seeded row that nobody has touched.
NothingHangs ==
  \A j \in Job : Shown(j) /\ jobs[j].state \in {"QUEUED", "PROCESSING", "RETRYING"} =>
    \/ j \in finishing
    \/ redoing[j] > 0
    \/ j \in DOMAIN SeedJobs /\ jobs[j] = SeedJobs[j]
=============================================================================
