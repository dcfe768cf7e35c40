------------------------------ MODULE JobSystem ------------------------------
(***************************************************************************)
(* The job system of apps/api/src/modules/jobs for one worker type: the    *)
(* API calls of JobsService, the bus that carries dispatched jobs, the     *)
(* BaseWorker that runs them under a job lock, the repository row and the  *)
(* cached state of each job.  Worker types share nothing but code (each    *)
(* has its topic, its worker and its job ids), so one stands for the six.  *)
(*                                                                         *)
(* The processes are the asynchronous call chains of the Node event loop:  *)
(* an HTTP call with everything it awaits, the dispatch of one flushed     *)
(* event, a setImmediate callback.  An action is the code between two      *)
(* awaits.  A chain that has answered its HTTP call and scheduled a        *)
(* setImmediate goes on as that callback.                                  *)
(***************************************************************************)
EXTENDS Integers, FiniteSets, TLC, JobLocks, JobBus

CONSTANTS Key,         \* idempotency keys
          NoKey,       \* the enqueue request carries no key
          Retries,     \* the values of maxRetries in enqueue requests
          Concurrency, \* the worker's limit on active jobs
          MaxSubs,     \* bound: worker starts, each of which subscribes again
          MaxCalls     \* bound: cancel and retry calls

ASSUME BoundsAssumption ==
  /\ Retries \subseteq Nat
  /\ Concurrency \in Nat \ {0}
  /\ MaxSubs \in Nat \ {0}
  /\ MaxCalls \in Nat
  /\ NoKey \notin Key

VARIABLES repo,       \* repo[j]: the row of job j in JobsRepository
          idem,       \* idempotencyMap
          cache,      \* memoryStateCache: the state last cached for job j
          worker,     \* isRunning of the worker, and how far stop() has come
          crashed,    \* isSimulatedCrashed
          active,     \* activeJobs: the token in the worker's entry for job j
          drained,    \* entries that the loop of stop() has passed
          restoring,  \* what RESTORE_SERVICES has yet to do to the worker
          pc,         \* where each call chain stands
          task,       \* the job (record or event) each call chain carries
          hop,        \* the subscriber being served; 0 outside a delivery
          aborted,    \* chains whose run has its AbortController aborted
          calls,      \* cancel and retry calls so far
          turnedAway  \* history: jobs that the worker refused since last queued

serviceVars == <<repo, idem, cache>>
workerVars == <<worker, crashed, active, drained, restoring>>
chainVars == <<pc, task, hop, aborted>>
vars == <<lockVars, busVars, serviceVars, workerVars, chainVars, calls, turnedAway>>

-----------------------------------------------------------------------------
States == {"QUEUED", "PROCESSING", "RETRYING", "COMPLETED", "CANCELLED", "DEAD_LETTER"}
Terminal == {"COMPLETED", "CANCELLED", "DEAD_LETTER"}

Row == [state : States \cup {"none"}, attempt : Nat, maxRetries : Nat, key : Key \cup {NoKey}]
NoRow == [state |-> "none", attempt |-> 0, maxRetries |-> 0, key |-> NoKey]

\* What a chain knows of its job: the copy it was handed, never re-read.
Task == [job : Job \cup {None}, attempt : Nat, maxRetries : Nat, key : Key \cup {NoKey},
         flushed : BOOLEAN]
Event == {e \in Task : e.job \in Job}
TaskOf(j, a, m, k) ==
  [job |-> j, attempt |-> a, maxRetries |-> m, key |-> k, flushed |-> FALSE]
NoTask == TaskOf(None, 0, 0, NoKey)

\* processJob between the acquisition of the lock and its release.
Holding == {"locked", "registered", "executing", "finally"}
Calling == {"create", "cancel", "cancelCache", "requeue", "cacheQueued", "publish"}
PC == Holding \cup Calling \cup {"idle", "dispatch", "trigger", "immediate", "delete"}

ServiceTypeOK ==
  /\ repo \in [Job -> Row]
  /\ idem \in [Key -> Job \cup {None}]
  /\ cache \in [Job -> States \cup {"none"}]

WorkerTypeOK ==
  /\ worker \in {"up", "down", "stopping", "stopped"}
  /\ crashed \in BOOLEAN
  /\ active \in [Job -> Thread \cup {None}]
  /\ drained \in SUBSET Job
  /\ restoring \in {"nothing", "start", "subscribe"}

\* A chain past "create" works on a job.
ChainTypeOK ==
  /\ pc \in [Thread -> PC]
  /\ task \in [Thread -> Task]
  /\ hop \in [Thread -> Nat]
  /\ aborted \in SUBSET Thread
  /\ \A t \in Thread : pc[t] \notin {"idle", "create"} => task[t].job \in Job

TypeOK ==
  /\ LockTypeOK
  /\ BusTypeOK(Event)
  /\ ServiceTypeOK
  /\ WorkerTypeOK
  /\ ChainTypeOK
  /\ calls \in Nat
  /\ turnedAway \in SUBSET Job

Init ==
  /\ LockInit
  /\ BusInit
  /\ repo = [j \in Job |-> NoRow]
  /\ idem = [k \in Key |-> None]
  /\ cache = [j \in Job |-> "none"]
  /\ worker = "up"
  /\ crashed = FALSE
  /\ active = [j \in Job |-> None]
  /\ drained = {}
  /\ restoring = "nothing"
  /\ pc = [t \in Thread |-> "idle"]
  /\ task = [t \in Thread |-> NoTask]
  /\ hop = [t \in Thread |-> 0]
  /\ aborted = {}
  /\ calls = 0
  /\ turnedAway = {}

Goto(t, l) == pc' = [pc EXCEPT ![t] = l]

\* The chain ends: its HTTP call is answered or its promise settles.
End(t) ==
  /\ Goto(t, "idle")
  /\ task' = [task EXCEPT ![t] = NoTask]
  /\ hop' = [hop EXCEPT ![t] = 0]
  /\ aborted' = aborted \ {t}

-----------------------------------------------------------------------------
(* JobsService: enqueueJob, cancelJob, retryJob                            *)

Unused == {j \in Job : repo[j].state = "none"}

\* Fault variant of EnqueueJob: the state is cached before the row is created.
EnqueueBeforeCreate(t, k, m) ==
  /\ pc[t] = "idle"
  /\ k \in Key => idem[k] = None
  /\ Goto(t, "cacheQueued")
  /\ task' = [task EXCEPT ![t] = TaskOf(None, 0, m, k)]
  /\ UNCHANGED <<lockVars, busVars, serviceVars, workerVars, hop, aborted, calls, turnedAway>>

\* enqueueJob up to its await on findByIdempotencyKey.  A key that is found
\* returns the existing job and changes nothing.
EnqueueJob(t, k, m) ==
  /\ pc[t] = "idle"
  /\ Cardinality({u \in Thread : pc[u] = "create"}) < Cardinality(Unused)
  /\ k \in Key => idem[k] = None
  /\ Goto(t, "create")
  /\ task' = [task EXCEPT ![t] = TaskOf(None, 0, m, k)]
  /\ UNCHANGED <<lockVars, busVars, serviceVars, workerVars, hop, aborted, calls, turnedAway>>

\* repository.createJob; the job gets the next unused id.
CreateJob(t) ==
  /\ pc[t] = "create"
  /\ \E j \in Unused :
       /\ repo' = [repo EXCEPT ![j] = [state |-> "QUEUED", attempt |-> 0,
            maxRetries |-> task[t].maxRetries, key |-> task[t].key]]
       /\ idem' = IF task[t].key = NoKey THEN idem
                  ELSE [idem EXCEPT ![task[t].key] = j]
       /\ task' = [task EXCEPT ![t].job = j]
  /\ Goto(t, "cacheQueued")
  /\ UNCHANGED <<lockVars, busVars, cache, workerVars, hop, aborted, calls, turnedAway>>

CacheQueued(t) ==
  /\ pc[t] = "cacheQueued"
  /\ cache' = [cache EXCEPT ![task[t].job] = "QUEUED"]
  /\ turnedAway' = turnedAway \ {task[t].job}
  /\ Goto(t, "publish")
  /\ UNCHANGED <<lockVars, busVars, repo, idem, workerVars, task, hop, aborted, calls>>

\* publishJobDispatched: into the offline buffer, or to the subscribers.
PublishJobDispatched(t) ==
  /\ pc[t] = "publish"
  /\ Publish(task[t])
  /\ Goto(t, IF kafkaOnline THEN "dispatch" ELSE "trigger")
  /\ hop' = [hop EXCEPT ![t] = IF kafkaOnline THEN 1 ELSE 0]
  /\ UNCHANGED <<lockVars, serviceVars, workerVars, task, aborted, calls, turnedAway>>

ActiveCount == Cardinality({j \in Job : active[j] # None})

IsAvailable == worker = "up" /\ ActiveCount < Concurrency

\* After the publish has returned, setImmediate(processJob) if the worker is
\* available at this moment; otherwise the call only answers.
TriggerLocalWorker(t) ==
  /\ pc[t] = "trigger"
  /\ IsAvailable
  /\ Goto(t, "immediate")
  /\ hop' = [hop EXCEPT ![t] = 0]
  /\ UNCHANGED <<lockVars, busVars, serviceVars, workerVars, task, aborted, calls, turnedAway>>

SkipLocalWorker(t) ==
  /\ pc[t] = "trigger"
  /\ ~IsAvailable
  /\ End(t)
  /\ UNCHANGED <<lockVars, busVars, serviceVars, workerVars, calls, turnedAway>>

\* Fault variant of LiveState: the cached state always wins.
LiveStateFromCache(j) == IF cache[j] # "none" THEN cache[j] ELSE repo[j].state

\* getJob: the cached state stands in for a repository state that is not final.
LiveState(j) ==
  IF repo[j].state \in {"QUEUED", "PROCESSING", "RETRYING"} /\ cache[j] # "none"
  THEN cache[j] ELSE repo[j].state

\* cancelJob and retryJob up to the await on getJob.
CancelJob(t, j) ==
  /\ pc[t] = "idle"
  /\ calls < MaxCalls
  /\ j \notin Unused
  /\ LiveState(j) \notin Terminal
  /\ Goto(t, "cancel")
  /\ task' = [task EXCEPT ![t] = TaskOf(j, 0, 0, NoKey)]
  /\ calls' = calls + 1
  /\ UNCHANGED <<lockVars, busVars, serviceVars, workerVars, hop, aborted, turnedAway>>

CancelRow(t) ==
  /\ pc[t] = "cancel"
  /\ repo' = [repo EXCEPT ![task[t].job].state = "CANCELLED"]
  /\ Goto(t, "cancelCache")
  /\ UNCHANGED <<lockVars, busVars, idem, cache, workerVars, task, hop, aborted, calls, turnedAway>>

CancelCache(t) ==
  /\ pc[t] = "cancelCache"
  /\ cache' = [cache EXCEPT ![task[t].job] = "CANCELLED"]
  /\ End(t)
  /\ UNCHANGED <<lockVars, busVars, repo, idem, workerVars, calls, turnedAway>>

RetryJob(t, j, resetAttempts) ==
  /\ pc[t] = "idle"
  /\ calls < MaxCalls
  /\ j \notin Unused
  /\ LiveState(j) # "PROCESSING"
  /\ Goto(t, "requeue")
  /\ LET attempt == IF resetAttempts THEN 0 ELSE repo[j].attempt IN
     task' = [task EXCEPT ![t] = TaskOf(j, attempt, 0, NoKey)]
  /\ calls' = calls + 1
  /\ UNCHANGED <<lockVars, busVars, serviceVars, workerVars, hop, aborted, turnedAway>>

\* The updated row is the record that is published and run.
RequeueRow(t) ==
  LET j == task[t].job IN
  /\ pc[t] = "requeue"
  /\ repo' = [repo EXCEPT ![j].state = "QUEUED", ![j].attempt = task[t].attempt]
  /\ task' = [task EXCEPT ![t].maxRetries = repo[j].maxRetries, ![t].key = repo[j].key]
  /\ Goto(t, "cacheQueued")
  /\ UNCHANGED <<lockVars, busVars, idem, cache, workerVars, hop, aborted, calls, turnedAway>>

-----------------------------------------------------------------------------
(* The bus: delivery to the worker's handlers, flush of the offline buffer *)

\* Fault variant of FlushJob: the loop over the handlers starts at the second.
FlushJobPastFirst(t) ==
  /\ pc[t] = "idle"
  /\ FlushHead
  /\ Goto(t, "dispatch")
  /\ task' = [task EXCEPT ![t] = [Head(buffer) EXCEPT !.flushed = TRUE]]
  /\ hop' = [hop EXCEPT ![t] = 2]
  /\ UNCHANGED <<lockVars, serviceVars, workerVars, aborted, calls, turnedAway>>

\* One turn of the flush loop, which starts an un-awaited dispatch per event.
FlushJob(t) ==
  /\ pc[t] = "idle"
  /\ FlushHead
  /\ Goto(t, "dispatch")
  /\ task' = [task EXCEPT ![t] = [Head(buffer) EXCEPT !.flushed = TRUE]]
  /\ hop' = [hop EXCEPT ![t] = 1]
  /\ UNCHANGED <<lockVars, serviceVars, workerVars, aborted, calls, turnedAway>>

\* Every handler has returned: the awaiting publish returns to its API call.
DeliveryDone(t) ==
  /\ pc[t] = "dispatch"
  /\ hop[t] > subs
  /\ IF task[t].flushed THEN End(t)
     ELSE Goto(t, "trigger") /\ UNCHANGED <<task, hop, aborted>>
  /\ UNCHANGED <<lockVars, busVars, serviceVars, workerVars, calls, turnedAway>>

-----------------------------------------------------------------------------
(* BaseWorker: processJob                                                  *)

\* A chain about to call processJob: a handler of the topic, or setImmediate.
AtWorker(t) == (pc[t] = "dispatch" /\ hop[t] <= subs) \/ pc[t] = "immediate"

\* The handler returns unless the worker runs; processJob itself only looks
\* at the crash flag.
WorkerListens(t) == IF hop[t] > 0 THEN worker = "up" ELSE ~crashed

HasCapacity == ActiveCount < Concurrency

\* processJob up to the await on acquireJobLock.
StartRun(t) ==
  /\ AtWorker(t)
  /\ WorkerListens(t)
  /\ HasCapacity
  /\ AcquireJobLock(task[t].job, t)
  /\ Goto(t, "locked")
  /\ UNCHANGED <<busVars, serviceVars, workerVars, task, hop, aborted, calls, turnedAway>>

\* Fault variant of AfterRun: the event is offered to the same handler again.
AfterRunRedelivers(t) ==
  IF hop[t] > 0
  THEN Goto(t, "dispatch") /\ aborted' = aborted \ {t} /\ UNCHANGED <<task, hop>>
  ELSE End(t)

\* Where a chain goes on after one call of processJob.
AfterRun(t) ==
  IF hop[t] > 0
  THEN /\ Goto(t, "dispatch")
       /\ hop' = [hop EXCEPT ![t] = @ + 1]
       /\ aborted' = aborted \ {t}
       /\ UNCHANGED task
  ELSE End(t)

\* Worker down, at its limit, or the job locked: processJob returns and the
\* event is not kept for later.
RefuseRun(t) ==
  /\ AtWorker(t)
  /\ ~(WorkerListens(t) /\ HasCapacity /\ LockFree(task[t].job))
  /\ AfterRun(t)
  /\ turnedAway' = turnedAway \cup {task[t].job}
  /\ UNCHANGED <<lockVars, busVars, serviceVars, workerVars, calls>>

RegisterRun(t) ==
  /\ pc[t] = "locked"
  /\ active' = [active EXCEPT ![task[t].job] = t]
  /\ Goto(t, "registered")
  /\ UNCHANGED <<lockVars, busVars, serviceVars, worker, crashed, drained, restoring,
                 task, hop, aborted, calls, turnedAway>>

SetCache(t, state) == cache' = [cache EXCEPT ![task[t].job] = state]

\* Marks the job and arms the abort timer; execute begins.
MarkProcessing(t) ==
  /\ pc[t] = "registered"
  /\ SetCache(t, "PROCESSING")
  /\ Goto(t, "executing")
  /\ UNCHANGED <<lockVars, busVars, repo, idem, workerVars, task, hop, aborted, calls, turnedAway>>

\* A progress callback; ignored once the run is aborted.
ReportProgress(t) ==
  /\ pc[t] = "executing"
  /\ t \notin aborted
  /\ SetCache(t, "PROCESSING")
  /\ UNCHANGED <<lockVars, busVars, repo, idem, workerVars, chainVars, calls, turnedAway>>

\* The timer of timeoutSeconds.
Timeout(t) ==
  /\ pc[t] = "executing"
  /\ t \notin aborted
  /\ aborted' = aborted \cup {t}
  /\ UNCHANGED <<lockVars, busVars, serviceVars, workerVars, pc, task, hop, calls, turnedAway>>

\* The way out of execute: cache the outcome, publish it, go to the finally block.
\* publishJobRetry and publishJobDeadLetter reach no handler, at once or from the
\* offline buffer, so the models keep no event for them.
Settle(t, state) ==
  /\ pc[t] = "executing"
  /\ SetCache(t, state)
  /\ Goto(t, "finally")
  /\ UNCHANGED <<lockVars, busVars, repo, idem, workerVars, task, hop, aborted, calls, turnedAway>>

Complete(t) == t \notin aborted /\ Settle(t, "COMPLETED")

AbandonAborted(t) == t \in aborted /\ Settle(t, "CANCELLED")

\* The record synthesized from an event turns maxRetries 0 into 3.
RunRetries(t) ==
  IF hop[t] > 0 /\ task[t].maxRetries = 0 THEN 3 ELSE task[t].maxRetries

NextAttempt(t) == task[t].attempt + 1

FailRetryable(t) ==
  /\ t \notin aborted
  /\ NextAttempt(t) <= RunRetries(t)
  /\ Settle(t, "RETRYING")

FailExhausted(t) ==
  /\ t \notin aborted
  /\ NextAttempt(t) > RunRetries(t)
  /\ Settle(t, "DEAD_LETTER")

FailFatal(t) == t \notin aborted /\ Settle(t, "DEAD_LETTER")

\* Fault variant of ReleaseRun: an aborted run returns without its release.
ReleaseRunUnlessAborted(t) ==
  /\ pc[t] = "finally"
  /\ IF t \in aborted THEN UNCHANGED lockVars ELSE ReleaseJobLock(task[t].job, t)
  /\ Goto(t, "delete")
  /\ UNCHANGED <<busVars, serviceVars, workerVars, task, hop, aborted, calls, turnedAway>>

\* The finally block: release, await, then delete the entry of the job,
\* whichever run it belongs to by now.
ReleaseRun(t) ==
  /\ pc[t] = "finally"
  /\ ReleaseJobLock(task[t].job, t)
  /\ Goto(t, "delete")
  /\ UNCHANGED <<busVars, serviceVars, workerVars, task, hop, aborted, calls, turnedAway>>

DeleteActive(t) ==
  /\ pc[t] = "delete"
  /\ active' = [active EXCEPT ![task[t].job] = None]
  /\ drained' = drained \ {task[t].job}
  /\ AfterRun(t)
  /\ UNCHANGED <<lockVars, busVars, serviceVars, worker, crashed, restoring, calls, turnedAway>>

-----------------------------------------------------------------------------
(* BaseWorker: stop, simulateCrash, start; the chaos endpoint; the clock   *)

SimulateCrash ==
  /\ worker = "up"
  /\ worker' = "down"
  /\ crashed' = TRUE
  /\ UNCHANGED <<lockVars, busVars, serviceVars, active, drained, restoring,
                 chainVars, calls, turnedAway>>

\* The chaos calls are made one at a time.
KafkaOutage ==
  /\ restoring = "nothing"
  /\ GoOffline
  /\ UNCHANGED <<lockVars, serviceVars, workerVars, chainVars, calls, turnedAway>>

\* RESTORE_SERVICES: Kafka first (the flush begins), then start(), which returns
\* at once when the worker runs.
RestoreServices ==
  /\ worker \in {"up", "down"}
  /\ restoring = "nothing"
  /\ ~kafkaOnline \/ worker = "down"
  /\ worker = "down" => subs < MaxSubs
  /\ GoOnline
  /\ restoring' = IF worker = "down" THEN "start" ELSE "nothing"
  /\ UNCHANGED <<lockVars, serviceVars, worker, crashed, active, drained, chainVars,
                 calls, turnedAway>>

\* start() up to its await on the heartbeat.  The flush has called the first
\* handler of every buffered event by then.
StartWorker ==
  /\ restoring = "start"
  /\ buffer = <<>>
  /\ \A t \in Thread : task[t].flushed => hop[t] # 1 \/ pc[t] # "dispatch"
  /\ restoring' = "subscribe"
  /\ worker' = "up"
  /\ crashed' = FALSE
  /\ UNCHANGED <<lockVars, busVars, serviceVars, active, drained, chainVars, calls, turnedAway>>

\* The handlers of earlier starts remain.
SubscribeWorker ==
  /\ restoring = "subscribe"
  /\ restoring' = "nothing"
  /\ Subscribe
  /\ UNCHANGED <<lockVars, serviceVars, worker, crashed, active, drained, chainVars,
                 calls, turnedAway>>

\* stop(), at module destruction.  Nothing starts the worker afterwards.
Stop ==
  /\ worker \in {"up", "down"}
  /\ restoring = "nothing"
  /\ worker' = "stopping"
  /\ UNCHANGED <<lockVars, busVars, serviceVars, crashed, active, drained, restoring,
                 chainVars, calls, turnedAway>>

\* One turn of its loop: abort the entry's run, release the entry's lock.
StopEntry(j) ==
  /\ worker = "stopping"
  /\ active[j] # None
  /\ j \notin drained
  /\ aborted' = aborted \cup {active[j]}
  /\ ReleaseJobLock(j, active[j])
  /\ drained' = drained \cup {j}
  /\ UNCHANGED <<busVars, serviceVars, worker, crashed, active, restoring,
                 pc, task, hop, calls, turnedAway>>

StopDone ==
  /\ worker = "stopping"
  /\ \A j \in Job : active[j] # None => j \in drained
  /\ worker' = "stopped"
  /\ active' = [j \in Job |-> None]
  /\ drained' = {}
  /\ UNCHANGED <<lockVars, busVars, serviceVars, crashed, restoring, chainVars, calls, turnedAway>>

\* A lease outlives the abort timer by ten seconds: it cannot expire before
\* the run that took it is aborted.
PassLease(j) ==
  /\ lock[j] \in aborted
  /\ LeaseExpires(j)
  /\ UNCHANGED <<busVars, serviceVars, workerVars, chainVars, calls, turnedAway>>

CleanLeases ==
  /\ CleanupExpired
  /\ UNCHANGED <<busVars, serviceVars, workerVars, chainVars, calls, turnedAway>>

-----------------------------------------------------------------------------
Request(t) ==
  \/ \E k \in Key \cup {NoKey}, m \in Retries : EnqueueJob(t, k, m)
  \/ \E j \in Job : CancelJob(t, j)
  \/ \E j \in Job, reset \in BOOLEAN : RetryJob(t, j, reset)

\* What the event loop runs by itself once the chain has begun.
Advance(t) ==
  \/ CreateJob(t) \/ CacheQueued(t) \/ PublishJobDispatched(t)
  \/ TriggerLocalWorker(t) \/ SkipLocalWorker(t)
  \/ CancelRow(t) \/ CancelCache(t) \/ RequeueRow(t)
  \/ DeliveryDone(t) \/ StartRun(t) \/ RefuseRun(t)
  \/ RegisterRun(t) \/ MarkProcessing(t)
  \/ Complete(t) \/ AbandonAborted(t)
  \/ FailRetryable(t) \/ FailExhausted(t) \/ FailFatal(t)
  \/ ReleaseRun(t) \/ DeleteActive(t)

Operate ==
  \/ SimulateCrash \/ KafkaOutage \/ RestoreServices
  \/ Stop

Next ==
  \/ \E t \in Thread : Request(t) \/ Advance(t) \/ FlushJob(t) \/ ReportProgress(t) \/ Timeout(t)
  \/ Operate
  \/ StartWorker \/ SubscribeWorker
  \/ \E j \in Job : StopEntry(j) \/ PassLease(j)
  \/ StopDone
  \/ CleanLeases

Spec == Init /\ [][Next]_vars

\* For TLC: jobs and call chains are told apart by name only.
Symmetry == Permutations(Job) \cup Permutations(Thread)

\* Settled promises, timers and setImmediate callbacks are all served.
Fairness ==
  /\ \A t \in Thread : WF_vars(Advance(t))
  /\ WF_vars(\E t \in Thread : FlushJob(t))
  /\ WF_vars(StartWorker) /\ WF_vars(SubscribeWorker)

FairSpec == Spec /\ Fairness

-----------------------------------------------------------------------------
\* A run of processJob that holds its lock's promise: acquired, not aborted.
Live(t) == pc[t] \in Holding /\ t \notin aborted

(***************************************************************************)
(* At most one un-aborted run of a job is between the acquisition and the  *)
(* release of its lock (base.worker.ts processJob), whatever crashes,      *)
(* timeouts, lease expiries, retries and shutdowns come in between.        *)
(***************************************************************************)
OneLiveRun ==
  \A t, u \in Thread :
    Live(t) /\ Live(u) /\ task[t].job = task[u].job => t = u

(***************************************************************************)
(* Every lock entry and every activeJobs entry belongs to a run of that    *)
(* job that is still under way, so neither a lock nor a concurrency slot   *)
(* leaks on any path through processJob and stop.                          *)
(***************************************************************************)
NothingLeaks ==
  \A j \in Job :
    /\ lock[j] # None => pc[lock[j]] \in Holding /\ task[lock[j]].job = j
    /\ active[j] # None => /\ pc[active[j]] \in Holding \cup {"delete"}
                           /\ task[active[j]].job = j

\* The runner of a job: the owner of its lock entry, unless it has been aborted.
Runner == [j \in Job |-> IF lock[j] \in aborted THEN None ELSE lock[j]]

Lease == INSTANCE JobLease WITH runner <- Runner

(***************************************************************************)
(* The locks, the abort controllers and the shutdown together keep the     *)
(* promise of JobLease: a job changes hands only through being given up.   *)
(***************************************************************************)
LeaseKept == Lease!Spec

Buffered(j) == \E i \in 1..Len(buffer) : buffer[i].job = j

Carried(j) ==
  \/ \E t \in Thread : task[t].job = j /\ pc[t] \in
       {"cacheQueued", "publish", "dispatch", "trigger", "immediate", "locked", "registered"}
  \/ Buffered(j)

(***************************************************************************)
(* A job that is QUEUED in the repository and in the cache is still on its *)
(* way to the worker (in a call, on the bus, in the offline buffer), or a  *)
(* worker has turned it away since it was queued: Kafka outages and        *)
(* flushes lose no job by themselves.                                      *)
(***************************************************************************)
QueuedIsCarried ==
  \A j \in Job :
    repo[j].state = "QUEUED" /\ cache[j] = "QUEUED" => Carried(j) \/ j \in turnedAway

(***************************************************************************)
(* Once cancelJob has written its row, getJob shows CANCELLED until a      *)
(* retry queues the job again, although a run still under way goes on      *)
(* writing PROCESSING and COMPLETED to the cache.                          *)
(***************************************************************************)
CancelHolds ==
  [][\A j \in Job : repo[j].state = "CANCELLED" =>
       LiveState(j)' = "CANCELLED" \/ repo'[j].state = "QUEUED"]_vars

(***************************************************************************)
(* Every call chain ends: an enqueue or retry call, which awaits the run   *)
(* of its job by every subscriber in turn, is answered in the end, also    *)
(* across crashes, outages and shutdown.                                   *)
(***************************************************************************)
EveryCallReturns == \A t \in Thread : pc[t] # "idle" ~> pc[t] = "idle"

(***************************************************************************)
(* A queued job is taken up, is turned away by a worker, or waits in the   *)
(* offline buffer for Kafka to come back.                                  *)
(***************************************************************************)
QueuedIsDecided ==
  \A j \in Job :
    cache[j] = "QUEUED" ~> cache[j] # "QUEUED" \/ j \in turnedAway \/ Buffered(j)

-----------------------------------------------------------------------------
(* What the documents say of the system and the code does not do.          *)

(***************************************************************************)
(* A job that has COMPLETED is not run again unless it is queued again:    *)
(* docs/architecture/events.md 5.1, "Consumers must handle duplicate       *)
(* deliveries gracefully".                                                 *)
(***************************************************************************)
NoSecondRun ==
  [][\A j \in Job : cache[j] = "COMPLETED" => cache'[j] # "PROCESSING"]_vars

(***************************************************************************)
(* A job that failed with a retryable error does not stay RETRYING while   *)
(* the worker is up and the bus online: docs/events.md 2, "automatically   *)
(* routed through exponential backoff retry queues".                       *)
(***************************************************************************)
RetryHappens ==
  \A j \in Job :
    cache[j] = "RETRYING" ~> cache[j] # "RETRYING" \/ worker # "up" \/ ~kafkaOnline

(***************************************************************************)
(* No two jobs are created for one idempotency key: docs/events.md 3, "Key *)
(* Exists: Return existing in-flight/completed Job record (0 duplicate     *)
(* jobs created)".                                                         *)
(***************************************************************************)
OneJobPerKey ==
  \A i, j \in Job : repo[i].key # NoKey /\ repo[i].key = repo[j].key => i = j
=============================================================================
