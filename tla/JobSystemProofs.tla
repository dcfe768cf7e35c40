--------------------------- MODULE JobSystemProofs ---------------------------
(***************************************************************************)
(* Types of JobSystem, the way of a queued job, what a cancellation means, *)
(* mutual exclusion of the runs of a job and the lease that its locks      *)
(* implement, for any set of jobs, call chains and keys, any concurrency   *)
(* limit and any bounds.                                                   *)
(***************************************************************************)
EXTENDS JobSystem, TLAPS

\* The records that the actions put into task and repo.
LEMMA TaskOfType ==
  \A j \in Job \cup {None}, a \in Nat, m \in Nat, k \in Key \cup {NoKey} :
    /\ TaskOf(j, a, m, k) \in Task
    /\ TaskOf(j, a, m, k).job = j
BY DEF TaskOf, Task

LEMMA NoTaskType == NoTask \in Task
BY TaskOfType DEF NoTask

LEMMA TaskUpdate ==
  ASSUME NEW x \in Task
  PROVE  /\ \A j \in Job : [x EXCEPT !.job = j] \in Task /\ [x EXCEPT !.job = j].job = j
         /\ \A m \in Nat, k \in Key \cup {NoKey} :
              /\ [x EXCEPT !.maxRetries = m, !.key = k] \in Task
              /\ [x EXCEPT !.maxRetries = m, !.key = k].job = x.job
         /\ [x EXCEPT !.flushed = TRUE] \in Task
         /\ [x EXCEPT !.flushed = TRUE].job = x.job
         /\ x.job \in Job \cup {None} /\ x.attempt \in Nat /\ x.maxRetries \in Nat
         /\ x.key \in Key \cup {NoKey}
BY DEF Task

LEMMA RowUpdate ==
  ASSUME NEW x \in Row
  PROVE  /\ \A s \in States : [x EXCEPT !.state = s] \in Row
         /\ \A s \in States, a \in Nat : [x EXCEPT !.state = s, !.attempt = a] \in Row
         /\ x.attempt \in Nat /\ x.maxRetries \in Nat /\ x.key \in Key \cup {NoKey}
BY DEF Row

\* A chain moves on with another record of a job.
LEMMA ChainMove ==
  ASSUME ChainTypeOK, NEW t \in Thread, NEW l \in PC, NEW x \in Task, x.job \in Job,
         pc' = [pc EXCEPT ![t] = l], task' = [task EXCEPT ![t] = x],
         hop' \in [Thread -> Nat], aborted' \in SUBSET Thread
  PROVE  ChainTypeOK'
BY DEF ChainTypeOK

\* The end of a chain, and of one call of processJob.
LEMMA EndType ==
  ASSUME ChainTypeOK, NEW t \in Thread, End(t)
  PROVE  ChainTypeOK'
BY NoTaskType DEF ChainTypeOK, End, Goto, PC

LEMMA AfterRunType ==
  ASSUME ChainTypeOK, NEW t \in Thread, AfterRun(t), pc[t] \notin {"idle", "create"}
  PROVE  ChainTypeOK'
<1>1. CASE hop[t] > 0
  BY <1>1 DEF ChainTypeOK, AfterRun, Goto, PC
<1>2. CASE ~(hop[t] > 0)
  BY <1>2, EndType DEF AfterRun
<1>3. QED
  BY <1>1, <1>2

\* Every step keeps the types.
LEMMA TypeStep == TypeOK /\ [Next]_vars => TypeOK'
<1> USE NoneAssumption, BoundsAssumption
<1> SUFFICES ASSUME TypeOK, [Next]_vars
             PROVE  TypeOK'
  OBVIOUS
<1> USE DEF TypeOK, LockTypeOK, BusTypeOK, ServiceTypeOK, WorkerTypeOK, ChainTypeOK, PC, Calling, Holding,
        States, lockVars, busVars, serviceVars, workerVars, chainVars
<1>1. ASSUME NEW t \in Thread, NEW k \in Key \cup {NoKey}, NEW m \in Retries, EnqueueJob(t, k, m)
      PROVE  TypeOK'
  BY <1>1, TaskOfType DEF EnqueueJob, Goto
<1>2. ASSUME NEW t \in Thread, NEW j \in Job, CancelJob(t, j)
      PROVE  TypeOK'
  BY <1>2, TaskOfType DEF CancelJob, Goto, Unused
<1>3. ASSUME NEW t \in Thread, NEW j \in Job, NEW r \in BOOLEAN, RetryJob(t, j, r)
      PROVE  TypeOK'
  <2> DEFINE a == IF r THEN 0 ELSE repo[j].attempt
             x == TaskOf(j, a, 0, NoKey)
  <2>1. a \in Nat
    BY RowUpdate
  <2>2. x \in Task /\ x.job = j
    BY <2>1, TaskOfType
  <2>3. task' = [task EXCEPT ![t] = x]
    BY <1>3 DEF RetryJob
  <2> HIDE DEF x
  <2>4. ChainTypeOK'
    BY <1>3, <2>2, <2>3 DEF RetryJob, Goto
  <2>5. LockTypeOK' /\ BusTypeOK(Event)' /\ ServiceTypeOK' /\ WorkerTypeOK'
    BY <1>3 DEF RetryJob
  <2>6. calls' \in Nat /\ turnedAway' \in SUBSET Job
    <3>1. calls' = calls + 1 /\ turnedAway' = turnedAway
      BY <1>3 DEF RetryJob
    <3>2. QED
      BY <3>1
  <2>7. QED
    BY <2>4, <2>5, <2>6
<1>4. ASSUME NEW t \in Thread, CreateJob(t)
      PROVE  TypeOK'
  <2> DEFINE y == [state |-> "QUEUED", attempt |-> 0,
                   maxRetries |-> task[t].maxRetries, key |-> task[t].key]
  <2>1. PICK j \in Unused :
          /\ repo' = [repo EXCEPT ![j] = y]
          /\ idem' = IF task[t].key = NoKey THEN idem
                     ELSE [idem EXCEPT ![task[t].key] = j]
          /\ task' = [task EXCEPT ![t].job = j]
    BY <1>4 DEF CreateJob
  <2> DEFINE x == [task[t] EXCEPT !.job = j]
  <2>2. j \in Job
    BY DEF Unused
  <2>3. y \in Row /\ task[t].key \in Key \cup {NoKey}
    BY TaskUpdate DEF Row
  <2>4. x \in Task /\ x.job = j
    BY <2>2, TaskUpdate
  <2>5. task' = [task EXCEPT ![t] = x]
    BY <2>1
  <2> HIDE DEF x, y
  <2>6. ChainTypeOK'
    BY <1>4, <2>2, <2>4, <2>5 DEF CreateJob, Goto
  <2>7. ServiceTypeOK'
    BY <1>4, <2>1, <2>2, <2>3 DEF CreateJob
  <2>8. LockTypeOK' /\ BusTypeOK(Event)' /\ WorkerTypeOK'
    BY <1>4 DEF CreateJob
  <2>9. QED
    BY <1>4, <2>6, <2>7, <2>8 DEF CreateJob
<1>5. ASSUME NEW t \in Thread, CacheQueued(t)
      PROVE  TypeOK'
  BY <1>5 DEF CacheQueued, Goto
<1>6. ASSUME NEW t \in Thread, PublishJobDispatched(t)
      PROVE  TypeOK'
  BY <1>6 DEF PublishJobDispatched, Publish, Goto, Event
<1>7. ASSUME NEW t \in Thread, TriggerLocalWorker(t)
      PROVE  TypeOK'
  BY <1>7 DEF TriggerLocalWorker, Goto
<1>8. ASSUME NEW t \in Thread, SkipLocalWorker(t)
      PROVE  TypeOK'
  <2>1. ChainTypeOK'
    BY <1>8, EndType DEF SkipLocalWorker
  <2>2. QED
    BY <1>8, <2>1 DEF SkipLocalWorker
<1>9. ASSUME NEW t \in Thread, CancelRow(t)
      PROVE  TypeOK'
  BY <1>9, RowUpdate DEF CancelRow, Goto
<1>10. ASSUME NEW t \in Thread, CancelCache(t)
      PROVE  TypeOK'
  <2>1. ChainTypeOK'
    BY <1>10, EndType DEF CancelCache
  <2>2. QED
    BY <1>10, <2>1 DEF CancelCache
<1>11. ASSUME NEW t \in Thread, RequeueRow(t)
      PROVE  TypeOK'
  <2> DEFINE j == task[t].job
             x == [task[t] EXCEPT !.maxRetries = repo[j].maxRetries, !.key = repo[j].key]
             y == [repo[j] EXCEPT !.state = "QUEUED", !.attempt = task[t].attempt]
  <2>1. j \in Job
    BY <1>11 DEF RequeueRow
  <2>2. x \in Task /\ x.job = j
    <3>1. repo[j].maxRetries \in Nat /\ repo[j].key \in Key \cup {NoKey}
      BY <2>1, RowUpdate
    <3>2. task[t] \in Task
      OBVIOUS
    <3>3. \A m \in Nat, k \in Key \cup {NoKey} :
            /\ [task[t] EXCEPT !.maxRetries = m, !.key = k] \in Task
            /\ [task[t] EXCEPT !.maxRetries = m, !.key = k].job = task[t].job
      BY <3>2, TaskUpdate
    <3>4. QED
      BY <3>1, <3>3, Zenon
  <2>3. y \in Row
    BY <2>1, TaskUpdate, RowUpdate
  <2>4. repo' = [repo EXCEPT ![j] = y] /\ task' = [task EXCEPT ![t] = x]
    BY <1>11 DEF RequeueRow
  <2> HIDE DEF x, y
  <2>5. ChainTypeOK'
    <3>1. pc' = [pc EXCEPT ![t] = "cacheQueued"] /\ hop' = hop /\ aborted' = aborted
      BY <1>11 DEF RequeueRow, Goto
    <3>2. QED
      BY <2>1, <2>2, <2>4, <3>1, ChainMove
  <2>6. ServiceTypeOK'
    BY <1>11, <2>1, <2>3, <2>4 DEF RequeueRow
  <2>7. LockTypeOK' /\ BusTypeOK(Event)' /\ WorkerTypeOK'
    BY <1>11 DEF RequeueRow
  <2>8. QED
    BY <1>11, <2>5, <2>6, <2>7 DEF RequeueRow
<1>12. ASSUME NEW t \in Thread, DeliveryDone(t)
      PROVE  TypeOK'
  <2>1. ChainTypeOK'
    <3>1. CASE task[t].flushed
      BY <1>12, <3>1, EndType DEF DeliveryDone
    <3>2. CASE ~task[t].flushed
      BY <1>12, <3>2 DEF DeliveryDone, Goto
    <3>3. QED
      BY <3>1, <3>2
  <2>2. QED
    BY <1>12, <2>1 DEF DeliveryDone
<1>13. ASSUME NEW t \in Thread, StartRun(t)
      PROVE  TypeOK'
  <2>1. pc[t] \in {"dispatch", "immediate"}
    BY <1>13 DEF StartRun, AtWorker
  <2>2. ChainTypeOK'
    BY <1>13, <2>1 DEF StartRun, Goto
  <2>3. LockTypeOK'
    BY <1>13, <2>1 DEF StartRun, AcquireJobLock
  <2>4. QED
    BY <1>13, <2>2, <2>3 DEF StartRun
<1>14. ASSUME NEW t \in Thread, RefuseRun(t)
      PROVE  TypeOK'
  <2>1. pc[t] \in {"dispatch", "immediate"}
    BY <1>14 DEF RefuseRun, AtWorker
  <2>2. ChainTypeOK'
    BY <1>14, <2>1, AfterRunType DEF RefuseRun
  <2>3. QED
    BY <1>14, <2>1, <2>2 DEF RefuseRun
<1>15. ASSUME NEW t \in Thread, RegisterRun(t)
      PROVE  TypeOK'
  BY <1>15 DEF RegisterRun, Goto
<1>16. ASSUME NEW t \in Thread, MarkProcessing(t)
      PROVE  TypeOK'
  BY <1>16 DEF MarkProcessing, SetCache, Goto
<1>17. ASSUME NEW t \in Thread, Complete(t)
      PROVE  TypeOK'
  BY <1>17 DEF Complete, Settle, SetCache, Goto
<1>18. ASSUME NEW t \in Thread, AbandonAborted(t)
      PROVE  TypeOK'
  BY <1>18 DEF AbandonAborted, Settle, SetCache, Goto
<1>19. ASSUME NEW t \in Thread, FailRetryable(t)
      PROVE  TypeOK'
  BY <1>19 DEF FailRetryable, Settle, SetCache, Goto
<1>20. ASSUME NEW t \in Thread, FailExhausted(t)
      PROVE  TypeOK'
  BY <1>20 DEF FailExhausted, Settle, SetCache, Goto
<1>21. ASSUME NEW t \in Thread, FailFatal(t)
      PROVE  TypeOK'
  BY <1>21 DEF FailFatal, Settle, SetCache, Goto
<1>22. ASSUME NEW t \in Thread, ReleaseRun(t)
      PROVE  TypeOK'
  BY <1>22 DEF ReleaseRun, ReleaseJobLock, Goto
<1>23. ASSUME NEW t \in Thread, DeleteActive(t)
      PROVE  TypeOK'
  <2>1. ChainTypeOK'
    BY <1>23, AfterRunType DEF DeleteActive
  <2>2. WorkerTypeOK'
    BY <1>23 DEF DeleteActive
  <2>3. QED
    BY <1>23, <2>1, <2>2 DEF DeleteActive
<1>24. ASSUME NEW t \in Thread, FlushJob(t)
      PROVE  TypeOK'
  <2> DEFINE e == Head(buffer)
             x == [e EXCEPT !.flushed = TRUE]
  <2>1. e \in Event /\ Tail(buffer) \in Seq(Event)
    BY <1>24 DEF FlushJob, FlushHead
  <2>2. x \in Task /\ x.job \in Job
    BY <2>1, TaskUpdate DEF Event
  <2>3. task' = [task EXCEPT ![t] = x]
    BY <1>24 DEF FlushJob
  <2> HIDE DEF x
  <2>4. ChainTypeOK'
    <3>1. pc' = [pc EXCEPT ![t] = "dispatch"] /\ hop' = [hop EXCEPT ![t] = 1] /\ aborted' = aborted
      BY <1>24 DEF FlushJob, Goto
    <3>2. QED
      BY <2>2, <2>3, <3>1, ChainMove
  <2>5. BusTypeOK(Event)'
    BY <1>24, <2>1 DEF FlushJob, FlushHead
  <2>6. QED
    BY <1>24, <2>4, <2>5 DEF FlushJob
<1>25. ASSUME NEW t \in Thread, ReportProgress(t)
      PROVE  TypeOK'
  BY <1>25 DEF ReportProgress, SetCache
<1>26. ASSUME NEW t \in Thread, Timeout(t)
      PROVE  TypeOK'
  BY <1>26 DEF Timeout
<1>27. ASSUME SimulateCrash
      PROVE  TypeOK'
  BY <1>27 DEF SimulateCrash
<1>28. ASSUME KafkaOutage
      PROVE  TypeOK'
  BY <1>28 DEF KafkaOutage, GoOffline
<1>29. ASSUME RestoreServices
      PROVE  TypeOK'
  BY <1>29 DEF RestoreServices, GoOnline
<1>30. ASSUME Stop
      PROVE  TypeOK'
  BY <1>30 DEF Stop
<1>31. ASSUME StartWorker
      PROVE  TypeOK'
  BY <1>31 DEF StartWorker
<1>32. ASSUME StopDone
      PROVE  TypeOK'
  BY <1>32 DEF StopDone
<1>33. ASSUME CleanLeases
      PROVE  TypeOK'
  BY <1>33 DEF CleanLeases, CleanupExpired
<1>34. ASSUME NEW j \in Job, StopEntry(j)
      PROVE  TypeOK'
  BY <1>34 DEF StopEntry, ReleaseJobLock
<1>35. ASSUME NEW j \in Job, PassLease(j)
      PROVE  TypeOK'
  BY <1>35 DEF PassLease, LeaseExpires
<1>36. ASSUME SubscribeWorker
       PROVE  TypeOK'
  BY <1>36 DEF SubscribeWorker, Subscribe
<1>37. CASE UNCHANGED vars
  BY <1>37 DEF vars
<1>38. QED
  BY <1>1, <1>2, <1>3, <1>4, <1>5, <1>6, <1>7, <1>8, <1>9, <1>10, <1>11,
     <1>12, <1>13, <1>14, <1>15, <1>16, <1>17, <1>18, <1>19, <1>20, <1>21,
     <1>22, <1>23, <1>24, <1>25, <1>26, <1>27, <1>28, <1>29, <1>30, <1>31,
     <1>32, <1>33, <1>34, <1>35, <1>36, <1>37
  DEF Next, Request, Advance, Operate

(***************************************************************************)
(* Type correctness: every variable stays in its range, and every call     *)
(* chain that is past the creation of its job names a job.                 *)
(***************************************************************************)
THEOREM TypeCorrect == Spec => []TypeOK
<1> USE NoneAssumption, BoundsAssumption
<1>1. Init => TypeOK
  <2> SUFFICES ASSUME Init PROVE TypeOK
    OBVIOUS
  <2>1. LockTypeOK
    BY DEF Init, LockInit, LockTypeOK
  <2>2. BusTypeOK(Event)
    BY DEF Init, BusInit, BusTypeOK
  <2>3. ServiceTypeOK
    BY DEF Init, ServiceTypeOK, NoRow, Row
  <2>4. WorkerTypeOK
    BY DEF Init, WorkerTypeOK
  <2>5. ChainTypeOK
    BY NoTaskType DEF Init, ChainTypeOK, PC
  <2>6. QED
    BY <2>1, <2>2, <2>3, <2>4, <2>5 DEF Init, TypeOK
<1>2. QED
  BY <1>1, TypeStep, PTL DEF Spec

-----------------------------------------------------------------------------
(***************************************************************************)
(* No queued job is lost between the API call and the worker, and a        *)
(* cancellation stays visible.                                             *)
(***************************************************************************)
Queued(j) == repo[j].state = "QUEUED" /\ cache[j] = "QUEUED"

\* Carriers that cannot leave before the worker has been asked: a delivery
\* counts only while its first handler has not been served.
AskingFor(t, j) ==
  /\ task[t].job = j
  /\ \/ pc[t] \in {"cacheQueued", "publish", "immediate", "locked", "registered"}
     \/ pc[t] = "dispatch" /\ hop[t] = 1

QueueInv ==
  /\ subs >= 1
  /\ \A j \in Job : Queued(j) =>
       (\E t \in Thread : AskingFor(t, j)) \/ Buffered(j) \/ j \in turnedAway

\* The step concerns no chain but t.
OthersWait(t) ==
  \A u \in Thread \ {t} : pc'[u] = pc[u] /\ task'[u] = task[u] /\ hop'[u] = hop[u]

\* A step of a chain that asks for nothing, and that queues nothing.
LEMMA BystanderStep ==
  ASSUME QueueInv, NEW t \in Thread, OthersWait(t),
         \A j \in Job : Queued(j)' => Queued(j) /\ ~AskingFor(t, j),
         buffer' = buffer, turnedAway \subseteq turnedAway', subs' >= subs, subs' \in Nat, subs \in Nat
  PROVE  QueueInv'
<1>1. ASSUME NEW j \in Job, Queued(j)'
      PROVE  (\E u \in Thread : AskingFor(u, j)') \/ Buffered(j)' \/ j \in turnedAway'
  <2>1. CASE \E u \in Thread : AskingFor(u, j)
    <3>1. PICK u \in Thread \ {t} : AskingFor(u, j)
      BY <1>1, <2>1
    <3>2. AskingFor(u, j)'
      BY <3>1 DEF AskingFor, OthersWait
    <3>3. QED
      BY <3>2
  <2>2. CASE Buffered(j)
    BY <2>2 DEF Buffered
  <2>3. CASE j \in turnedAway
    BY <2>3
  <2>4. QED
    BY <1>1, <2>1, <2>2, <2>3 DEF QueueInv
<1>2. QED
  BY <1>1 DEF QueueInv

\* A step of a chain that asks for a job before and after it.
LEMMA CarrierStep ==
  ASSUME TypeOK, QueueInv, NEW t \in Thread, OthersWait(t),
         \A j \in Job : Queued(j)' => Queued(j) \/ AskingFor(t, j)',
         \A j \in Job : AskingFor(t, j) => AskingFor(t, j)' \/ Buffered(j)' \/ j \in turnedAway',
         \A j \in Job : Buffered(j) => Buffered(j)' \/ AskingFor(t, j)',
         \A j \in turnedAway : j \in turnedAway' \/ AskingFor(t, j)', subs' = subs
  PROVE  QueueInv'
<1>1. ASSUME NEW j \in Job, Queued(j)'
      PROVE  (\E u \in Thread : AskingFor(u, j)') \/ Buffered(j)' \/ j \in turnedAway'
  <2>1. CASE AskingFor(t, j)' \/ AskingFor(t, j)
    BY <2>1
  <2>2. CASE \E u \in Thread \ {t} : AskingFor(u, j)
    <3>1. PICK u \in Thread \ {t} : AskingFor(u, j)
      BY <2>2
    <3>2. AskingFor(u, j)'
      BY <3>1 DEF AskingFor, OthersWait
    <3>3. QED
      BY <3>2
  <2>3. CASE Buffered(j)
    BY <2>3
  <2>4. CASE j \in turnedAway
    BY <2>4
  <2>5. QED
    BY <1>1, <2>1, <2>2, <2>3, <2>4 DEF QueueInv
<1>2. QED
  BY <1>1 DEF QueueInv

LEMMA AfterRunOthers ==
  ASSUME TypeOK, NEW t \in Thread, AfterRun(t)
  PROVE  OthersWait(t)
BY DEF TypeOK, ChainTypeOK, AfterRun, End, Goto, OthersWait

LEMMA QueueStep == TypeOK /\ QueueInv /\ [Next]_vars => QueueInv'
<1> USE NoneAssumption
<1> SUFFICES ASSUME TypeOK, QueueInv, [Next]_vars
             PROVE  QueueInv'
  OBVIOUS
<1> USE DEF lockVars, busVars, serviceVars, workerVars, chainVars
\* Nothing of the queue is concerned.
<1>1. ASSUME \/ SimulateCrash \/ KafkaOutage \/ RestoreServices \/ Stop \/ StartWorker \/ SubscribeWorker
             \/ StopDone \/ CleanLeases \/ (\E j \in Job : StopEntry(j) \/ PassLease(j))
             \/ (\E t \in Thread : Timeout(t))
             \/ UNCHANGED vars
      PROVE  QueueInv'
  <2>1. /\ UNCHANGED <<buffer, repo, cache, pc, task, hop, turnedAway>>
        /\ subs' >= subs /\ subs' \in Nat
    BY <1>1 DEF SimulateCrash, KafkaOutage, RestoreServices, Stop, StartWorker, SubscribeWorker, StopDone, CleanLeases,
       StopEntry, PassLease, Timeout, GoOffline, GoOnline, Subscribe, vars, TypeOK, BusTypeOK
  <2>2. subs' >= 1
    BY <2>1 DEF QueueInv, TypeOK, BusTypeOK
  <2>3. QED
    BY <2>1, <2>2 DEF QueueInv, Queued, AskingFor, Buffered
\* A call begins, or a run proceeds that has left the queue.
<1>2. ASSUME NEW t \in Thread,
             \/ Request(t) \/ TriggerLocalWorker(t) \/ SkipLocalWorker(t) \/ CancelRow(t) \/ CancelCache(t)
      PROVE  QueueInv'
  <2>1. /\ OthersWait(t) /\ pc[t] \in {"idle", "trigger", "cancel", "cancelCache"}
        /\ UNCHANGED <<buffer, turnedAway, subs>>
    BY <1>2 DEF Request, EnqueueJob, CancelJob, RetryJob, TriggerLocalWorker, SkipLocalWorker, CancelRow,
       CancelCache, End, Goto, OthersWait, TypeOK, ChainTypeOK
  <2>2. \A j \in Job : Queued(j)' => Queued(j)
    <3>1. CASE UNCHANGED <<repo, cache>>
      BY <3>1 DEF Queued
    <3>2. CASE CancelRow(t)
      <4> DEFINE y == [repo[task[t].job] EXCEPT !.state = "CANCELLED"]
      <4>1. /\ repo' = [repo EXCEPT ![task[t].job] = y] /\ cache' = cache
            /\ task[t].job \in Job
        BY <3>2 DEF CancelRow, TypeOK, ChainTypeOK
      <4>2. y.state = "CANCELLED"
        BY <4>1 DEF TypeOK, ServiceTypeOK, Row
      <4> HIDE DEF y
      <4>3. QED
        BY <4>1, <4>2 DEF Queued, TypeOK, ServiceTypeOK
    <3>3. CASE CancelCache(t)
      BY <3>3 DEF CancelCache, Queued, TypeOK, ServiceTypeOK, ChainTypeOK
    <3>4. QED
      BY <1>2, <3>1, <3>2, <3>3
      DEF Request, EnqueueJob, CancelJob, RetryJob, TriggerLocalWorker, SkipLocalWorker
  <2>3. QED
    BY <2>1, <2>2, BystanderStep DEF AskingFor, TypeOK, BusTypeOK
<1>3. ASSUME NEW t \in Thread,
             \/ MarkProcessing(t) \/ ReportProgress(t) \/ Complete(t) \/ AbandonAborted(t)
             \/ FailRetryable(t) \/ FailExhausted(t) \/ FailFatal(t) \/ ReleaseRun(t)
      PROVE  QueueInv'
  <2>1. /\ OthersWait(t) /\ UNCHANGED <<buffer, turnedAway, subs>>
        /\ pc[t] \in {"registered", "executing", "finally"}
        /\ pc[t] = "registered" => \A j \in Job : Queued(j)' => j # task[t].job
    BY <1>3 DEF MarkProcessing, ReportProgress, Complete, AbandonAborted, FailRetryable, FailExhausted,
       FailFatal, Settle, ReleaseRun, SetCache, Goto, OthersWait, Queued, TypeOK, ChainTypeOK, ServiceTypeOK
  <2>2. \A j \in Job : Queued(j)' => Queued(j)
    BY <1>3 DEF MarkProcessing, ReportProgress, Complete, AbandonAborted, FailRetryable, FailExhausted,
       FailFatal, Settle, ReleaseRun, SetCache, Queued, TypeOK, ServiceTypeOK
  <2>3. QED
    BY <2>1, <2>2, BystanderStep DEF AskingFor, TypeOK, BusTypeOK
<1>4. ASSUME NEW t \in Thread, DeleteActive(t)
      PROVE  QueueInv'
  <2>1. OthersWait(t) /\ pc[t] = "delete" /\ UNCHANGED <<buffer, turnedAway, subs, repo, cache>>
    BY <1>4, AfterRunOthers DEF DeleteActive
  <2>2. QED
    BY <2>1, BystanderStep DEF AskingFor, Queued, TypeOK, BusTypeOK
\* A delivery has been offered to every handler, so at least to the first.
<1>5. ASSUME NEW t \in Thread, DeliveryDone(t)
      PROVE  QueueInv'
  <2>1. /\ OthersWait(t) /\ pc[t] = "dispatch" /\ hop[t] # 1
        /\ UNCHANGED <<buffer, turnedAway, subs, repo, cache>>
    BY <1>5 DEF DeliveryDone, End, Goto, OthersWait, TypeOK, ChainTypeOK, BusTypeOK, QueueInv
  <2>2. QED
    BY <2>1, BystanderStep DEF AskingFor, Queued, TypeOK, BusTypeOK
\* The job goes on towards the worker.
<1>6. ASSUME NEW t \in Thread, CreateJob(t)
      PROVE  QueueInv'
  <2>1. PICK k \in Job :
          /\ task' = [task EXCEPT ![t].job = k]
          /\ repo' = [repo EXCEPT ![k] = repo'[k]]
    BY <1>6 DEF CreateJob, Unused, TypeOK, ServiceTypeOK
  <2>2. /\ OthersWait(t) /\ pc[t] = "create"
        /\ pc' = [pc EXCEPT ![t] = "cacheQueued"]
        /\ UNCHANGED <<cache, buffer, turnedAway, subs>>
    BY <1>6 DEF CreateJob, Goto, OthersWait, TypeOK, ChainTypeOK
  <2>3. task'[t].job = k
    BY <2>1, TaskUpdate DEF TypeOK, ChainTypeOK
  <2>4. AskingFor(t, k)'
    BY <2>2, <2>3 DEF AskingFor, TypeOK, ChainTypeOK
  <2>5. \A j \in Job : j # k => (Queued(j)' => Queued(j))
    BY <2>1, <2>2 DEF Queued, TypeOK, ServiceTypeOK
  <2>6. QED
    BY <2>2, <2>4, <2>5, CarrierStep DEF AskingFor, Buffered
<1>7. ASSUME NEW t \in Thread, CacheQueued(t)
      PROVE  QueueInv'
  <2>1. /\ OthersWait(t) /\ pc[t] = "cacheQueued" /\ task[t].job \in Job
        /\ pc' = [pc EXCEPT ![t] = "publish"]
        /\ cache' = [cache EXCEPT ![task[t].job] = "QUEUED"]
        /\ turnedAway' = turnedAway \ {task[t].job}
        /\ UNCHANGED <<repo, task, buffer, subs>>
    BY <1>7 DEF CacheQueued, Goto, OthersWait, TypeOK, ChainTypeOK
  <2>2. AskingFor(t, task[t].job)'
    BY <2>1 DEF AskingFor, TypeOK, ChainTypeOK
  <2>3. \A j \in Job : j # task[t].job => (Queued(j)' => Queued(j)) /\ ~AskingFor(t, j)
    BY <2>1 DEF Queued, AskingFor, TypeOK, ServiceTypeOK
  <2>4. QED
    BY <2>1, <2>2, <2>3, CarrierStep DEF Buffered
<1>8. ASSUME NEW t \in Thread, RequeueRow(t)
      PROVE  QueueInv'
  <2> PICK k \in Job : k = task[t].job
    BY <1>8 DEF RequeueRow, TypeOK, ChainTypeOK
  <2>1. /\ OthersWait(t) /\ pc[t] = "requeue"
        /\ pc' = [pc EXCEPT ![t] = "cacheQueued"]
        /\ UNCHANGED <<cache, buffer, turnedAway, subs>>
    BY <1>8 DEF RequeueRow, Goto, OthersWait, TypeOK, ChainTypeOK
  <2>2. repo' = [repo EXCEPT ![k] = repo'[k]]
    BY <1>8, <2>1 DEF RequeueRow, TypeOK, ServiceTypeOK
  <2>3. task'[t].job = k
    BY <1>8 DEF RequeueRow, TypeOK, ChainTypeOK, Task
  <2>4. AskingFor(t, k)'
    BY <2>1, <2>3 DEF AskingFor, TypeOK, ChainTypeOK
  <2>5. \A j \in Job : j # k => (Queued(j)' => Queued(j))
    BY <2>1, <2>2 DEF Queued, TypeOK, ServiceTypeOK
  <2>6. \A j \in Job : ~AskingFor(t, j) /\ (Buffered(j) => Buffered(j)')
    BY <2>1 DEF AskingFor, Buffered
  <2>7. QED
    BY <2>1, <2>4, <2>5, <2>6, CarrierStep
<1>9. ASSUME NEW t \in Thread, PublishJobDispatched(t)
      PROVE  QueueInv'
  <2>1. /\ OthersWait(t) /\ pc[t] = "publish" /\ task[t].job \in Job
        /\ UNCHANGED <<repo, cache, task, turnedAway, subs>>
    BY <1>9 DEF PublishJobDispatched, Publish, Goto, OthersWait, TypeOK, ChainTypeOK
  <2>2. CASE kafkaOnline
    <3>1. AskingFor(t, task[t].job)' /\ buffer' = buffer
      BY <1>9, <2>1, <2>2 DEF PublishJobDispatched, Publish, Goto, AskingFor, TypeOK, ChainTypeOK
    <3>2. QED
      BY <2>1, <3>1, CarrierStep DEF Queued, AskingFor, Buffered
  <2>3. CASE ~kafkaOnline
    <3>1. buffer' = Append(buffer, task[t])
      BY <1>9, <2>3 DEF PublishJobDispatched, Publish
    <3> DEFINE n == Len(buffer)
    <3>2. task[t] \in Event /\ buffer \in Seq(Event)
      BY <2>1 DEF Event, TypeOK, BusTypeOK, ChainTypeOK
    <3>3. n + 1 \in 1..Len(buffer') /\ buffer'[n + 1] = task[t]
      BY <3>1, <3>2
    <3>4. \A i \in 1..n : i \in 1..Len(buffer') /\ buffer'[i] = buffer[i]
      BY <3>1, <3>2
    <3>5. Buffered(task[t].job)'
      BY <2>1, <3>3 DEF Buffered
    <3>6. \A j \in Job : Buffered(j) => Buffered(j)'
      BY <3>4 DEF Buffered
    <3>7. QED
      BY <2>1, <3>5, <3>6, CarrierStep DEF Queued, AskingFor
  <2>4. QED
    BY <2>2, <2>3
<1>10. ASSUME NEW t \in Thread, FlushJob(t)
       PROVE  QueueInv'
  <2> PICK e \in Event : e = Head(buffer)
    BY <1>10 DEF FlushJob, FlushHead, TypeOK, BusTypeOK
  <2>1. /\ buffer \in Seq(Event) /\ buffer # <<>> /\ buffer' = Tail(buffer)
        /\ OthersWait(t) /\ pc[t] = "idle"
        /\ pc' = [pc EXCEPT ![t] = "dispatch"] /\ hop' = [hop EXCEPT ![t] = 1]
        /\ task' = [task EXCEPT ![t] = [e EXCEPT !.flushed = TRUE]]
        /\ UNCHANGED <<repo, cache, turnedAway, subs>>
    BY <1>10 DEF FlushJob, FlushHead, Goto, OthersWait, TypeOK, BusTypeOK, ChainTypeOK
  <2>2. e \in Task /\ e.job \in Job
    BY DEF Event
  <2>3. task'[t].job = e.job
    BY <2>1, <2>2, TaskUpdate DEF TypeOK, ChainTypeOK
  <2>4. AskingFor(t, e.job)'
    <3>1. pc'[t] = "dispatch" /\ hop'[t] = 1
      BY <2>1 DEF TypeOK, ChainTypeOK
    <3>2. QED
      BY <2>3, <3>1 DEF AskingFor
  <2>5. ASSUME NEW j \in Job, Buffered(j), j # e.job
        PROVE  Buffered(j)'
    <3>1. PICK i \in 1..Len(buffer) : buffer[i].job = j
      BY <2>5 DEF Buffered
    <3>2. i # 1
      BY <2>1, <2>5, <3>1
    <3>3. i - 1 \in 1..Len(Tail(buffer)) /\ Tail(buffer)[i - 1] = buffer[i]
      BY <2>1, <3>1, <3>2
    <3>4. QED
      BY <2>1, <3>1, <3>3 DEF Buffered
  <2>6. \A j \in Job : ~AskingFor(t, j) /\ (Queued(j)' => Queued(j))
    BY <2>1 DEF AskingFor, Queued
  <2>7. OthersWait(t) /\ UNCHANGED <<turnedAway, subs>>
    BY <2>1
  <2>8. QED
    BY <2>4, <2>5, <2>6, <2>7, CarrierStep
<1>11. ASSUME NEW t \in Thread, StartRun(t) \/ RegisterRun(t)
       PROVE  QueueInv'
  <2>1. /\ OthersWait(t) /\ task[t].job \in Job
        /\ pc[t] \in {"dispatch", "immediate", "locked"}
        /\ pc'[t] \in {"locked", "registered"}
        /\ UNCHANGED <<repo, cache, task, buffer, turnedAway, subs>>
    BY <1>11 DEF StartRun, RegisterRun, AtWorker, Goto, OthersWait, TypeOK, ChainTypeOK
  <2>2. QED
    BY <2>1, CarrierStep DEF Queued, AskingFor, Buffered
<1>12. ASSUME NEW t \in Thread, RefuseRun(t)
       PROVE  QueueInv'
  <2>1. /\ OthersWait(t) /\ turnedAway' = turnedAway \cup {task[t].job}
        /\ UNCHANGED <<repo, cache, buffer, subs>>
    BY <1>12, AfterRunOthers DEF RefuseRun
  <2>2. QED
    BY <2>1, CarrierStep DEF Queued, AskingFor, Buffered
<1>13. QED
  BY <1>1, <1>2, <1>3, <1>4, <1>5, <1>6, <1>7, <1>8, <1>9, <1>10, <1>11, <1>12
  DEF Next, Advance, Operate

(***************************************************************************)
(* No queued job is lost: as long as a job is QUEUED, a call, the bus or   *)
(* the offline buffer carries it, or the worker has refused it.            *)
(***************************************************************************)
THEOREM QueuedJobsAreCarried == Spec => []QueuedIsCarried
<1>1. Init => QueueInv
  BY DEF Init, BusInit, QueueInv, Queued, NoRow
<1>2. QueueInv => QueuedIsCarried
  BY DEF QueueInv, QueuedIsCarried, Queued, AskingFor, Carried
<1>3. QED
  BY <1>1, <1>2, QueueStep, TypeCorrect, PTL DEF Spec

(***************************************************************************)
(* Cancellation is visible: after cancelJob has written the row, getJob    *)
(* answers CANCELLED whatever the run still writes, until a retry.         *)
(***************************************************************************)
THEOREM CancellationHolds == Spec => CancelHolds
<1>1. ASSUME TypeOK, [Next]_vars, NEW j \in Job, repo[j].state = "CANCELLED"
      PROVE  repo'[j].state \in {"CANCELLED", "QUEUED"}
  <2>1. CASE repo' = repo
    BY <1>1, <2>1
  <2>2. ASSUME NEW t \in Thread, CreateJob(t)
        PROVE  repo'[j].state \in {"CANCELLED", "QUEUED"}
    BY <1>1, <2>2 DEF CreateJob, Unused, TypeOK, ServiceTypeOK
  <2>3. ASSUME NEW t \in Thread, CancelRow(t)
        PROVE  repo'[j].state \in {"CANCELLED", "QUEUED"}
    BY <1>1, <2>3 DEF CancelRow, TypeOK, ServiceTypeOK, Row
  <2>4. ASSUME NEW t \in Thread, RequeueRow(t)
        PROVE  repo'[j].state \in {"CANCELLED", "QUEUED"}
    BY <1>1, <2>4 DEF RequeueRow, TypeOK, ServiceTypeOK, Row
  <2>5. QED
    BY <1>1, <2>1, <2>2, <2>3, <2>4
    DEF Next, Request, Advance, Operate, serviceVars, vars,
        EnqueueJob, CancelJob, RetryJob, CacheQueued, PublishJobDispatched, TriggerLocalWorker,
        SkipLocalWorker, CancelCache, DeliveryDone, StartRun, RefuseRun, RegisterRun, MarkProcessing,
        Complete, AbandonAborted, FailRetryable, FailExhausted, FailFatal, Settle, ReleaseRun,
        DeleteActive, FlushJob, ReportProgress, Timeout, SimulateCrash, KafkaOutage, RestoreServices,
        Stop, StartWorker, SubscribeWorker, StopEntry, PassLease, StopDone, CleanLeases
<1>2. TypeOK /\ [Next]_vars =>
        [\A j \in Job : repo[j].state = "CANCELLED" =>
           LiveState(j)' = "CANCELLED" \/ repo'[j].state = "QUEUED"]_vars
  BY <1>1 DEF LiveState
<1>3. QED
  BY <1>2, TypeCorrect, PTL DEF Spec, CancelHolds
-----------------------------------------------------------------------------
(***************************************************************************)
(* Mutual exclusion                                                        *)
(***************************************************************************)
\* What makes OneLiveRun inductive: a live run owns the unexpired lock of its
\* job.  An aborted run may have lost the lock; it is no longer live.
LiveOwnsLock ==
  \A t \in Thread : Live(t) => lock[task[t].job] = t /\ task[t].job \notin expired

\* An abort is forgotten at the end of the run it aborts.
AbortedInside == \A t \in aborted : pc[t] \in Holding \cup {"delete"}

RunInv == LiveOwnsLock /\ NothingLeaks /\ AbortedInside

\* The step concerns no chain but t.
OnlyChain(t) ==
  \A u \in Thread \ {t} :
    pc'[u] = pc[u] /\ task'[u] = task[u] /\ (u \in aborted' <=> u \in aborted)

\* A chain moves around outside processJob.
LEMMA OutsideStep ==
  ASSUME TypeOK, RunInv, NEW t \in Thread, OnlyChain(t),
         pc[t] \notin Holding \cup {"delete"}, pc'[t] \notin Holding,
         aborted' \subseteq aborted, UNCHANGED <<lock, expired, active>>
  PROVE  RunInv'
<1>1. LiveOwnsLock' /\ AbortedInside'
  BY DEF TypeOK, LockTypeOK, ChainTypeOK, RunInv, LiveOwnsLock, AbortedInside, Live, OnlyChain
<1>2. NothingLeaks'
  BY NoneAssumption DEF TypeOK, LockTypeOK, WorkerTypeOK, RunInv, NothingLeaks, OnlyChain
<1>3. QED
  BY <1>1, <1>2 DEF RunInv

\* A chain goes on inside processJob, before the release.
LEMMA InsideStep ==
  ASSUME TypeOK, RunInv, NEW t \in Thread,
         pc[t] \in Holding, pc' = [pc EXCEPT ![t] = pc'[t]], pc'[t] \in Holding,
         aborted \subseteq aborted', aborted' \subseteq aborted \cup {t},
         UNCHANGED <<lock, expired, active, task>>
  PROVE  RunInv'
BY NoneAssumption DEF TypeOK, LockTypeOK, WorkerTypeOK, ChainTypeOK, RunInv, LiveOwnsLock,
   NothingLeaks, AbortedInside, Live

\* The end of a delivery to one handler.
LEMMA AfterRunChain ==
  ASSUME TypeOK, NEW t \in Thread, AfterRun(t)
  PROVE  OnlyChain(t) /\ pc'[t] \in {"dispatch", "idle"} /\ aborted' = aborted \ {t}
BY DEF TypeOK, ChainTypeOK, AfterRun, End, Goto, OnlyChain

LEMMA RunStep == TypeOK /\ RunInv /\ [Next]_vars => RunInv'
<1> USE NoneAssumption
<1> SUFFICES ASSUME TypeOK, RunInv, [Next]_vars
             PROVE  RunInv'
  OBVIOUS
<1> USE DEF lockVars, busVars, serviceVars, workerVars, chainVars
<1>1. CASE UNCHANGED <<lock, expired, active, pc, task, aborted>>
  BY <1>1 DEF RunInv, LiveOwnsLock, NothingLeaks, Live, AbortedInside
<1>2. ASSUME NEW t \in Thread, Request(t)
      PROVE  RunInv'
  <2>1. /\ OnlyChain(t) /\ pc[t] = "idle" /\ pc'[t] \in Calling
        /\ aborted' = aborted /\ UNCHANGED <<lock, expired, active>>
    BY <1>2 DEF Request, EnqueueJob, CancelJob, RetryJob, Goto, OnlyChain, TypeOK, ChainTypeOK, Calling
  <2>2. QED
    BY <2>1, OutsideStep DEF Holding, Calling
<1>3. ASSUME NEW t \in Thread,
             \/ CreateJob(t) \/ CacheQueued(t) \/ PublishJobDispatched(t) \/ TriggerLocalWorker(t)
             \/ CancelRow(t) \/ RequeueRow(t) \/ FlushJob(t)
      PROVE  RunInv'
  <2>1. /\ OnlyChain(t) /\ pc[t] \in Calling \cup {"trigger", "idle"}
        /\ pc'[t] \in Calling \cup {"dispatch", "trigger", "immediate"}
        /\ aborted' = aborted /\ UNCHANGED <<lock, expired, active>>
    BY <1>3 DEF CreateJob, CacheQueued, PublishJobDispatched, TriggerLocalWorker, CancelRow,
       RequeueRow, FlushJob, Goto, OnlyChain, TypeOK, ChainTypeOK, Calling
  <2>2. QED
    BY <2>1, OutsideStep DEF Holding, Calling
<1>4. ASSUME NEW t \in Thread,
             SkipLocalWorker(t) \/ CancelCache(t) \/ DeliveryDone(t)
      PROVE  RunInv'
  <2>1. /\ OnlyChain(t) /\ pc[t] \in {"trigger", "cancelCache", "dispatch"}
        /\ pc'[t] \in {"idle", "trigger"}
        /\ aborted' \subseteq aborted /\ UNCHANGED <<lock, expired, active>>
    BY <1>4 DEF SkipLocalWorker, CancelCache, DeliveryDone, End, Goto, OnlyChain, TypeOK, ChainTypeOK
  <2>2. QED
    BY <2>1, OutsideStep DEF Holding
<1>5. ASSUME NEW t \in Thread, RefuseRun(t)
      PROVE  RunInv'
  <2>1. pc[t] \in {"dispatch", "immediate"} /\ UNCHANGED <<lock, expired, active>>
    BY <1>5 DEF RefuseRun, AtWorker
  <2>2. OnlyChain(t) /\ pc'[t] \in {"dispatch", "idle"} /\ aborted' \subseteq aborted
    BY <1>5, AfterRunChain DEF RefuseRun
  <2>3. QED
    BY <2>1, <2>2, OutsideStep DEF Holding
<1>6. ASSUME NEW t \in Thread, StartRun(t)
      PROVE  RunInv'
  <2> DEFINE j == task[t].job
  <2>1. /\ pc[t] \in {"dispatch", "immediate"} /\ j \in Job
        /\ pc' = [pc EXCEPT ![t] = "locked"]
        /\ UNCHANGED <<task, aborted, active>>
    BY <1>6 DEF StartRun, AtWorker, Goto, TypeOK, ChainTypeOK
  <2>2. /\ lock[j] = None \/ j \in expired
        /\ lock' = [lock EXCEPT ![j] = t]
        /\ expired' = expired \ {j}
    BY <1>6 DEF StartRun, AcquireJobLock, LockFree
  <2>3. \A u \in Thread : Live(u) => task[u].job # j
    BY <2>2 DEF RunInv, LiveOwnsLock
  <2>4. LiveOwnsLock'
    BY <2>1, <2>2, <2>3 DEF RunInv, LiveOwnsLock, Live, TypeOK, LockTypeOK, ChainTypeOK
  <2>5. NothingLeaks'
    BY <2>1, <2>2 DEF RunInv, NothingLeaks, Holding, TypeOK, LockTypeOK, ChainTypeOK, WorkerTypeOK
  <2>6. AbortedInside'
    BY <2>1 DEF RunInv, AbortedInside, Holding, TypeOK, ChainTypeOK
  <2>7. QED
    BY <2>4, <2>5, <2>6 DEF RunInv
<1>7. ASSUME NEW t \in Thread, RegisterRun(t)
      PROVE  RunInv'
  <2>1. /\ pc[t] = "locked" /\ task[t].job \in Job
        /\ pc' = [pc EXCEPT ![t] = "registered"]
        /\ active' = [active EXCEPT ![task[t].job] = t]
        /\ UNCHANGED <<lock, expired, task, aborted>>
    BY <1>7 DEF RegisterRun, Goto, TypeOK, ChainTypeOK
  <2>2. LiveOwnsLock' /\ AbortedInside'
    BY <2>1 DEF RunInv, LiveOwnsLock, AbortedInside, Live, Holding, TypeOK, LockTypeOK, ChainTypeOK
  <2>3. NothingLeaks'
    BY <2>1 DEF RunInv, NothingLeaks, Holding, TypeOK, LockTypeOK, ChainTypeOK, WorkerTypeOK
  <2>4. QED
    BY <2>2, <2>3 DEF RunInv
<1>8. ASSUME NEW t \in Thread,
             \/ MarkProcessing(t) \/ Complete(t) \/ AbandonAborted(t)
             \/ FailRetryable(t) \/ FailExhausted(t) \/ FailFatal(t) \/ Timeout(t)
      PROVE  RunInv'
  <2>1. /\ pc[t] \in Holding
        /\ pc' = [pc EXCEPT ![t] = pc'[t]] /\ pc'[t] \in Holding
        /\ aborted \subseteq aborted' /\ aborted' \subseteq aborted \cup {t}
        /\ UNCHANGED <<lock, expired, active, task>>
    BY <1>8 DEF MarkProcessing, Complete, AbandonAborted, FailRetryable, FailExhausted, FailFatal,
       Settle, Timeout, Goto, Holding, TypeOK, ChainTypeOK
  <2>2. QED
    BY <2>1, InsideStep
<1>9. ASSUME NEW t \in Thread, ReleaseRun(t)
      PROVE  RunInv'
  <2> DEFINE j == task[t].job
  <2>1. /\ pc[t] = "finally" /\ j \in Job
        /\ pc' = [pc EXCEPT ![t] = "delete"]
        /\ UNCHANGED <<task, aborted, active>>
    BY <1>9 DEF ReleaseRun, Goto, TypeOK, ChainTypeOK
  <2>2. IF lock[j] = t
        THEN lock' = [lock EXCEPT ![j] = None] /\ expired' = expired \ {j}
        ELSE UNCHANGED <<lock, expired>>
    BY <1>9 DEF ReleaseRun, ReleaseJobLock, OwnsLock
  <2>3. LiveOwnsLock'
    BY <2>1, <2>2 DEF RunInv, LiveOwnsLock, Live, Holding, TypeOK, LockTypeOK, ChainTypeOK
  <2>4. NothingLeaks'
    BY <2>1, <2>2 DEF RunInv, NothingLeaks, Holding, TypeOK, LockTypeOK, ChainTypeOK, WorkerTypeOK
  <2>5. AbortedInside'
    BY <2>1 DEF RunInv, AbortedInside, Holding, TypeOK, ChainTypeOK
  <2>6. QED
    BY <2>3, <2>4, <2>5 DEF RunInv
<1>10. ASSUME NEW t \in Thread, DeleteActive(t)
       PROVE  RunInv'
  <2>1. OnlyChain(t) /\ pc'[t] \in {"dispatch", "idle"} /\ aborted' = aborted \ {t}
    BY <1>10, AfterRunChain DEF DeleteActive
  <2>2. /\ pc[t] = "delete" /\ task[t].job \in Job
        /\ active' = [active EXCEPT ![task[t].job] = None]
        /\ UNCHANGED <<lock, expired>>
    BY <1>10 DEF DeleteActive, TypeOK, ChainTypeOK
  <2>3. LiveOwnsLock' /\ AbortedInside'
    BY <2>1, <2>2 DEF RunInv, LiveOwnsLock, AbortedInside, Live, OnlyChain, Holding, TypeOK,
       LockTypeOK, ChainTypeOK
  <2>4. NothingLeaks'
    BY <2>1, <2>2 DEF RunInv, NothingLeaks, OnlyChain, Holding, TypeOK, LockTypeOK, ChainTypeOK, WorkerTypeOK
  <2>5. QED
    BY <2>3, <2>4 DEF RunInv
<1>11. ASSUME NEW j \in Job, StopEntry(j)
       PROVE  RunInv'
  <2>1. /\ active[j] \in Thread
        /\ aborted' = aborted \cup {active[j]}
        /\ UNCHANGED <<pc, task, active>>
        /\ IF lock[j] = active[j]
           THEN lock' = [lock EXCEPT ![j] = None] /\ expired' = expired \ {j}
           ELSE UNCHANGED <<lock, expired>>
    BY <1>11 DEF StopEntry, ReleaseJobLock, OwnsLock, TypeOK, WorkerTypeOK
  <2>2. LiveOwnsLock'
    <3> SUFFICES ASSUME NEW u \in Thread, Live(u)'
                 PROVE  (lock[task[u].job] = u /\ task[u].job \notin expired)'
      BY DEF LiveOwnsLock
    <3>1. Live(u) /\ u # active[j]
      BY <2>1 DEF Live
    <3>2. lock[task[u].job] = u /\ task[u].job \notin expired
      BY <3>1 DEF RunInv, LiveOwnsLock
    <3>3. task[u].job \in Job
      BY <3>1 DEF Live, Holding, TypeOK, ChainTypeOK
    <3>4. QED
      BY <2>1, <3>1, <3>2, <3>3 DEF TypeOK, LockTypeOK
  <2>3. NothingLeaks'
    BY <2>1 DEF RunInv, NothingLeaks, TypeOK, LockTypeOK
  <2>4. AbortedInside'
    BY <2>1 DEF RunInv, NothingLeaks, AbortedInside, TypeOK, ChainTypeOK
  <2>5. QED
    BY <2>2, <2>3, <2>4 DEF RunInv
<1>12. ASSUME StopDone
       PROVE  RunInv'
  BY <1>12 DEF StopDone, RunInv, LiveOwnsLock, NothingLeaks, Live, AbortedInside
<1>13. ASSUME NEW j \in Job, PassLease(j)
       PROVE  RunInv'
  BY <1>13 DEF PassLease, LeaseExpires, RunInv, LiveOwnsLock, NothingLeaks, Live, AbortedInside
<1>14. ASSUME CleanLeases
       PROVE  RunInv'
  BY <1>14 DEF CleanLeases, CleanupExpired, RunInv, LiveOwnsLock, NothingLeaks, Live, AbortedInside, Holding,
     TypeOK, LockTypeOK, ChainTypeOK
<1>15. ASSUME \/ \E t \in Thread : ReportProgress(t)
              \/ SimulateCrash \/ KafkaOutage \/ RestoreServices \/ Stop \/ StartWorker \/ SubscribeWorker
              \/ UNCHANGED vars
       PROVE  RunInv'
  BY <1>1, <1>15 DEF ReportProgress, SimulateCrash, KafkaOutage, RestoreServices, Stop, StartWorker, SubscribeWorker, vars
<1>16. QED
  BY <1>2, <1>3, <1>4, <1>5, <1>6, <1>7, <1>8, <1>9, <1>10, <1>11, <1>12, <1>13, <1>14, <1>15
  DEF Next, Advance, Operate

\* The inductive invariant holds in every reachable state.
LEMMA RunInvariant == Spec => []RunInv
<1>1. Init => RunInv
  BY NoneAssumption DEF Init, LockInit, RunInv, LiveOwnsLock, NothingLeaks, Live, AbortedInside, Holding
<1>2. QED
  BY <1>1, RunStep, TypeCorrect, PTL DEF Spec

(***************************************************************************)
(* Mutual exclusion: whatever the number of jobs, call chains and worker   *)
(* restarts, two un-aborted runs of processJob never hold the same job.    *)
(***************************************************************************)
THEOREM MutualExclusion == Spec => []OneLiveRun
<1>1. RunInv => OneLiveRun
  BY DEF RunInv, LiveOwnsLock, OneLiveRun
<1>2. QED
  BY <1>1, RunInvariant, PTL

(***************************************************************************)
(* No leaks: every lock entry and every activeJobs entry names a run of    *)
(* its job that has yet to reach the end of processJob.                    *)
(***************************************************************************)
THEOREM NoLeaks == Spec => []NothingLeaks
<1>1. RunInv => NothingLeaks
  BY DEF RunInv
<1>2. QED
  BY <1>1, RunInvariant, PTL

-----------------------------------------------------------------------------
(***************************************************************************)
(* JobSystem implements JobLease: its lock entries, seen without those of  *)
(* aborted runs, change hands the way the lease promises.                  *)
(***************************************************************************)
\* Lock entries and aborts that do not change leave the runners alone.
LEMMA RunnerStutter ==
  ASSUME UNCHANGED <<lock, aborted>>
  PROVE  UNCHANGED Runner
BY DEF Runner

\* An abort without an acquisition takes the job from its one runner, if from any.
LEMMA AbortStep ==
  ASSUME TypeOK, RunInv, NEW t \in Thread,
         aborted' = aborted \cup {t},
         \A j \in Job : lock'[j] = lock[j] \/ (lock[j] = t /\ lock'[j] = None),
         lock' \in [Job -> Thread \cup {None}]
  PROVE  [Lease!Next]_Runner
<1> USE NoneAssumption
<1>1. CASE \E j \in Job : lock[j] = t /\ t \notin aborted
  <2>1. PICK j \in Job : lock[j] = t /\ t \notin aborted
    BY <1>1
  <2>2. Runner[j] = t /\ t # None
    BY <2>1 DEF Runner
  <2>3. \A i \in Job : i # j => lock[i] # t
    BY <2>1 DEF RunInv, NothingLeaks
  <2>4. Runner'[j] = None
    BY <2>1 DEF Runner
  <2>5. \A i \in Job : i # j => Runner'[i] = Runner[i]
    BY <2>3 DEF Runner
  <2>6. Runner' = [Runner EXCEPT ![j] = None]
    BY <2>4, <2>5 DEF Runner
  <2>7. QED
    BY <2>2, <2>6 DEF Lease!Next, Lease!GiveUp
<1>2. CASE \A j \in Job : lock[j] # t \/ t \in aborted
  <2>1. \A j \in Job : Runner'[j] = Runner[j]
    BY <1>2 DEF Runner, TypeOK, LockTypeOK
  <2>2. QED
    BY <2>1 DEF Runner
<1>3. QED
  BY <1>1, <1>2

LEMMA LeaseStep == TypeOK /\ RunInv /\ [Next]_vars => [Lease!Next]_Runner
<1> USE NoneAssumption
<1> SUFFICES ASSUME TypeOK, RunInv, [Next]_vars
             PROVE  [Lease!Next]_Runner
  OBVIOUS
<1> USE DEF lockVars, busVars, serviceVars, workerVars, chainVars
\* Only the steps below touch a lock entry or an abort.
<1>1. CASE UNCHANGED <<lock, aborted>>
  BY <1>1, RunnerStutter
<1>2. ASSUME NEW t \in Thread, StartRun(t)
      PROVE  [Lease!Next]_Runner
  <2> DEFINE j == task[t].job
  <2>1. j \in Job /\ pc[t] \in {"dispatch", "immediate"} /\ task' = task /\ aborted' = aborted
    BY <1>2 DEF StartRun, AtWorker, TypeOK, ChainTypeOK
  <2>2. /\ lock[j] = None \/ j \in expired
        /\ lock' = [lock EXCEPT ![j] = t]
    BY <1>2 DEF StartRun, AcquireJobLock, LockFree
  <2>3. t \notin aborted /\ \A i \in Job : lock[i] # t
    BY <2>1 DEF RunInv, AbortedInside, NothingLeaks, Holding
  <2>4. Runner[j] = None
    <3>1. CASE lock[j] = None
      BY <2>1, <3>1 DEF Runner
    <3>2. CASE lock[j] # None
      <4>1. lock[j] \in Thread /\ pc[lock[j]] \in Holding /\ task[lock[j]].job = j
        BY <2>1, <3>2 DEF RunInv, NothingLeaks, TypeOK, LockTypeOK
      <4>2. lock[j] \in aborted
        BY <2>2, <3>2, <4>1 DEF RunInv, LiveOwnsLock, Live
      <4>3. QED
        BY <2>1, <4>2 DEF Runner
    <3>3. QED
      BY <3>1, <3>2
  <2>5. \A i \in Job : Runner[i] # t
    BY <2>3 DEF Runner
  <2>6. Runner' = [Runner EXCEPT ![j] = t]
    BY <2>1, <2>2, <2>3 DEF Runner, TypeOK, LockTypeOK
  <2>7. QED
    BY <2>1, <2>4, <2>5, <2>6 DEF Lease!Next, Lease!Acquire
<1>3. ASSUME NEW t \in Thread, ReleaseRun(t)
      PROVE  [Lease!Next]_Runner
  <2> DEFINE j == task[t].job
  <2>1. /\ j \in Job /\ aborted' = aborted
        /\ IF lock[j] = t THEN lock' = [lock EXCEPT ![j] = None] ELSE lock' = lock
    BY <1>3 DEF ReleaseRun, ReleaseJobLock, OwnsLock, TypeOK, ChainTypeOK
  <2>2. CASE lock[j] = t /\ t \notin aborted
    <3>1. Runner[j] = t /\ t # None
      BY <2>1, <2>2 DEF Runner
    <3>2. Runner' = [Runner EXCEPT ![j] = None]
      BY <2>1, <2>2 DEF Runner, TypeOK, LockTypeOK
    <3>3. QED
      BY <2>1, <3>1, <3>2 DEF Lease!Next, Lease!GiveUp
  <2>3. CASE lock[j] = t /\ t \in aborted
    <3>1. Runner' = Runner
      BY <2>1, <2>3 DEF Runner, TypeOK, LockTypeOK
    <3>2. QED
      BY <3>1
  <2>4. CASE lock[j] # t
    BY <2>1, <2>4, RunnerStutter
  <2>5. QED
    BY <2>2, <2>3, <2>4
<1>4. ASSUME NEW t \in Thread, Timeout(t)
      PROVE  [Lease!Next]_Runner
  BY <1>4, AbortStep DEF Timeout, TypeOK, LockTypeOK
<1>5. ASSUME NEW j \in Job, StopEntry(j)
      PROVE  [Lease!Next]_Runner
  <2>1. /\ active[j] \in Thread
        /\ aborted' = aborted \cup {active[j]}
        /\ IF lock[j] = active[j] THEN lock' = [lock EXCEPT ![j] = None] ELSE lock' = lock
    BY <1>5 DEF StopEntry, ReleaseJobLock, OwnsLock, TypeOK, WorkerTypeOK
  <2>2. /\ \A i \in Job : lock'[i] = lock[i] \/ (lock[i] = active[j] /\ lock'[i] = None)
        /\ lock' \in [Job -> Thread \cup {None}]
    BY <2>1 DEF TypeOK, LockTypeOK
  <2>3. QED
    BY <2>1, <2>2, AbortStep
<1>6. ASSUME CleanLeases
      PROVE  [Lease!Next]_Runner
  <2>1. aborted' = aborted /\ lock' = [j \in Job |-> IF j \in expired THEN None ELSE lock[j]]
    BY <1>6 DEF CleanLeases, CleanupExpired
  <2>2. ASSUME NEW j \in Job, j \in expired, lock[j] # None
        PROVE  lock[j] \in aborted
    BY <2>2 DEF RunInv, NothingLeaks, LiveOwnsLock, Live, TypeOK, LockTypeOK
  <2>3. \A j \in Job : Runner'[j] = Runner[j]
    BY <2>1, <2>2 DEF Runner
  <2>4. QED
    BY <2>3 DEF Runner
\* A chain that ends had its abort inside processJob, where it holds no lock any more.
<1>7. ASSUME NEW t \in Thread, lock' = lock, aborted' = aborted \ {t}, pc[t] \notin Holding
      PROVE  [Lease!Next]_Runner
  <2>1. \A j \in Job : lock[j] # t
    BY <1>7 DEF RunInv, NothingLeaks
  <2>2. Runner' = Runner
    BY <1>7, <2>1 DEF Runner
  <2>3. QED
    BY <2>2
<1>8. ASSUME NEW t \in Thread,
             \/ SkipLocalWorker(t) \/ CancelCache(t) \/ DeliveryDone(t) \/ RefuseRun(t) \/ DeleteActive(t)
      PROVE  [Lease!Next]_Runner
  <2>1. /\ lock' = lock /\ pc[t] \notin Holding
        /\ aborted' = aborted \/ aborted' = aborted \ {t}
    BY <1>8 DEF SkipLocalWorker, CancelCache, DeliveryDone, RefuseRun, DeleteActive, AfterRun, End,
       AtWorker, Holding
  <2>2. QED
    BY <1>1, <1>7, <2>1
<1>9. QED
  BY <1>1, <1>2, <1>3, <1>4, <1>5, <1>6, <1>8
  DEF Next, Request, Advance, Operate, vars,
      EnqueueJob, CancelJob, RetryJob, CreateJob, CacheQueued, PublishJobDispatched, TriggerLocalWorker,
      CancelRow, RequeueRow, RegisterRun, MarkProcessing, Complete, AbandonAborted, FailRetryable,
      FailExhausted, FailFatal, Settle, FlushJob, ReportProgress, SimulateCrash, KafkaOutage,
      RestoreServices, Stop, StartWorker, SubscribeWorker, PassLease, LeaseExpires, StopDone

(***************************************************************************)
(* The job system keeps the promise of JobLease: in every behaviour a job  *)
(* passes from one run to the next only after the first has given it up.   *)
(***************************************************************************)
THEOREM LeaseImplemented == Spec => LeaseKept
<1>1. Init => Lease!Init
  BY DEF Init, LockInit, Lease!Init, Runner
<1>2. QED
  BY <1>1, LeaseStep, TypeCorrect, RunInvariant, PTL DEF Spec, LeaseKept, Lease!Spec
=============================================================================
