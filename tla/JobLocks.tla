------------------------------ MODULE JobLocks ------------------------------
(***************************************************************************)
(* The job locks of RedisJobStoreService                                   *)
(* (apps/api/src/modules/jobs/redis/redis-job-store.service.ts): a map     *)
(* from job to {token, expiresAt}.  A token is generated afresh by every   *)
(* acquisition.  The models name it by the call chain that acquired the    *)
(* lock: a chain runs one acquisition at a time, and the invariant         *)
(* NothingLeaks of JobSystem shows that no token outlives its run.         *)
(*                                                                         *)
(* setRedisConnected only changes a log line: the "fallback" is this same  *)
(* map, so the outage flag is not part of the state.                       *)
(***************************************************************************)

CONSTANTS Job,    \* the jobs that may be created
          Thread, \* the asynchronous call chains, which are also the lock tokens
          None    \* no job, no token

ASSUME NoneAssumption == None \notin Job \cup Thread

VARIABLES lock,    \* lock[j]: the token in the entry of job j, or None
          expired  \* the jobs whose entry has expiresAt <= now

lockVars == <<lock, expired>>

LockTypeOK ==
  /\ lock \in [Job -> Thread \cup {None}]
  /\ expired \in SUBSET Job

LockInit ==
  /\ lock = [j \in Job |-> None]
  /\ expired = {}

-----------------------------------------------------------------------------
\* Fault variant of LockFree: an entry of a crashed worker is not respected.
AlwaysFree(j) == TRUE

\* acquireJobLock refuses while an entry exists that has not expired.
LockFree(j) == lock[j] = None \/ j \in expired

AcquireJobLock(j, token) ==
  /\ LockFree(j)
  /\ lock' = [lock EXCEPT ![j] = token]
  /\ expired' = expired \ {j}

\* Fault variant of OwnsLock: a release that does not compare tokens.
OwnsLockByAnyToken(j, token) == lock[j] # None

\* Only the token that the entry holds deletes it; a late release of an older
\* run changes nothing.
OwnsLock(j, token) == lock[j] = token

ReleaseJobLock(j, token) ==
  IF OwnsLock(j, token)
  THEN /\ lock' = [lock EXCEPT ![j] = None]
       /\ expired' = expired \ {j}
  ELSE UNCHANGED lockVars

\* Date.now() passes the expiresAt of the entry.
LeaseExpires(j) ==
  /\ lock[j] # None
  /\ j \notin expired
  /\ expired' = expired \cup {j}
  /\ UNCHANGED lock

\* cleanupExpiredMemoryEntries, every five seconds.
CleanupExpired ==
  /\ expired # {}
  /\ lock' = [j \in Job |-> IF j \in expired THEN None ELSE lock[j]]
  /\ expired' = {}
=============================================================================
