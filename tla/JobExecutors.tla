---------------------------- MODULE JobExecutors ----------------------------
(***************************************************************************)
(* What the six workers do inside an execution of a job: wait for a timer, *)
(* look at the abort signal, report progress, again.  Progress is written  *)
(* to the Redis cache, and an await later handed to the state callback;    *)
(* the timeout of the execution, or stop() of the worker, aborts between   *)
(* any two of these.                                                       *)
(***************************************************************************)
EXTENDS Integers, Sequences

CONSTANTS BatchSize, TotalChunks, \* what the payload of an embedding job asks for
          MaxRounds               \* bound: batches of one execution

VARIABLES payload,
          phase,          \* "queued", "timer", "callback", "returned" or how it ended
          round,          \* milestones reached
          embeddedCount,
          cached, stored, \* progress in Redis, and as last given to the callback
          aborted

vars == <<payload, phase, round, embeddedCount, cached, stored, aborted>>

IndexMilestones == <<25, 60, 90>>
AnalysisMilestones == <<30, 70, 90>>
DocumentationMilestones == <<35, 75, 95>>
ReviewMilestones == <<35, 80, 95>>
TestMilestones == <<30, 75, 95>>
Milestones ==
  {IndexMilestones, AnalysisMilestones, DocumentationMilestones, ReviewMilestones, TestMilestones}
Job(milestones, batch, total) == [milestones |-> milestones, batchSize |-> batch, totalChunks |-> total]

Ended == {"COMPLETED", "CANCELLED"}

Init ==
  /\ payload = Job(<<>>, 1, 0) /\ phase = "queued" /\ round = 0 /\ embeddedCount = 0
  /\ cached = 0 /\ stored = 0 /\ aborted = FALSE

\* A zero is the default; the embedding worker takes its milestones from these.
Embeds(p) == p.milestones = <<>>
EmbeddingJob(batch, total) == Job(<<>>, IF batch = 0 THEN 20 ELSE batch, IF total = 0 THEN 80 ELSE total)

Execute(p) ==
  /\ phase = "queued"
  /\ payload' = p
  /\ cached' = 5 /\ stored' = 5
  /\ phase' = IF Embeds(p) /\ p.totalChunks <= 0 THEN "returned" ELSE "timer"
  /\ UNCHANGED <<round, embeddedCount, aborted>>

\* The timeout of the execution, or a stop of the worker.
Abort ==
  /\ phase \notin Ended \cup {"queued"} /\ ~aborted
  /\ aborted' = TRUE
  /\ UNCHANGED <<payload, phase, round, embeddedCount, cached, stored>>

\* Rounded to whole percents of ninety, never below zero.
Percent(embedded, total) ==
  IF embedded <= 0 THEN 0 ELSE (2 * 90 * embedded + total) \div (2 * total)

LesserOf(m, n) == IF m < n THEN m ELSE n

\* A timer ends: an aborted execution throws, another one reports.
Milestone ==
  /\ phase = "timer" /\ ~aborted /\ round < MaxRounds
  /\ round' = round + 1
  /\ embeddedCount' = IF Embeds(payload) THEN LesserOf(payload.totalChunks, embeddedCount + payload.batchSize)
                                         ELSE embeddedCount
  /\ cached' = IF Embeds(payload) THEN Percent(embeddedCount', payload.totalChunks) ELSE payload.milestones[round']
  /\ phase' = "callback"
  /\ UNCHANGED <<payload, stored, aborted>>

\* Fault variant of Throw: only an execution that has reached a milestone looks at the signal.
ThrowLate ==
  /\ phase = "timer" /\ aborted /\ round > 0
  /\ phase' = "CANCELLED"
  /\ UNCHANGED <<payload, round, embeddedCount, cached, stored, aborted>>

Throw ==
  /\ phase = "timer" /\ aborted
  /\ phase' = "CANCELLED"
  /\ UNCHANGED <<payload, round, embeddedCount, cached, stored, aborted>>

\* The loop over the chunks counts by the batch, even backwards.
GoesOn == IF Embeds(payload) THEN round * payload.batchSize < payload.totalChunks
                             ELSE round < Len(payload.milestones)

\* The signal is not looked at before this call.
UpdateJobState ==
  /\ phase = "callback"
  /\ stored' = cached
  /\ phase' = IF GoesOn THEN "timer" ELSE "returned"
  /\ UNCHANGED <<payload, round, embeddedCount, cached, aborted>>

\* The result of an execution that was aborted meanwhile is thrown away.
Settle ==
  /\ phase = "returned"
  /\ IF aborted THEN phase' = "CANCELLED" /\ UNCHANGED <<cached, stored>>
                ELSE phase' = "COMPLETED" /\ cached' = 100 /\ stored' = 100
  /\ UNCHANGED <<payload, round, embeddedCount, aborted>>

Step == Milestone \/ Throw \/ UpdateJobState \/ Settle

Next ==
  \/ \E ms \in Milestones : Execute(Job(ms, 0, 0))
  \/ \E b \in BatchSize, t \in TotalChunks : Execute(EmbeddingJob(b, t))
  \/ Abort \/ Step

\* Timers fire and awaits resume; so does the timer of the timeout.
Spec == Init /\ [][Next]_vars /\ WF_vars(Step) /\ WF_vars(Abort)

-----------------------------------------------------------------------------
(***************************************************************************)
(* Properties                                                              *)
(***************************************************************************)
\* Types of phase, counters and progress.
TypeOK ==
  /\ phase \in Ended \cup {"queued", "timer", "callback", "returned"}
  /\ round \in 0 .. MaxRounds /\ embeddedCount \in Int /\ aborted \in BOOLEAN
  /\ {cached, stored} \subseteq 0 .. 100

\* However an abort falls between timers and writes, cache and callback differ
\* only between the two parts of a report, 100 is the progress of a completed
\* execution and of no other, and a completed one was not aborted and has
\* embedded all chunks it was asked for, or passed all its milestones.
ProgressIsTrue ==
  /\ stored # cached => phase = "callback"
  /\ stored = 100 <=> phase = "COMPLETED"
  /\ phase = "COMPLETED" =>
       /\ ~aborted
       /\ IF Embeds(payload) THEN payload.totalChunks > 0 => embeddedCount = payload.totalChunks
                             ELSE round = Len(payload.milestones)

\* Every execution ends, that of a negative batch size by its timeout.
ExecutionEnds == phase = "timer" ~> phase \in Ended
=============================================================================
