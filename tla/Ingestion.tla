------------------------------ MODULE Ingestion -----------------------------
(***************************************************************************)
(* IngestionWorkerService and IngestionRepository, on the repository rows  *)
(* of GitHub.  A trigger only creates the job; the run is a setImmediate   *)
(* callback.  Between two files of a run anything else may happen, other   *)
(* runs of the same repository included; the work on one file is one       *)
(* action.                                                                 *)
(*                                                                         *)
(* A content stands for its SHA-256.  Chunks, symbols and dependencies of  *)
(* a file are saved and deleted together and kept as one entry, the        *)
(* content they were extracted from.                                       *)
(***************************************************************************)
EXTENDS GitHub

CONSTANTS Job, File,
          Tree,     \* the lists of files a run may be given
          Rejected, \* contents the file filter does not let through
          Broken    \* contents a parser throws on

Content == UNION {{tree[i].content : i \in DOMAIN tree} : tree \in Tree}
FileRow == [sha : Content, status : {"indexed", "ignored"}]

\* A listing names a path once.
ASSUME TreeAssumption == \A tree \in Tree :
  /\ tree \in Seq([path : File, content : Content])
  /\ \A i, k \in DOMAIN tree : tree[i].path = tree[k].path => i = k

Run == [tree : Tree, force : BOOLEAN, begun : BOOLEAN, alone : BOOLEAN]
IngestionJob == [repo : RepoId, status : {"queued", "processing", "completed", "failed"},
                 total : Nat, processed : Nat]
Outcome == [status : {"completed", "failed"}, tree : Tree, alone : BOOLEAN]

ASSUME NoneAssumption == None \notin FileRow \cup IngestionJob \cup Run \cup Outcome

VARIABLES files,      \* files[r][f]: hash and status, None without a row
          artefacts,  \* artefacts[r][f]: contents whose chunks are stored
          jobs,       \* jobs[j]: IngestionJob, None before its creation
          runs,       \* runs[j]: the run of j that is scheduled or under way
          lastRun     \* history: lastRun[r], how the last run of r ended

ingestVars == <<files, artefacts, jobs, runs, lastRun>>
vars == <<hubVars, ingestVars>>

Init ==
  /\ HubInit
  /\ files = [r \in RepoId |-> [f \in File |-> None]]
  /\ artefacts = [r \in RepoId |-> [f \in File |-> <<>>]]
  /\ jobs = [j \in Job |-> None]
  /\ runs = [j \in Job |-> None]
  /\ lastRun = [r \in RepoId |-> None]

UpdateJob(j, merged) == jobs' = [jobs EXCEPT ![j] = merged]

\* POST ingestion/repositories/:id/trigger, by any signed-in user.
TriggerIngestion(j, r, tree, force) ==
  /\ r \in RowIds /\ Spend("triggers")
  /\ jobs[j] = None
  /\ jobs' = [jobs EXCEPT ![j] = [repo |-> r, status |-> "queued", total |-> 0, processed |-> 0]]
  /\ repositories' = UpdateRepository(repositories, r, "indexing")
  /\ unattended' = unattended \ {r}
  /\ runs' = [runs EXCEPT ![j] = [tree |-> tree, force |-> force, begun |-> FALSE, alone |-> TRUE]]
  /\ UNCHANGED <<installations, deliveries, call, issued, effects, raced,
                 files, artefacts, lastRun>>

Begun(r) == {j \in Job : runs[j] # None /\ runs[j].begun /\ jobs[j].repo = r}

\* processRepository up to its loop.
BeginRun(j) ==
  /\ runs[j] # None /\ ~runs[j].begun
  /\ LET r == jobs[j].repo IN
     /\ UpdateJob(j, [jobs[j] EXCEPT !.status = "processing", !.total = Len(runs[j].tree)])
     /\ runs' = [i \in Job |->
          IF i = j THEN [runs[j] EXCEPT !.begun = TRUE, !.alone = Begun(r) = {}]
          ELSE IF i \in Begun(r) THEN [runs[i] EXCEPT !.alone = FALSE] ELSE runs[i]]
     /\ IF runs[j].force
        THEN /\ files' = [files EXCEPT ![r] = [f \in File |-> None]]
             /\ artefacts' = [artefacts EXCEPT ![r] = [f \in File |-> <<>>]]
        ELSE UNCHANGED <<files, artefacts>>
  /\ UNCHANGED <<hubVars, lastRun>>

InLoop(j) == runs[j] # None /\ runs[j].begun
Processed(j) == jobs[j].processed
Item(j) == runs[j].tree[Processed(j) + 1]

\* Fault variant of Unchanged: a file that has a row counts as unchanged.
UnchangedIfKnown(j, r, item) == files[r][item.path] # None /\ ~runs[j].force

\* An unchanged file is not parsed again.
Unchanged(j, r, item) ==
  /\ files[r][item.path] # None /\ files[r][item.path].sha = item.content
  /\ ~runs[j].force

\* Fault variant of Indexed: the artefacts of the old content stay.
IndexedBesideOld(r, item) ==
  /\ files' = [files EXCEPT ![r][item.path] = [sha |-> item.content, status |-> "indexed"]]
  /\ artefacts' = [artefacts EXCEPT ![r][item.path] = Append(@, item.content)]

\* What is saved for a file that parses: the artefacts of the old content go.
Indexed(r, item) ==
  /\ files' = [files EXCEPT ![r][item.path] = [sha |-> item.content, status |-> "indexed"]]
  /\ artefacts' = [artefacts EXCEPT ![r][item.path] =
       Append(IF files[r][item.path] # None THEN <<>> ELSE @, item.content)]

IngestFile(j) ==
  /\ InLoop(j) /\ Processed(j) < Len(runs[j].tree)
  /\ LET r == jobs[j].repo
         item == Item(j)
     IN \/ /\ item.content \in Rejected
           /\ files' = [files EXCEPT ![r][item.path] = [sha |-> item.content, status |-> "ignored"]]
           /\ UNCHANGED artefacts
        \/ item.content \notin Rejected /\ Unchanged(j, r, item) /\ UNCHANGED <<files, artefacts>>
        \/ item.content \notin Rejected \cup Broken /\ ~Unchanged(j, r, item) /\ Indexed(r, item)
  /\ UpdateJob(j, [jobs[j] EXCEPT !.processed = @ + 1])
  /\ UNCHANGED <<hubVars, runs, lastRun>>

EndRun(j, jobStatus, rowStatus) ==
  /\ UpdateJob(j, [jobs[j] EXCEPT !.status = jobStatus])
  /\ repositories' = UpdateRepository(repositories, jobs[j].repo, rowStatus)
  /\ unattended' = unattended \ {jobs[j].repo}
  /\ lastRun' = [lastRun EXCEPT ![jobs[j].repo] =
       [status |-> jobStatus, tree |-> runs[j].tree, alone |-> runs[j].alone]]
  /\ runs' = [runs EXCEPT ![j] = None]
  /\ UNCHANGED <<installations, deliveries, call, issued, effects, raced, quota,
                 files, artefacts>>

\* Fault variant of FailRun: a failure is noted in the job and not in the row.
FailRunInJobOnly(j) ==
  /\ InLoop(j) /\ Processed(j) < Len(runs[j].tree)
  /\ Item(j).content \in Broken \ Rejected
  /\ ~Unchanged(j, jobs[j].repo, Item(j))
  /\ EndRun(j, "failed", "indexing")

\* A parser that throws ends the whole run.
FailRun(j) ==
  /\ InLoop(j) /\ Processed(j) < Len(runs[j].tree)
  /\ Item(j).content \in Broken \ Rejected
  /\ ~Unchanged(j, jobs[j].repo, Item(j))
  /\ EndRun(j, "failed", "failed")

CompleteRun(j) ==
  /\ InLoop(j) /\ Processed(j) = Len(runs[j].tree)
  /\ EndRun(j, "completed", "indexed")

RunStep(j) == BeginRun(j) \/ IngestFile(j) \/ FailRun(j) \/ CompleteRun(j)

Next ==
  \/ GitHubStep /\ UNCHANGED ingestVars
  \/ \E j \in Job, r \in RepoId, tree \in Tree, force \in BOOLEAN : TriggerIngestion(j, r, tree, force)
  \/ \E j \in Job : RunStep(j)

\* The event loop serves every scheduled callback.
Fairness == \A j \in Job : WF_vars(RunStep(j))

Spec == Init /\ [][Next]_vars /\ Fairness

-----------------------------------------------------------------------------
(***************************************************************************)
(* Properties                                                              *)
(***************************************************************************)
IngestTypeOK ==
  /\ files \in [RepoId -> [File -> FileRow \cup {None}]]
  /\ artefacts \in [RepoId -> [File -> Seq(Content)]]
  /\ jobs \in [Job -> IngestionJob \cup {None}] /\ runs \in [Job -> Run \cup {None}]
  /\ \A j \in Job : /\ jobs[j] # None => jobs[j].repo \in issued
                    /\ runs[j] # None => jobs[j] # None /\ Processed(j) <= Len(runs[j].tree)
  /\ lastRun \in [RepoId -> Outcome \cup {None}]

\* Types; rows have an id each, and a run has a job, of a repository that
\* exists or has existed.
TypeOK == HubTypeOK /\ IngestTypeOK

\* An indexed file has exactly the chunks of the content it was indexed
\* with, never those of an older one or the same twice, whatever runs of its
\* repository overlap and wherever they fail.
IndexedFilesHaveTheirChunks == \A r \in RepoId, f \in File :
  files[r][f] # None /\ files[r][f].status = "indexed" => artefacts[r][f] = <<files[r][f].sha>>

\* When a repository is shown as indexed and no run of it is under way, the
\* last run was complete, and what it was given is in the index: files it
\* skipped as unchanged too, and files that an earlier failed run left.  Runs
\* that overlapped may have left each other's version of a file.
IndexedIsCurrent == \A row \in Rows :
  row.indexStatus = "indexed" /\ lastRun[row.id] # None /\ Begun(row.id) = {} =>
    /\ lastRun[row.id].status = "completed"
    /\ lastRun[row.id].alone =>
         \A i \in DOMAIN lastRun[row.id].tree :
           LET item == lastRun[row.id].tree[i] IN
           item.content \notin Rejected => files[row.id][item.path] = [sha |-> item.content, status |-> "indexed"]

\* A webhook delivery takes effect once, however often GitHub repeats it,
\* unless two calls had looked for it before either recorded it.
DeliveredOnce == \A d \in Delivery : effects[d] > 1 => d \in raced

\* A repository that was disconnected does not come back: not by a run that
\* ends after it, nor by a webhook that had found it before.
GoneStaysGone == [][issued \ RowIds \subseteq issued' \ RowIds']_vars

\* A repository shown as indexing because of a trigger comes to rest, unless
\* a push marks it again (for a push no run is started).
IndexingSettles == \A r \in RepoId :
  IsIndexing(r) /\ r \notin unattended ~> ~IsIndexing(r) \/ r \in unattended
=============================================================================
