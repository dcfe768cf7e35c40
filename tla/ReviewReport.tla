---------------------------- MODULE ReviewReport ----------------------------
(***************************************************************************)
(* The report of one pull request in the web application.  Its fixes, its  *)
(* sandbox run and its publication may overlap.  Two facts are kept twice: *)
(* a fix is applied in the findings and in appliedFindingIds, and the      *)
(* report is published in githubPublished and in itself.                   *)
(***************************************************************************)
EXTENDS Integers, FiniteSets

CONSTANTS ReviewIds,  \* the reports opened
          MaxComments \* bound: comments of the thread

VARIABLES report, appliedFindingIds, isRunningSandbox, sandboxLogs,
          isPublishingGitHub, githubPublished,
          humanComments \* how many

vars == <<report, appliedFindingIds, isRunningSandbox, sandboxLogs, isPublishingGitHub,
          githubPublished, humanComments>>

Report143 == [findings |-> {[id |-> "sec", category |-> "Security", severity |-> "CRITICAL", applied |-> FALSE]},
              decision |-> "CHANGES_REQUESTED", overallScore |-> 78, security |-> 1, published |-> FALSE]
Report142 == [findings |-> {}, decision |-> "APPROVED", overallScore |-> 98, security |-> 0, published |-> TRUE]

Init ==
  /\ \E i \in ReviewIds : report = IF i = 142 THEN Report142 ELSE Report143
  /\ appliedFindingIds = {} /\ isRunningSandbox = FALSE /\ sandboxLogs = FALSE
  /\ isPublishingGitHub = FALSE /\ githubPublished = report.published
  /\ humanComments = 2

\* The verdict over the findings that are still open.
Recounted(findings) ==
  LET open == {f \in findings : ~f.applied}
      security == Cardinality({f \in open : f.category = "Security"})
      critical == Cardinality({f \in open : f.severity = "CRITICAL"})
      high == Cardinality({f \in open : f.severity = "HIGH"})
      score == 100 - critical * 22 - high * 12
  IN [report EXCEPT !.findings = findings, !.security = security, !.overallScore = score,
                    !.decision = IF security = 0 /\ critical = 0 /\ score >= 90
                                 THEN "APPROVED" ELSE "CHANGES_REQUESTED"]

\* The button of a finding without the Applied badge.
FixOffered(f) == ~(f.applied \/ f.id \in appliedFindingIds)

HandleApplyFix(f) ==
  /\ f \in report.findings /\ FixOffered(f)
  /\ report' = Recounted((report.findings \ {f}) \cup {[f EXCEPT !.applied = TRUE]})
  /\ appliedFindingIds' = appliedFindingIds \cup {f.id}
  /\ UNCHANGED <<isRunningSandbox, sandboxLogs, isPublishingGitHub, githubPublished, humanComments>>

HandleRunSandbox ==
  /\ ~isRunningSandbox
  /\ isRunningSandbox' = TRUE /\ sandboxLogs' = FALSE
  /\ UNCHANGED <<report, appliedFindingIds, isPublishingGitHub, githubPublished, humanComments>>

SandboxTimer ==
  /\ isRunningSandbox
  /\ isRunningSandbox' = FALSE /\ sandboxLogs' = TRUE
  /\ UNCHANGED <<report, appliedFindingIds, isPublishingGitHub, githubPublished, humanComments>>

\* The button is there until githubPublished, and off while it publishes.
PublishOffered == ~githubPublished /\ ~isPublishingGitHub

HandlePublishToGitHub ==
  /\ PublishOffered
  /\ isPublishingGitHub' = TRUE
  /\ UNCHANGED <<report, appliedFindingIds, isRunningSandbox, sandboxLogs, githubPublished, humanComments>>

\* Of the report as it is by then, with what was applied meanwhile.
PublishTimer ==
  /\ isPublishingGitHub
  /\ isPublishingGitHub' = FALSE /\ githubPublished' = TRUE
  /\ report' = [report EXCEPT !.published = TRUE]
  /\ UNCHANGED <<appliedFindingIds, isRunningSandbox, sandboxLogs, humanComments>>

HandleAddComment ==
  /\ humanComments < MaxComments
  /\ humanComments' = humanComments + 1
  /\ UNCHANGED <<report, appliedFindingIds, isRunningSandbox, sandboxLogs, isPublishingGitHub, githubPublished>>

Next ==
  \/ \E f \in report.findings : HandleApplyFix(f)
  \/ HandleRunSandbox \/ SandboxTimer \/ HandlePublishToGitHub \/ PublishTimer \/ HandleAddComment

Spec == Init /\ [][Next]_vars

-----------------------------------------------------------------------------
(***************************************************************************)
(* Properties                                                              *)
(***************************************************************************)
\* Types of the report and of what the page keeps beside it.
TypeOK ==
  /\ report.decision \in {"APPROVED", "CHANGES_REQUESTED"} /\ report.overallScore \in Int
  /\ report.published \in BOOLEAN
  /\ {isRunningSandbox, sandboxLogs, isPublishingGitHub, githubPublished} \subseteq BOOLEAN
  /\ humanComments \in 0 .. MaxComments

\* The verdict is that of the findings still open, whatever is applied while
\* the report is being published, and what the page keeps twice agrees.
VerdictIsOfOpenFindings ==
  /\ report.decision = "APPROVED" <=> \A f \in report.findings : f.applied
  /\ appliedFindingIds = {f.id : f \in {g \in report.findings : g.applied}}
  /\ githubPublished = report.published
=============================================================================
