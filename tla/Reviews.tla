------------------------------- MODULE Reviews ------------------------------
(***************************************************************************)
(* ReviewsService with ReviewAnalyzerService: the verdict on a pull        *)
(* request, the suggestions applied to it, and its publication through     *)
(* GitHubService.  A diff is what the rules find in it, a finding its      *)
(* severity and whether it is about security.                              *)
(***************************************************************************)
EXTENDS Integers, FiniteSetsExt, SequencesExt

CONSTANTS Review, Seeded,  \* reviews, and the seeded ones
          Diffs,           \* sets of findings: functions from Finding to Nat
          Publisher,       \* publications that may be under way at once
          None,
          MaxPosts         \* bound: publications

Finding == {"CRITICAL", "HIGH", "MEDIUM", "LOW"} \X {"Security", "Other"}

VARIABLES report,     \* report[r]: CodeReviewReport, None
          publishing, \* publishing[p]: the review and the event read for it
          posts       \* the reviews GitHub has taken, in order

vars == <<report, publishing, posts>>

Severe(findings, severity) == findings[<<severity, "Security">>] + findings[<<severity, "Other">>]
Security(findings) == findings[<<"CRITICAL", "Security">>] + findings[<<"HIGH", "Security">>]
                        + findings[<<"MEDIUM", "Security">>] + findings[<<"LOW", "Security">>]

\* analyzeDiff: the health score, within 0 and 100, and the decision.
Clamp(n) == IF n < 0 THEN 0 ELSE IF n > 100 THEN 100 ELSE n
FixScore(findings) == Clamp(100 - 22 * Severe(findings, "CRITICAL") - 12 * Severe(findings, "HIGH")
                                - 6 * Severe(findings, "MEDIUM"))
OverallScore(findings) == Clamp(100 - 22 * Severe(findings, "CRITICAL") - 12 * Severe(findings, "HIGH")
                                    - 6 * Severe(findings, "MEDIUM") - 2 * Severe(findings, "LOW"))

Blocked(findings) ==
  Severe(findings, "CRITICAL") > 0 \/ Severe(findings, "HIGH") > 0 \/ Security(findings) > 0

Decision(findings) ==
  IF Blocked(findings) \/ OverallScore(findings) < 75 THEN "CHANGES_REQUESTED"
  ELSE IF Severe(findings, "MEDIUM") > 0 \/ OverallScore(findings) < 90 THEN "COMMENTED"
  ELSE "APPROVED"

\* No rule finds anything in the default diff.
Clean == [f \in Finding |-> 0]
Report(findings, score, decision) ==
  [found |-> findings, open |-> findings, score |-> score, decision |-> decision,
   published |-> FALSE, githubReviewId |-> 0]

Init ==
  /\ report = [r \in Review |-> IF r \in Seeded THEN Report(Clean, 91, "APPROVED") ELSE None]
  /\ publishing = [p \in Publisher |-> None]
  /\ posts = <<>>

-----------------------------------------------------------------------------
TriggerReview(r, findings) ==
  /\ report[r] = None
  /\ report' = [report EXCEPT ![r] = Report(findings, OverallScore(findings), Decision(findings))]
  /\ UNCHANGED <<publishing, posts>>

\* Fault variant of Rescored: the findings are counted before the fix is marked.
RescoredBefore(old, open) ==
  [old EXCEPT !.open = open, !.score = FixScore(old.open),
              !.decision = IF ~Blocked(old.open) /\ FixScore(old.open) >= 90 THEN "APPROVED" ELSE @]

\* The report after a fix: a score without the LOW findings, and an approval
\* when nothing severe is left; nothing else changes the decision.
Rescored(old, open) ==
  [old EXCEPT !.open = open, !.score = FixScore(open),
              !.decision = IF ~Blocked(open) /\ FixScore(open) >= 90 THEN "APPROVED" ELSE @]

\* Applying what is applied already rescores the report as well.
ApplySuggestion(r, f) ==
  /\ report[r] # None /\ report[r].found[f] > 0
  /\ \E open \in {[report[r].open EXCEPT ![f] = @ - 1], report[r].open} :
       /\ 0 <= open[f] /\ open[f] < report[r].found[f]
       /\ report' = [report EXCEPT ![r] = Rescored(@, open)]
  /\ UNCHANGED <<publishing, posts>>

\* publishReviewToGitHub up to its await, its event given or from the
\* decision.
EventFor(r, asked) ==
  IF asked # None THEN asked ELSE IF report[r].decision = "APPROVED" THEN "APPROVE" ELSE "REQUEST_CHANGES"

PublishReview(p, r, asked) ==
  /\ publishing[p] = None /\ report[r] # None
  /\ Len(posts) + Cardinality({q \in Publisher : publishing[q] # None}) < MaxPosts
  /\ publishing' = [publishing EXCEPT ![p] = [review |-> r, event |-> EventFor(r, asked), asked |-> asked # None]]
  /\ UNCHANGED <<report, posts>>

\* Fault variant of PublishReviewComments: the report keeps the id of its first publication.
PublishReviewCommentsOnce(p) ==
  /\ publishing[p] # None
  /\ posts' = Append(posts, publishing[p])
  /\ report' = [report EXCEPT ![publishing[p].review] =
       [@ EXCEPT !.published = TRUE, !.githubReviewId = IF @ = 0 THEN Len(posts') ELSE @]]
  /\ publishing' = [publishing EXCEPT ![p] = None]

\* publishReviewComments, and what the report remembers of it.
PublishReviewComments(p) ==
  /\ publishing[p] # None
  /\ posts' = Append(posts, publishing[p])
  /\ report' = [report EXCEPT ![publishing[p].review] = [@ EXCEPT !.published = TRUE, !.githubReviewId = Len(posts')]]
  /\ publishing' = [publishing EXCEPT ![p] = None]

Next ==
  \/ \E r \in Review : \/ \E findings \in Diffs : TriggerReview(r, findings)
                       \/ \E f \in Finding : ApplySuggestion(r, f)
                       \/ \E p \in Publisher, asked \in {None, "APPROVE", "COMMENT"} : PublishReview(p, r, asked)
  \/ \E p \in Publisher : PublishReviewComments(p)

Spec == Init /\ [][Next]_vars

-----------------------------------------------------------------------------
(***************************************************************************)
(* Properties                                                              *)
(***************************************************************************)
CodeReviewReport == [found : [Finding -> Nat], open : [Finding -> Nat], score : 0 .. 100,
                     decision : {"APPROVED", "COMMENTED", "CHANGES_REQUESTED"},
                     published : BOOLEAN, githubReviewId : Nat]
Publication == [review : Review, event : {"APPROVE", "COMMENT", "REQUEST_CHANGES"}, asked : BOOLEAN]

\* Types; a report knows the last review of it that GitHub has taken.
TypeOK ==
  /\ report \in [Review -> CodeReviewReport \cup {None}]
  /\ publishing \in [Publisher -> Publication \cup {None}]
  /\ posts \in Seq(Publication) /\ Len(posts) <= MaxPosts
  /\ \A r \in Review : report[r] # None =>
       LET mine == {i \in DOMAIN posts : posts[i].review = r}
       IN report[r].githubReviewId = Max(mine \cup {0}) /\ (report[r].published <=> mine # {})

\* Whatever order suggestions are applied and reviews published in: an
\* approval is never given while a blocking finding is open or more than one
\* MEDIUM is, every report whose findings are all fixed is approved, and
\* GitHub is never sent an approval (nobody having asked for one) of a report
\* that is not approved now.
ApprovalEarned ==
  /\ \A r \in Review : report[r] # None =>
       /\ report[r].decision = "APPROVED" => ~Blocked(report[r].open) /\ Severe(report[r].open, "MEDIUM") <= 1
       /\ report[r].open = Clean => report[r].decision = "APPROVED"
  /\ \A i \in DOMAIN posts : posts[i].event = "APPROVE" /\ ~posts[i].asked
                               => report[posts[i].review].decision = "APPROVED"
=============================================================================
