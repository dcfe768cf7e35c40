---------------------------- MODULE ReviewCockpit ---------------------------
(***************************************************************************)
(* The reviews page of the web application.  It plays a review pipeline    *)
(* with a timer that sees the form, and the list, as they were at the      *)
(* click; the dialog may be closed, opened and filled in again meanwhile.  *)
(***************************************************************************)
EXTENDS Naturals, Sequences, FiniteSets, Functions, Filters

CONSTANTS PrNumber, \* numbers typed or preset; 143 and 144 are the presets
          Diff,     \* what is pasted: of "empty", "sql", "loop"
          None

VARIABLES reviews, form, isModalOpen,
          triggering \* what the pending timer was started with; None

vars == <<reviews, form, isModalOpen, triggering>>

\* Of a review: its score, verdict, open issues and findings.
InitialReviews ==
  <<[id |-> 143, score |-> 78, decision |-> "CHANGES_REQUESTED", security |-> 1, findings |-> {"Security"}],
    [id |-> 142, score |-> 98, decision |-> "APPROVED", security |-> 0, findings |-> {}],
    [id |-> 141, score |-> 95, decision |-> "APPROVED", security |-> 0, findings |-> {}],
    [id |-> 140, score |-> 91, decision |-> "APPROVED", security |-> 0, findings |-> {}]>>

Init ==
  /\ reviews = InitialReviews
  /\ form = [number |-> 145, diff |-> "empty"] /\ isModalOpen = FALSE
  /\ triggering = None

ToggleModal ==
  /\ isModalOpen' = ~isModalOpen
  /\ UNCHANGED <<reviews, form, triggering>>

HandleSelectPreset(n) ==
  /\ isModalOpen /\ n \in {143, 144}
  /\ form' = [number |-> n, diff |-> IF n = 143 THEN "sql" ELSE "loop"]
  /\ UNCHANGED <<reviews, isModalOpen, triggering>>

\* The inputs; a number that does not parse is 145.
Type(n, diff) ==
  /\ isModalOpen
  /\ form' = [number |-> n, diff |-> diff]
  /\ UNCHANGED <<reviews, isModalOpen, triggering>>

\* The timer sees the form as it was at the click, and so may be another than
\* the one a reopened dialog shows when it ends.
HandleTriggerReview ==
  /\ isModalOpen /\ triggering = None
  /\ triggering' = form
  /\ UNCHANGED <<reviews, form, isModalOpen>>

Reviewed(f) ==
  LET isSecPr == f.number = 143 \/ f.diff = "sql"
      isPerfPr == f.number = 144 \/ f.diff = "loop"
  IN [id |-> f.number,
      score |-> IF isSecPr THEN 78 ELSE IF isPerfPr THEN 82 ELSE 96,
      decision |-> IF isSecPr THEN "CHANGES_REQUESTED" ELSE IF isPerfPr THEN "COMMENTED" ELSE "APPROVED",
      security |-> IF isSecPr THEN 1 ELSE 0,
      findings |-> IF isSecPr THEN {"Security"} ELSE IF isPerfPr THEN {"Correctness"} ELSE {}]

\* Fault variant of Listing: the review of before stays in the list.
ListingBoth(r) == <<r>> \o reviews

Listing(r) == <<r>> \o Kept(reviews, {i \in DOMAIN reviews : reviews[i].id # r.id})

ReviewTimer ==
  /\ triggering # None
  /\ reviews' = Listing(Reviewed(triggering))
  /\ triggering' = None /\ isModalOpen' = FALSE
  /\ UNCHANGED <<form>>

\* What the page totals, and lists of what is asked for; "ALL" asks for all.
SecurityPrevented ==
  LET total[n \in 0 .. Len(reviews)] == IF n = 0 THEN 0 ELSE total[n - 1] + reviews[n].security
  IN total[Len(reviews)]
FilteredReviews(decision, category) ==
  Kept(reviews, {i \in DOMAIN reviews : /\ decision \in {"ALL", reviews[i].decision}
                                        /\ category \in {"ALL"} \cup reviews[i].findings})

Next ==
  \/ ToggleModal \/ HandleTriggerReview \/ ReviewTimer
  \/ \E n \in PrNumber : HandleSelectPreset(n) \/ \E diff \in Diff : Type(n, diff)

Spec == Init /\ [][Next]_vars

-----------------------------------------------------------------------------
(***************************************************************************)
(* Properties                                                              *)
(***************************************************************************)
Form == [number : PrNumber \cup {145}, diff : Diff]

\* Types of the list, the form and what the timer was started with.
TypeOK ==
  /\ Range(reviews) \subseteq
       [id : Nat, score : 0 .. 100, decision : {"APPROVED", "CHANGES_REQUESTED", "COMMENTED"},
        security : {0, 1}, findings : SUBSET {"Security", "Correctness"}]
  /\ form \in Form /\ isModalOpen \in BOOLEAN /\ triggering \in Form \cup {None}

\* Whatever is typed or selected while a pipeline is pending, a pull request
\* is listed once, none of the first ones is lost, and the filters find what
\* the totals count.
ReviewsKept ==
  /\ IsInjective([i \in DOMAIN reviews |-> reviews[i].id])
  /\ {r.id : r \in Range(InitialReviews)} \subseteq {r.id : r \in Range(reviews)}
  /\ SecurityPrevented = Len(FilteredReviews("CHANGES_REQUESTED", "Security"))
=============================================================================
