----------------------------- MODULE AgentsPage -----------------------------
(***************************************************************************)
(* The agents cockpit of the web application.  A dispatch plays a run with *)
(* two timers; several runs may be under way, and they share the one       *)
(* isExecuting.  A patch is applied to, and a pull request made of, the    *)
(* run that is shown when the button is pressed.                           *)
(***************************************************************************)
EXTENDS Naturals, Sequences, FiniteSets, Functions

CONSTANTS NewRun, \* runs dispatched here
          Seed,   \* the run the page starts with
          None

VARIABLES runs, listed, selectedRunId, isExecuting,
          planning,  \* runs whose 400 ms timer is pending
          executing  \* runs whose 1200 ms timer is pending

vars == <<runs, listed, selectedRunId, isExecuting, planning, executing>>

Run == NewRun \cup {Seed}

\* A step is the tools it called.
SeedSteps == <<<<"search_code">>, <<"read_file">>, <<"read_file">>, <<"run_tests">>,
               <<"create_patch", "create_branch">>>>
SeedRun == [status |-> "COMPLETED", steps |-> SeedSteps, iterationsCount |-> 5, sandboxedRunsCount |-> 1,
            patches |-> <<FALSE>>, pullRequest |-> FALSE, finalResponse |-> TRUE]
Planned == [status |-> "PLANNING", steps |-> <<>>, iterationsCount |-> 0, sandboxedRunsCount |-> 0,
            patches |-> <<>>, pullRequest |-> FALSE, finalResponse |-> FALSE]

Init ==
  /\ runs = [r \in Run |-> IF r = Seed THEN SeedRun ELSE None]
  /\ listed = <<Seed>> /\ selectedRunId = Seed
  /\ isExecuting = FALSE
  /\ planning = {} /\ executing = {}

-----------------------------------------------------------------------------
HandleDispatch(r) ==
  /\ runs[r] = None
  /\ runs' = [runs EXCEPT ![r] = Planned]
  /\ listed' = <<r>> \o listed /\ selectedRunId' = r
  /\ isExecuting' = TRUE
  /\ planning' = planning \cup {r} /\ executing' = executing \cup {r}

SelectRun(r) ==
  /\ r \in Range(listed)
  /\ selectedRunId' = r
  /\ UNCHANGED <<runs, listed, isExecuting, planning, executing>>

FirstStep(r) ==
  /\ r \in planning
  /\ planning' = planning \ {r}
  /\ runs' = [runs EXCEPT ![r] = [@ EXCEPT !.status = "EXECUTING_TOOLS", !.iterationsCount = 1,
                                           !.steps = <<<<"search_code">>>>]]
  /\ UNCHANGED <<listed, selectedRunId, isExecuting, executing>>

\* Fault variant of LastStep: the step is recorded and not counted.
LastStepUncounted(r) ==
  /\ r \in executing /\ r \notin planning
  /\ executing' = executing \ {r}
  /\ runs' = [runs EXCEPT ![r] = [@ EXCEPT !.status = "COMPLETED", !.finalResponse = TRUE,
                                           !.steps = Append(runs[r].steps, <<"run_tests">>)]]
  /\ isExecuting' = FALSE
  /\ UNCHANGED <<listed, selectedRunId, planning>>

\* The longer timer of a run.  It ends the execution of any other run too.
LastStep(r) ==
  /\ r \in executing /\ r \notin planning
  /\ executing' = executing \ {r}
  /\ runs' = [runs EXCEPT ![r] = [@ EXCEPT !.status = "COMPLETED", !.finalResponse = TRUE,
                                           !.iterationsCount = 2, !.sandboxedRunsCount = 1,
                                           !.steps = Append(runs[r].steps, <<"run_tests">>)]]
  /\ isExecuting' = FALSE
  /\ UNCHANGED <<listed, selectedRunId, planning>>

HandleApplyPatch(i) ==
  /\ i \in DOMAIN runs[selectedRunId].patches /\ ~runs[selectedRunId].patches[i]
  /\ runs' = [runs EXCEPT ![selectedRunId].patches[i] = TRUE]
  /\ UNCHANGED <<listed, selectedRunId, isExecuting, planning, executing>>

\* The card with the button belongs to the patches.
HandleCreatePR ==
  /\ runs[selectedRunId].patches # <<>> /\ ~runs[selectedRunId].pullRequest
  /\ runs' = [runs EXCEPT ![selectedRunId].pullRequest = TRUE]
  /\ UNCHANGED <<listed, selectedRunId, isExecuting, planning, executing>>

Next ==
  \/ \E r \in NewRun : HandleDispatch(r) \/ FirstStep(r) \/ LastStep(r)
  \/ \E r \in Run : SelectRun(r)
  \/ HandleApplyPatch(1) \/ HandleCreatePR

Spec == Init /\ [][Next]_vars

-----------------------------------------------------------------------------
(***************************************************************************)
(* Properties                                                              *)
(***************************************************************************)
Tool == {"search_code", "read_file", "run_tests", "create_patch", "create_branch"}
AgentRun == [status : {"PLANNING", "EXECUTING_TOOLS", "COMPLETED"}, steps : Seq(Seq(Tool)),
             iterationsCount : Nat, sandboxedRunsCount : Nat, patches : Seq(BOOLEAN),
             pullRequest : BOOLEAN, finalResponse : BOOLEAN]

\* Types; the run shown is a listed one, and each is listed once.
TypeOK ==
  /\ runs \in [Run -> AgentRun \cup {None}]
  /\ IsInjective(listed) /\ Range(listed) = {r \in Run : runs[r] # None}
  /\ selectedRunId \in Range(listed) /\ isExecuting \in BOOLEAN
  /\ planning \subseteq executing /\ executing \subseteq NewRun

\* A run is unfinished exactly while a timer will finish it; and the page
\* says that it executes only while some run does.
NothingHangs ==
  /\ \A r \in Run : runs[r] # None => (runs[r].status # "COMPLETED" <=> r \in executing)
  /\ isExecuting => executing # {}

\* The steps that ran the tests.
TestSteps(list) == {i \in DOMAIN list : "run_tests" \in Range(list[i])}

\* The counters of a run are those of its steps, at any moment and however
\* runs overlap, and it answers if and only if it is complete.
RunsAddUp == \A r \in Run : runs[r] # None =>
  /\ runs[r].iterationsCount = Len(runs[r].steps)
  /\ runs[r].sandboxedRunsCount = Cardinality(TestSteps(runs[r].steps))
  /\ runs[r].finalResponse <=> runs[r].status = "COMPLETED"
=============================================================================
