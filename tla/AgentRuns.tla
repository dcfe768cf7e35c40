------------------------------ MODULE AgentRuns -----------------------------
(***************************************************************************)
(* AgentOrchestratorService with the strategies, the guardrails, the tool  *)
(* registry and the sandbox.  A dispatch answers only when its loop over   *)
(* the planned steps is over; between two tools anybody may cancel the     *)
(* run, apply a patch of it or open a pull request from it.  One action is *)
(* one tool call (the sandbox takes 60 to 80 ms, the others an await).     *)
(***************************************************************************)
EXTENDS Naturals, SequencesExt, FiniteSets

CONSTANTS Run,
          Role,        \* UserRole of those who dispatch
          Requested,   \* maxIterations they ask for, 0 for none
          MaxOrders,   \* bound: cancellations, applications and pull requests
          None

VARIABLES run,     \* run[r]: AgentRun, None before its dispatch
          loop,    \* loop[r]: tools done in the step under way, None when over
          created, \* createdPatches[r] of the tool registry
          branches,\* createdBranches of the repository, in order
          orders   \* cancellations, applications and pull requests so far

vars == <<run, loop, created, branches, orders>>

\* getInitialPlan: the tools of each step.
Plan(kind) ==
  CASE kind = "INVESTIGATION"   -> << <<"search_code">>, <<"get_symbol", "read_file">> >>
    [] kind = "DEBUG_CHECKOUT"  -> << <<"search_code">>, <<"read_file">>, <<"read_file">>,
                                      <<"run_tests">>, <<"create_patch", "create_branch">> >>
    [] kind = "DEBUG_OTHER"     -> << <<"search_code">>, <<"run_tests">> >>
    [] kind = "DOCUMENTATION"   -> << <<"search_repository", "search_code">>,
                                      <<"read_file", "read_file">> >>
    [] kind = "TESTING"         -> << <<"search_code", "read_file">>, <<"run_tests", "run_linter">> >>

Kinds == {"INVESTIGATION", "DEBUG_CHECKOUT", "DEBUG_OTHER", "DOCUMENTATION", "TESTING"}

\* The plans that pass the text of the goal to a tool.
QuotesGoal(kind, step) == kind \in {"INVESTIGATION", "DEBUG_OTHER"} /\ step = 1
Sandboxed == {"run_tests", "run_linter"}

\* ROLE_PERMISSIONS, as far as the guardrails ask.
Permitted(role) ==
  CASE role = "ADMIN"     -> {"AGENT_DISPATCH", "REPO_WRITE", "TEST_GENERATE"}
    [] role = "DEVELOPER" -> {"AGENT_DISPATCH", "REPO_WRITE", "TEST_GENERATE"}
    [] OTHER -> {}

Needed(tool) == CASE tool \in {"create_patch", "create_branch", "create_pull_request"} -> {"REPO_WRITE"}
                  [] tool = "run_tests" -> {"TEST_GENERATE"}
                  [] OTHER -> {}

\* validateDispatchRequest: 1 to 20 iterations, 10 when the request has none.
SafeMaxIterations(n) == IF n = 0 THEN 10 ELSE IF n > 20 THEN 20 ELSE n

Init ==
  /\ run = [r \in Run |-> None]
  /\ loop = [r \in Run |-> None]
  /\ created = [r \in Run |-> <<>>]
  /\ branches = <<>>
  /\ orders = 0

-----------------------------------------------------------------------------
DispatchAgent(r, kind, role, n, refused) ==
  /\ run[r] = None
  /\ "AGENT_DISPATCH" \in Permitted(role)
  /\ run' = [run EXCEPT ![r] =
       [kind |-> kind, role |-> role, limit |-> SafeMaxIterations(n), refused |-> refused,
        status |-> "EXECUTING_TOOLS", iterations |-> 0, steps |-> <<>>, patches |-> <<>>,
        branch |-> FALSE, sandboxed |-> 0, pullRequest |-> FALSE]]
  /\ loop' = [loop EXCEPT ![r] = 0]
  /\ UNCHANGED <<created, branches, orders>>

InLoop(r) == loop[r] # None
StepNumber(r) == Len(run[r].steps) + 1
StepsLeft(r) == StepNumber(r) <= Len(Plan(run[r].kind))
Tools(r) == Plan(run[r].kind)[StepNumber(r)]

WithinLimit(r) == StepNumber(r) <= run[r].limit

\* An exception leaves the loop, and the run with the status it had.
Throw(r) == loop' = [loop EXCEPT ![r] = None] /\ UNCHANGED <<created, branches, orders>>

\* Fault variant of StopAtLimit: the limit ends the loop and not the run: what is done is called
\* complete.
CompleteAtLimit(r) ==
  /\ InLoop(r) /\ StepsLeft(r) /\ loop[r] = 0
  /\ run' = [run EXCEPT ![r].iterations = StepNumber(r), ![r].status = "COMPLETED"]
  /\ Throw(r)

\* checkStepExecution refuses the step: too many, or (whatever the limit) too
\* long after the dispatch.  The count is written before the check.
StopAtLimit(r) ==
  /\ InLoop(r) /\ StepsLeft(r) /\ loop[r] = 0
  /\ run' = [run EXCEPT ![r].iterations = StepNumber(r)]
  /\ Throw(r)

\* validateToolExecution refuses the tool: for want of a permission, or for
\* what the goal says.
Refuses(r, tool) == \/ ~Needed(tool) \subseteq Permitted(run[r].role)
                    \/ run[r].refused /\ QuotesGoal(run[r].kind, StepNumber(r))

RefuseTool(r) ==
  /\ InLoop(r) /\ StepsLeft(r) /\ (loop[r] = 0 => WithinLimit(r))
  /\ Refuses(r, Tools(r)[loop[r] + 1])
  /\ run' = [run EXCEPT ![r].iterations = StepNumber(r)]
  /\ Throw(r)

\* executeTool and what the loop makes of its result; an error of the tool
\* itself is only noted.  After its last tool the step is recorded.
ExecuteTool(r) ==
  /\ InLoop(r) /\ StepsLeft(r) /\ (loop[r] = 0 => WithinLimit(r))
  /\ LET row == run[r]
         tool == Tools(r)[loop[r] + 1]
         last == loop[r] + 1 = Len(Tools(r))
         patch == <<r, Len(created[r]) + 1>>
     IN /\ ~Refuses(r, tool)
        /\ run' = [run EXCEPT ![r] =
             [row EXCEPT !.iterations = StepNumber(r),
                         !.sandboxed = IF tool \in Sandboxed THEN row.sandboxed + 1 ELSE row.sandboxed,
                         !.patches = IF tool = "create_patch" THEN Append(row.patches, [id |-> patch, applied |-> FALSE])
                                     ELSE row.patches,
                         !.branch = row.branch \/ tool = "create_branch",
                         !.steps = IF last THEN Append(row.steps, Tools(r)) ELSE row.steps]]
        /\ created' = IF tool = "create_patch" THEN [created EXCEPT ![r] = Append(@, patch)] ELSE created
        /\ branches' = IF tool = "create_branch" /\ ~Contains(branches, run[r].kind)
                       THEN Append(branches, run[r].kind) ELSE branches
        /\ loop' = [loop EXCEPT ![r] = IF last THEN 0 ELSE @ + 1]
  /\ UNCHANGED orders

\* Fault variant of CompleteRun: the loop of a cancelled run is never ended.
CompleteUnlessCancelled(r) ==
  /\ InLoop(r) /\ ~StepsLeft(r) /\ run[r].status # "CANCELLED"
  /\ run' = [run EXCEPT ![r].status = "COMPLETED"]
  /\ Throw(r)

\* The end of the loop, whatever the status has become meanwhile.
CompleteRun(r) ==
  /\ InLoop(r) /\ ~StepsLeft(r)
  /\ run' = [run EXCEPT ![r].status = "COMPLETED"]
  /\ Throw(r)

-----------------------------------------------------------------------------
Order == orders < MaxOrders /\ orders' = orders + 1

CancelRun(r) ==
  /\ run[r] # None /\ run[r].status \notin {"COMPLETED", "FAILED"} /\ Order
  /\ run' = [run EXCEPT ![r].status = "CANCELLED"]
  /\ UNCHANGED <<loop, created, branches>>

ApplyPatch(r) ==
  /\ run[r] # None /\ Order
  /\ \E i \in DOMAIN run[r].patches : run' = [run EXCEPT ![r].patches[i].applied = TRUE]
  /\ UNCHANGED <<loop, created, branches>>

\* From any run, finished or not, with or without a branch.
CreatePullRequestFromRun(r) ==
  /\ run[r] # None /\ Order
  /\ run' = [run EXCEPT ![r].pullRequest = TRUE]
  /\ UNCHANGED <<loop, created, branches>>

LoopStep(r) == StopAtLimit(r) \/ RefuseTool(r) \/ ExecuteTool(r) \/ CompleteRun(r)

Next == \E r \in Run :
  \/ \E kind \in Kinds, role \in Role, n \in Requested :
       \E refused \in IF QuotesGoal(kind, 1) THEN BOOLEAN ELSE {FALSE} :
         DispatchAgent(r, kind, role, n, refused)
  \/ LoopStep(r)
  \/ CancelRun(r) \/ ApplyPatch(r) \/ CreatePullRequestFromRun(r)

\* Every tool call settles.
Spec == Init /\ [][Next]_vars /\ \A r \in Run : WF_vars(LoopStep(r))

-----------------------------------------------------------------------------
(***************************************************************************)
(* Properties                                                              *)
(***************************************************************************)
Tool == {"search_repository", "search_code", "get_symbol", "read_file", "run_tests", "run_linter",
         "create_patch", "create_branch"}
AgentRun == [kind : Kinds, role : Role, limit : 1 .. 20, refused : BOOLEAN,
             status : {"EXECUTING_TOOLS", "COMPLETED", "CANCELLED"}, iterations : Nat,
             steps : Seq(Seq(Tool)), patches : Seq([id : Run \X Nat, applied : BOOLEAN]),
             branch : BOOLEAN, sandboxed : Nat, pullRequest : BOOLEAN]

\* Types; a loop belongs to a run and stands before a tool of its step.
TypeOK ==
  /\ run \in [Run -> AgentRun \cup {None}]
  /\ \A r \in Run : InLoop(r) => run[r] # None /\ (loop[r] = 0 \/ loop[r] < Len(Tools(r)))
  /\ created \in [Run -> Seq(Run \X Nat)]
  /\ IsInjective(branches)
  /\ orders \in 0 .. MaxOrders

Occurrences(tools, kind) ==
  Cardinality({p \in (1 .. 5) \X (1 .. 2) :
    p[1] \in DOMAIN Plan(kind) /\ p[2] \in DOMAIN Plan(kind)[p[1]] /\ Plan(kind)[p[1]][p[2]] \in tools})

\* A COMPLETED run did everything it had planned, within its limit, and
\* carries all of it, however often it was cancelled on the way: every step,
\* one patch per patching tool (the same ones the registry keeps), every
\* sandboxed call.  A run that a guardrail stopped is never COMPLETED.
CompletedRunIsWhole == \A r \in Run :
  run[r] # None /\ run[r].status = "COMPLETED" =>
    /\ run[r].steps = Plan(run[r].kind) /\ Len(run[r].steps) <= run[r].limit
    /\ [i \in DOMAIN run[r].patches |-> run[r].patches[i].id] = created[r]
    /\ Len(created[r]) = Occurrences({"create_patch"}, run[r].kind)
    /\ run[r].sandboxed = Occurrences(Sandboxed, run[r].kind)
    /\ run[r].branch = (Occurrences({"create_branch"}, run[r].kind) > 0)

\* Every dispatch answers, and the run it answers about is COMPLETED, or was
\* stopped by a guardrail before a step (and then keeps the status it had).
DispatchAnswers == \A r \in Run :
  InLoop(r) ~> /\ run[r] # None /\ ~InLoop(r)
               /\ run[r].status = "COMPLETED" \/ StepsLeft(r)
=============================================================================
