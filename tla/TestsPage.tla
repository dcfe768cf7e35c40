------------------------------ MODULE TestsPage -----------------------------
(***************************************************************************)
(* The test generation page of the web application.  Generation and fixes  *)
(* ask the server and, when it refuses or is away, are played locally from *)
(* what the page held when the button was pressed.  Generation and a fix   *)
(* may overlap; each ends by replacing the whole suite.                    *)
(***************************************************************************)
EXTENDS Naturals, FiniteSets

CONSTANTS Benchmarks,    \* of "checkout-service", "auth-service", "rate-limiter", "data-transformer-python"
          TestType,      \* of "unit", "integration", "edge_case", "failure_case"
          PipelineSteps, \* timers before a generation asks the server
          MaxOrders,     \* bound: buttons pressed
          None

VARIABLES suite, selectedBenchmark, selectedTypes,
          generating, \* the generation under way: its step and what it began with
          fixing,     \* the fix under way: its case, and the suite it began with
          isGenerating, isRunning, isApplyingFix, activeStep, orders

vars == <<suite, selectedBenchmark, selectedTypes, generating, fixing,
          isGenerating, isRunning, isApplyingFix, activeStep, orders>>

Number(status, x) == Cardinality({t \in DOMAIN status : status[t] = x})

\* A suite of the cases of these types, and what is counted of them.  The
\* cases that fail have a suggested fix.
SuiteOf(status) ==
  [status |-> status, overallStatus |-> IF Number(status, "FAIL") > 0 THEN "FAIL" ELSE "PASS",
   totalCount |-> Cardinality(DOMAIN status),
   passedCount |-> Number(status, "PASS"), failedCount |-> Number(status, "FAIL"),
   fixes |-> {t \in DOMAIN status : status[t] = "FAIL"}]

InitialSuite == SuiteOf([t \in TestType |-> IF t = "unit" THEN "FAIL" ELSE "PASS"])

Init ==
  /\ suite = InitialSuite
  /\ selectedBenchmark = "checkout-service" /\ selectedTypes = TestType
  /\ generating = None /\ fixing = None
  /\ isGenerating = FALSE /\ isRunning = FALSE /\ isApplyingFix = FALSE
  /\ activeStep = 0 /\ orders = 0

Order == orders < MaxOrders /\ orders' = orders + 1

-----------------------------------------------------------------------------
HandleBenchmarkSelect(b) ==
  /\ selectedBenchmark' = b
  /\ UNCHANGED <<suite, selectedTypes, generating, fixing, isGenerating, isRunning, isApplyingFix, activeStep, orders>>

\* The last type stays selected.
ToggleTestType(type) ==
  /\ selectedTypes' = IF type \notin selectedTypes THEN selectedTypes \cup {type}
                      ELSE IF Cardinality(selectedTypes) > 1 THEN selectedTypes \ {type} ELSE selectedTypes
  /\ UNCHANGED <<suite, selectedBenchmark, generating, fixing, isGenerating, isRunning, isApplyingFix, activeStep, orders>>

HandleGenerateTests ==
  /\ ~isGenerating /\ ~isRunning /\ Order
  /\ generating' = [step |-> 1, benchmark |-> selectedBenchmark, types |-> selectedTypes]
  /\ isGenerating' = TRUE /\ activeStep' = 1
  /\ UNCHANGED <<suite, selectedBenchmark, selectedTypes, fixing, isRunning, isApplyingFix>>

PipelineTimer ==
  /\ generating # None /\ generating.step < PipelineSteps
  /\ generating' = [generating EXCEPT !.step = @ + 1]
  /\ activeStep' = generating.step + 1
  /\ UNCHANGED <<suite, selectedBenchmark, selectedTypes, fixing, isGenerating, isRunning, isApplyingFix, orders>>

\* simulateLocalGeneration: the bug each benchmark is known for.
Simulated(g) ==
  SuiteOf([t \in g.types |-> IF \/ g.benchmark = "checkout-service" /\ t = "unit"
                                \/ g.benchmark = "rate-limiter" /\ t = "edge_case"
                             THEN "FAIL" ELSE "PASS"])

\* The server's answer, which may find any of the cases failing, or none
\* from it; the finally block.
GenerationAnswered ==
  /\ generating # None /\ generating.step = PipelineSteps
  /\ \/ suite' = Simulated(generating)
     \/ \E status \in [generating.types -> {"PASS", "FAIL"}] : suite' = SuiteOf(status)
  /\ generating' = None /\ isGenerating' = FALSE /\ activeStep' = 0
  /\ UNCHANGED <<selectedBenchmark, selectedTypes, fixing, isRunning, isApplyingFix, orders>>

HandleRunInSandbox ==
  /\ ~isGenerating /\ ~isRunning /\ Order
  /\ isRunning' = TRUE
  /\ UNCHANGED <<suite, selectedBenchmark, selectedTypes, generating, fixing, isGenerating, isApplyingFix, activeStep>>

\* It only waits: nothing of the suite changes.
SandboxTimer ==
  /\ isRunning
  /\ isRunning' = FALSE
  /\ UNCHANGED <<suite, selectedBenchmark, selectedTypes, generating, fixing, isGenerating, isApplyingFix, activeStep, orders>>

HandleApplyFix(type) ==
  /\ ~isApplyingFix /\ type \in suite.fixes /\ Order
  /\ fixing' = [type |-> type, suite |-> suite]
  /\ isApplyingFix' = TRUE
  /\ UNCHANGED <<suite, selectedBenchmark, selectedTypes, generating, isGenerating, isRunning, activeStep>>

\* Fault variant of Fixed: the counts are those of before the fix.
FixedUncounted(f) == [f.suite EXCEPT !.status[f.type] = "PASS", !.fixes = @ \ {f.type}]

\* simulateLocalFix: of the suite as it was when the button was pressed.
\* The server makes the same of the suite it has.
Fixed(f) == SuiteOf([f.suite.status EXCEPT ![f.type] = "PASS"])

FixAnswered ==
  /\ fixing # None
  /\ suite' = Fixed(fixing)
  /\ fixing' = None /\ isApplyingFix' = FALSE
  /\ UNCHANGED <<selectedBenchmark, selectedTypes, generating, isGenerating, isRunning, activeStep, orders>>

Next ==
  \/ \E b \in Benchmarks : HandleBenchmarkSelect(b)
  \/ \E type \in TestType : ToggleTestType(type) \/ HandleApplyFix(type)
  \/ HandleGenerateTests \/ PipelineTimer \/ GenerationAnswered
  \/ HandleRunInSandbox \/ SandboxTimer \/ FixAnswered

Spec == Init /\ [][Next]_vars

-----------------------------------------------------------------------------
(***************************************************************************)
(* Properties                                                              *)
(***************************************************************************)
Suites == {SuiteOf(status) : status \in UNION {[types -> {"PASS", "FAIL"}] : types \in SUBSET TestType}}

Generation == [step : 1 .. PipelineSteps, benchmark : Benchmarks, types : SUBSET TestType]

\* Types; at least one type of test is selected.
TypeOK ==
  /\ DOMAIN suite.status \subseteq TestType /\ selectedBenchmark \in Benchmarks
  /\ selectedTypes \subseteq TestType /\ selectedTypes # {}
  /\ generating \in Generation \cup {None}
  /\ fixing = None \/ fixing.type \in TestType
  /\ {isGenerating, isRunning, isApplyingFix} \subseteq BOOLEAN
  /\ activeStep \in 0 .. PipelineSteps /\ orders \in 0 .. MaxOrders

\* The page is busy exactly while something under way will free it, and the
\* stepper shows the step of the generation under way.
NothingHangs ==
  /\ isGenerating <=> generating # None
  /\ isApplyingFix <=> fixing # None
  /\ activeStep = IF generating = None THEN 0 ELSE generating.step

\* Whatever a generation and a fix overwrite, counts, verdict and suggested
\* fixes are those of the cases shown; the sandbox and a generation never
\* run at once.
SuiteAddsUp ==
  /\ suite \in Suites
  /\ fixing # None => fixing.suite \in Suites
  /\ ~(isRunning /\ isGenerating)
=============================================================================
