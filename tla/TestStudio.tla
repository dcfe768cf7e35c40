----------------------------- MODULE TestStudio -----------------------------
(***************************************************************************)
(* TestGenerationService with the sandboxed runner and the self-healing    *)
(* service: a suite of generated test cases, its runs (the sandbox takes   *)
(* 100 ms, and several runs and fixes of one suite may overlap) and the    *)
(* fixes applied to it.  Whether a case fails depends on what it is (the   *)
(* known bug of the file under test), never on the code that was patched.  *)
(***************************************************************************)
EXTENDS FiniteSets, Naturals

CONSTANTS Suite, Case, \* suites, and the test cases of one
          Runner,      \* runs that may be under way at once
          None

VARIABLES suites,  \* suites[s]: GeneratedTestSuiteResult, None
          sources, \* suiteSourceCodes: the suites with a source
          running  \* running[r]: the suite a run executes, None

vars == <<suites, sources, running>>

Init ==
  /\ suites = [s \in Suite |-> None]
  /\ sources = {}
  /\ running = [r \in Runner |-> None]

With(status, x) == {c \in Case : status[c] = x}
Overall(status) == IF With(status, "FAIL") # {} THEN "FAIL" ELSE "PASS"

\* runInSandbox: what it reports of the cases, the failing ones with a fix.
SandboxResult(suite) ==
  LET status == [c \in Case |-> IF c \in suite.buggy THEN "FAIL" ELSE "PASS"]
  IN [suite EXCEPT !.status = status, !.overall = Overall(status),
                   !.passed = Cardinality(With(status, "PASS")),
                   !.failed = Cardinality(With(status, "FAIL")),
                   !.suggested = With(status, "FAIL")]

\* generateTestSuite: the cases that the known bug of its file fails.
Generated(buggy, safe) ==
  [buggy |-> buggy, safe |-> safe, status |-> [c \in Case |-> "UNTESTED"], overall |-> "UNTESTED",
   passed |-> 0, failed |-> 0, suggested |-> {}, patched |-> {}]

-----------------------------------------------------------------------------
\* A source that validateSafety refuses, when the suite was to be run at
\* once, is kept without a suite.
GenerateTests(s, buggy, safe, autoRun) ==
  /\ suites[s] = None /\ s \notin sources
  /\ sources' = sources \cup {s}
  /\ suites' = [suites EXCEPT ![s] = IF ~autoRun THEN Generated(buggy, safe)
                                     ELSE IF safe THEN SandboxResult(Generated(buggy, safe)) ELSE None]
  /\ UNCHANGED running

\* runGeneratedTests up to the wait of the sandbox.
RunGeneratedTests(r, s) ==
  /\ running[r] = None /\ suites[s] # None /\ suites[s].safe
  /\ running' = [running EXCEPT ![r] = s]
  /\ UNCHANGED <<suites, sources>>

\* Its end overwrites the cases, those that were fixed meanwhile as well.
StoreRunResult(r) ==
  /\ running[r] # None
  /\ suites' = [suites EXCEPT ![running[r]] = SandboxResult(@)]
  /\ running' = [running EXCEPT ![r] = None]
  /\ UNCHANGED sources

\* Fault variant of Fixed: the counts are moved by one instead of being counted again.
FixedCountsByOne(suite, case, target) ==
  LET status == [suite.status EXCEPT ![case] = "PASS"]
  IN [suite EXCEPT !.status = status, !.overall = Overall(status),
                   !.passed = @ + 1, !.failed = IF @ > 0 THEN @ - 1 ELSE 0,
                   !.suggested = @ \ {case}, !.patched = @ \cup {target}]

\* The suite after a fix of one case: counted again, but nothing is run
\* again, and cases that were never run do not count against PASS.
Fixed(suite, case, target) ==
  LET status == [suite.status EXCEPT ![case] = "PASS"]
  IN [suite EXCEPT !.status = status, !.overall = Overall(status),
                   !.passed = Cardinality(With(status, "PASS")),
                   !.failed = Cardinality(With(status, "FAIL")),
                   !.suggested = @ \ {case}, !.patched = @ \cup {target}]

\* Any case can be "fixed", and the source or the test code patched.
ApplyTestFix(s, case, target) ==
  /\ suites[s] # None
  /\ suites' = [suites EXCEPT ![s] = Fixed(@, case, target)]
  /\ UNCHANGED <<sources, running>>

Next ==
  \/ \E s \in Suite, buggy \in SUBSET Case, safe, autoRun \in BOOLEAN : GenerateTests(s, buggy, safe, autoRun)
  \/ \E r \in Runner, s \in Suite : RunGeneratedTests(r, s)
  \/ \E r \in Runner : StoreRunResult(r)
  \/ \E s \in Suite, case \in Case, target \in {"code", "test"} : ApplyTestFix(s, case, target)

Spec == Init /\ [][Next]_vars

-----------------------------------------------------------------------------
(***************************************************************************)
(* Properties                                                              *)
(***************************************************************************)
Status == {"UNTESTED", "PASS", "FAIL"}

TestSuite == [buggy : SUBSET Case, safe : BOOLEAN, status : [Case -> Status], overall : Status,
              passed : Nat, failed : Nat, suggested : SUBSET Case, patched : SUBSET {"code", "test"}]

\* Types; only a suite with a source is stored, and only such a one run.
TypeOK ==
  /\ suites \in [Suite -> TestSuite \cup {None}]
  /\ running \in [Runner -> Suite \cup {None}]
  /\ {s \in Suite : suites[s] # None} \subseteq sources
  /\ \A r \in Runner : running[r] # None => suites[running[r]] # None

\* However runs and fixes of a suite overlap, its counts and its verdict are
\* those of its cases: FAIL as long as a case fails, UNTESTED only before the
\* first run or fix; and a fix is suggested for exactly the cases that fail,
\* each of which the known bug explains.
CountsMatchCases == \A s \in Suite : suites[s] # None =>
  LET suite == suites[s] IN
  /\ suite.passed = Cardinality(With(suite.status, "PASS"))
  /\ suite.failed = Cardinality(With(suite.status, "FAIL"))
  /\ suite.suggested = With(suite.status, "FAIL") /\ suite.suggested \subseteq suite.buggy
  /\ suite.overall = IF suite.failed > 0 THEN "FAIL" ELSE IF suite.passed > 0 THEN "PASS" ELSE "UNTESTED"
=============================================================================
