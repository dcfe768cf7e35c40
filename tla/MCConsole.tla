------------------------------ MODULE MCConsole ------------------------------
(***************************************************************************)
(* The collaboration gateway and the pages of the web console, in one run: *)
(* focus says which of them a behaviour is about, and only that one moves. *)
(* Each page has the answers of the server it calls among its own actions, *)
(* so that none reads or changes what another one has.                     *)
(***************************************************************************)
EXTENDS Collaboration, Filters, TLC

CONSTANTS u1, u2, a, b, d1,
          Tab, Account, Default, SignedInDemo,
          Chat, FirstChat, Ask, Topics, Words,
          NewJob, EnqueuedType, MaxClicks,
          NewRun, Seed,
          Benchmarks, TestType, PipelineSteps, MaxOrders,
          PrNumber, Diff, ReviewIds, MaxComments,
          Workspace, PageKind, MaxActs,
          Member, Me, Role, Email, Repo, ReposDemo, MaxCalls,
          MaxLoads, MaxJobs,
          NewId, Text, Name, MaxSteps

VARIABLES
  focus,
  tab, storage, signIn, signUp, leaving, mixed,
  conversations, thread, spent, activeConvId, isStreaming, currentStage, controller, ask,
  jobs, workers, starting, finishing, redoing, reaping, selectedJob, clicks,
  runs, listed, selectedRunId, isExecuting, planning, executing,
  suite, selectedBenchmark, selectedTypes, generating, fixing, isGenerating, isRunning, isApplyingFix,
  activeStep, orders,
  reviews, form, isModalOpen, triggering,
  report, appliedFindingIds, isRunningSandbox, sandboxLogs, isPublishingGitHub, githubPublished,
  humanComments,
  server, workspaces, activeWorkspace, isLoading, calls, page, pageLoading, loads, typed, acts, raced,
  roleOf, invitedTo, members, invitations, teamLoading, isInviting, teamCalls, teamSent, teamDemo,
  teamOverlapped,
  connectedTo, open, shown, reposLoading, busyId, syncingId, syncing, reposCalls, reposSent, reposDemo,
  reposOverlapped,
  job, indexed, repository, symbols, latestJob, repoLoading, isIngesting, repoLoads, started, ingestion,
  troubled,
  docs, activeDoc, docContent, draft, comments, notices, activityFeed, activeTab, selectedSnapshot,
  typingUser, steps, edits

\* In a behaviour clients mostly edit, mostly comment or mostly come and go.
Edit(id, user, type, pos, text) ==
  [id |-> id, user |-> user, type |-> type, pos |-> pos, text |-> text, length |-> 0, clock |-> NoClock]

MCOperation == {Edit(1, u1, "insert", 1, <<a, b>>), Edit(2, u2, "delete", 1, <<>>),
                Edit(3, u2, "replace", 0, <<b>>)}
MCSeedDocs == {d1}
MCQuotas == {[edits |-> 4, posts |-> 0, moves |-> 0], [edits |-> 2, posts |-> 0, moves |-> 1],
             [edits |-> 0, posts |-> 0, moves |-> 4], [edits |-> 1, posts |-> 2, moves |-> 0]}

SeedList == <<"w1", "w2">>
TeamDemo == "me" :> "ADMIN" @@ "x" :> "VIEWER"
RepositoryLoads == 4

Session == INSTANCE WebSession WITH Demo <- SignedInDemo
ChatPg == INSTANCE ChatPage
JobsPg == INSTANCE JobsPage
AgentsPg == INSTANCE AgentsPage
TestsPg == INSTANCE TestsPage
Cockpit == INSTANCE ReviewCockpit
Report == INSTANCE ReviewReport
Workspaces == INSTANCE WorkspaceContext
Team == INSTANCE TeamPage WITH Demo <- TeamDemo, isLoading <- teamLoading, calls <- teamCalls,
    sent <- teamSent, demo <- teamDemo, overlapped <- teamOverlapped
Repos == INSTANCE RepositoryPages WITH Demo <- ReposDemo, isLoading <- reposLoading,
    calls <- reposCalls, sent <- reposSent, demo <- reposDemo, overlapped <- reposOverlapped
RepoPg == INSTANCE RepositoryPage WITH MaxLoads <- RepositoryLoads, isLoading <- repoLoading, loads <- repoLoads
Editor == INSTANCE CollaborationPage WITH documents <- docs, notifications <- notices

-----------------------------------------------------------------------------
(***************************************************************************)
(* What the constants of the pages are: None is nothing else, what a page  *)
(* begins with is among its values, and bounds are numbers.                *)
(***************************************************************************)
ASSUME SessionAssumption ==
  /\ Default \in Account /\ SignedInDemo \subseteq Account
  /\ None \notin Account
  /\ None \notin [user : Account \cup {None}, tokens : Account \cup {None}, isLoading : BOOLEAN]

ASSUME ChatAssumption ==
  /\ FirstChat \in Chat /\ Topics \subseteq DOMAIN ChatPg!Evidence /\ Words \in Nat
  /\ "seed" \notin Ask /\ None \notin Ask \cup ChatPg!Question \cup Range(ChatPg!Stages)

ASSUME JobsAssumption ==
  EnqueuedType \subseteq JobsPg!JobType /\ MaxClicks \in Nat /\ None \notin JobsPg!Row \cup JobsPg!Drawer

ASSUME AgentsAssumption == Seed \notin NewRun /\ None \notin AgentsPg!AgentRun

ASSUME TestsAssumption ==
  /\ "checkout-service" \in Benchmarks /\ TestType # {} /\ IsFiniteSet(TestType)
  /\ PipelineSteps \in Nat \ {0} /\ MaxOrders \in Nat
  /\ None \notin TestsPg!Generation /\ None \notin [type : TestType, suite : TestsPg!Suites]

ASSUME ReviewsAssumption ==
  /\ PrNumber \subseteq Nat /\ {"empty", "sql", "loop"} \subseteq Diff
  /\ None \notin Cockpit!Form /\ MaxComments \in Nat \ {0, 1}

ASSUME ContextAssumption ==
  /\ IsFiniteSet(Workspace) /\ Range(SeedList) \subseteq Workspace
  /\ MaxLoads \in Nat /\ MaxActs \in Nat
  /\ None \notin Workspace \cup Workspaces!Call \cup Workspaces!Page \cup Workspaces!Run

ASSUME TeamAssumption ==
  Me \in Member /\ "ADMIN" \in Role /\ None \notin Role /\ TeamDemo \in [Member -> Role \cup {None}]

ASSUME RepositoriesAssumption ==
  ReposDemo \subseteq Repo /\ None \notin Repo /\ MaxCalls \in Nat \ {0} /\ MaxJobs \in Nat

ASSUME EditorAssumption == MaxSteps \in Nat /\ {"priya", "rahul"} \subseteq Name

sessionVars == <<tab, storage, signIn, signUp, leaving, mixed>>
chatVars == <<conversations, thread, spent, activeConvId, isStreaming, currentStage, controller, ask>>
jobsVars == <<jobs, workers, starting, finishing, redoing, reaping, selectedJob, clicks>>
agentsVars == <<runs, listed, selectedRunId, isExecuting, planning, executing>>
testsVars == <<suite, selectedBenchmark, selectedTypes, generating, fixing, isGenerating, isRunning,
    isApplyingFix, activeStep, orders>>
cockpitVars == <<reviews, form, isModalOpen, triggering>>
reportVars == <<report, appliedFindingIds, isRunningSandbox, sandboxLogs, isPublishingGitHub,
    githubPublished, humanComments>>
workspacesVars == <<server, workspaces, activeWorkspace, isLoading, calls, page, pageLoading, loads,
    typed, acts, raced>>
teamVars == <<roleOf, invitedTo, members, invitations, teamLoading, isInviting, teamCalls, teamSent,
    teamDemo, teamOverlapped>>
repositoriesVars == <<connectedTo, open, shown, reposLoading, busyId, syncingId, syncing, reposCalls,
    reposSent, reposDemo, reposOverlapped>>
repositoryVars == <<job, indexed, repository, symbols, latestJob, repoLoading, isIngesting, repoLoads,
    started, ingestion, troubled>>
editorVars == <<docs, activeDoc, docContent, draft, comments, notices, activityFeed, activeTab,
    selectedSnapshot, typingUser, steps, edits>>
consoleVars == <<focus, vars, sessionVars, chatVars, jobsVars, agentsVars, testsVars, cockpitVars,
    reportVars, workspacesVars, teamVars, repositoriesVars, repositoryVars, editorVars>>

\* What those that do not move begin with makes no difference.
ConsoleInit ==
  /\ focus \in {"collab", "session", "chat", "jobs", "agents", "tests", "cockpit", "report",
                "workspaces", "team", "repositories", "repository", "editor"}
  /\ Init /\ Session!Init /\ ChatPg!Init /\ JobsPg!Init /\ AgentsPg!Init
  /\ TestsPg!Init /\ Cockpit!Init /\ Report!Init /\ Workspaces!Init /\ Team!Init
  /\ Repos!Init /\ RepoPg!Init /\ Editor!Init
  /\ focus # "collab" => quota.edits = 4
  /\ focus # "workspaces" => server = {}
  /\ focus # "team" => roleOf["x"] = None
  /\ focus # "repositories" => connectedTo = {} /\ open = "github"
  /\ focus # "report" => report = Report!Report142

ConsoleNext ==
  /\ \/ focus = "collab" /\ Next
     \/ focus = "session" /\ Session!Next
     \/ focus = "chat" /\ ChatPg!Next
     \/ focus = "jobs" /\ JobsPg!Next
     \/ focus = "agents" /\ AgentsPg!Next
     \/ focus = "tests" /\ TestsPg!Next
     \/ focus = "cockpit" /\ Cockpit!Next
     \/ focus = "report" /\ Report!Next
     \/ focus = "workspaces" /\ Workspaces!Next
     \/ focus = "team" /\ Team!Next
     \/ focus = "repositories" /\ Repos!Next
     \/ focus = "repository" /\ RepoPg!Next
     \/ focus = "editor" /\ Editor!Next
  /\ focus # "collab" => UNCHANGED vars
  /\ focus # "session" => UNCHANGED sessionVars
  /\ focus # "chat" => UNCHANGED chatVars
  /\ focus # "jobs" => UNCHANGED jobsVars
  /\ focus # "agents" => UNCHANGED agentsVars
  /\ focus # "tests" => UNCHANGED testsVars
  /\ focus # "cockpit" => UNCHANGED cockpitVars
  /\ focus # "report" => UNCHANGED reportVars
  /\ focus # "workspaces" => UNCHANGED workspacesVars
  /\ focus # "team" => UNCHANGED teamVars
  /\ focus # "repositories" => UNCHANGED repositoriesVars
  /\ focus # "repository" => UNCHANGED repositoryVars
  /\ focus # "editor" => UNCHANGED editorVars
  /\ UNCHANGED focus

\* While it is connected a client keeps sending heartbeats.
HeartbeatOf(s) ==
  focus = "collab" /\ s \in connected /\ sessions[s] # None /\ HandleHeartbeat(sessions[s].user)

ConsoleSpec == ConsoleInit /\ [][ConsoleNext]_consoleVars /\ \A s \in Socket : WF_vars(HeartbeatOf(s))

-----------------------------------------------------------------------------
(***************************************************************************)
(* The properties of the gateway are those of Collaboration; those of the  *)
(* pages are stated and explained in their modules.                        *)
(***************************************************************************)
\* The type invariants of the gateway and of all pages, each where it moves.
TypesOK ==
  /\ focus = "collab" => TypeOK
  /\ focus = "session" => Session!TypeOK
  /\ focus = "chat" => ChatPg!TypeOK
  /\ focus = "jobs" => JobsPg!TypeOK
  /\ focus = "agents" => AgentsPg!TypeOK
  /\ focus = "tests" => TestsPg!TypeOK
  /\ focus = "cockpit" => Cockpit!TypeOK
  /\ focus = "report" => Report!TypeOK
  /\ focus = "workspaces" => Workspaces!TypeOK
  /\ focus = "team" => Team!TypeOK
  /\ focus = "repositories" => Repos!TypeOK
  /\ focus = "repository" => RepoPg!TypeOK
  /\ focus = "editor" => Editor!TypeOK

\* No page waits for what is not under way: no spinner, stage, stepper or
\* disabled button is left behind by a stop, a cancellation, a failure or an
\* answer that comes late.
NothingHangs == /\ ChatPg!NothingHangs /\ JobsPg!NothingHangs /\ AgentsPg!NothingHangs /\ TestsPg!NothingHangs
                /\ Workspaces!NothingHangs /\ Team!NothingHangs /\ Repos!NothingHangs /\ RepoPg!NothingHangs

\* What a page keeps adds up: the user and the tokens of a session, answers
\* and their sources, the steps of a run, the cases of a suite, the reviews
\* and the verdict of one, a document and what was edited and said of it.
PagesAddUp == /\ Session!SessionIsWhole /\ ChatPg!AnswersAreGrounded /\ AgentsPg!RunsAddUp
              /\ TestsPg!SuiteAddsUp /\ Cockpit!ReviewsKept
              /\ Report!VerdictIsOfOpenFindings /\ Editor!EditsAndMentionsKept

\* A page at rest shows what the server has: the workspaces, the team, the
\* repositories and the index of one.
PagesShowTheServer == /\ Workspaces!ActiveIsListed /\ Team!PageShowsTheTeam
                      /\ Repos!PageShowsTheServer /\ RepoPg!PageShowsTheIndex
=============================================================================
