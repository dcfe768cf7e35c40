----------------------------- MODULE MCPlatform -----------------------------
(***************************************************************************)
(* The components of the API that share no state with any other, in one    *)
(* run: focus says which of them this behaviour is about, and only that    *)
(* one moves.  Nothing is lost by it, for no action of one reads or        *)
(* changes what another one has, and it keeps the states a sum rather than *)
(* a product.                                                              *)
(***************************************************************************)
EXTENDS Integers, Sequences, FiniteSets, TLC

CONSTANTS None,
          UserId, Email, Password, Token, Caller, MaxRequests, Seeds,
          Run, Role, Requested, MaxOrders,
          Conv, Welcome, Words, MaxMessages,
          Review, Seeded, Diffs, Publisher, MaxPosts,
          Suite, Case, Runner,
          File, Module,
          TopK, MinScore, MaxScore, MaxChunks, MaxContextTokens, Sizes,
          MaxLines, Starts, MaxChunkLines, WindowSize, Overlap, BlockSize,
          ParsedLength, GenericLength, BlockLines, StatementLines,
          Duration, HttpCap, AiCap, AuditCap, FeedCap, Actor, Workspace, Primary, MaxRecords,
          BatchSize, TotalChunks, MaxRounds,
          Repository, Core, Default, Page, Limit,
          AnalysedLength, HandlerLines, ClassLines, MaxPath

VARIABLES
  focus,
  users, byEmail, active, revoked, call, children, ended, raced, requests,
  run, loop, created, branches, orders,
  conv, msg, controllers, aborted, stopped,
  report, publishing, posts,
  suites, sources, running,
  input, nodes, edges, stack, visited, recStack, hasCycles,
  chunks, candidates, scored, selected, blocks,
  task, at, pieces,
  parsedFile, status, symbols, parsedChunks,
  totalRequests, errorRequests, httpLatencies, totalTokensConsumed, aiLatencies, cacheHits, cacheMisses,
  traces, logs, feeds, recorded,
  payload, phase, round, embeddedCount, cached, stored, jobAborted,
  toSeed, indexedChunks, index, graphs, answer,
  analysedFile, found

\* One account is seeded.  Three files.
MCSeeds == (CHOOSE i \in UserId : TRUE) :> (CHOOSE e \in Email : TRUE)
MCFile == <<"a", "b", "c">>

\* The lines of a parsed file and of an analysed one; the batches of an
\* embedding job: none given, some that do not divide the chunks, one too
\* many, and one below zero.
MCParsedLength == [TypeScript |-> 4, Java |-> 4, Python |-> 4, SQL |-> 3]
MCAnalysedLength ==
  ("TypeScript APIs" :> 5) @@ ("Python APIs" :> 4) @@ ("Java APIs" :> 4) @@ ("SQL" :> 4)
    @@ ("TypeScript models" :> 5) @@ ("Python models" :> 5) @@ ("auth" :> 3) @@ ("config" :> 4) @@ ("tests" :> 3)
MCBatchSize == {0, 3, 100, -7}
MCTotalChunks == {0, 10, -5}

Acc == INSTANCE Accounts
Agents == INSTANCE AgentRuns
Chat == INSTANCE Conversations
Rev == INSTANCE Reviews
Studio == INSTANCE TestStudio
Graph == INSTANCE CodeGraph
Rag == INSTANCE Retrieval
Chunker == INSTANCE Chunking
Parse == INSTANCE Parsers WITH file <- parsedFile, chunks <- parsedChunks, MaxLength <- ParsedLength
Tele == INSTANCE Telemetry
Exec == INSTANCE JobExecutors WITH aborted <- jobAborted
Code == INSTANCE CodeIndex WITH chunks <- indexedChunks
Facts == INSTANCE Extractors WITH file <- analysedFile, MaxLength <- AnalysedLength

\* Seeded accounts have an e-mail address each.
ASSUME AccountsAssumption ==
  /\ Password # {}
  /\ DOMAIN Seeds \subseteq UserId /\ \A i \in DOMAIN Seeds : Seeds[i] \in Email
  /\ \A i, j \in DOMAIN Seeds : Seeds[i] = Seeds[j] => i = j
  /\ None \notin UserId \cup Acc!Row \cup Acc!Request

\* A diff is what the rules find in it, and how often.
ASSUME ReviewsAssumption ==
  /\ Diffs \subseteq [Rev!Finding -> Nat]
  /\ None \notin {"APPROVE", "COMMENT"} \cup Rev!CodeReviewReport \cup Rev!Publication

ASSUME AgentsAssumption == Requested \subseteq Nat /\ None \notin Agents!AgentRun

\* A suite has test cases: for every function and kind of test one at least.
ASSUME StudioAssumption ==
  IsFiniteSet(Case) /\ Case # {} /\ None \notin Suite \cup Studio!TestSuite

ASSUME GraphAssumption ==
  /\ Len(File) \in Nat \ {0} /\ DOMAIN File = 1 .. Len(File)
  /\ None \notin BOOLEAN
  /\ None \notin [dependencies : SUBSET Graph!Importable, definitions : {{}, Graph!Found}, tests : {{}, Graph!Suites}]

\* A window goes on behind the lines that it shares with the one before.
ASSUME ChunkerAssumption ==
  /\ MaxLines \in Nat \ {0} /\ Starts \subseteq Nat
  /\ MaxChunkLines \in Nat /\ WindowSize \in Nat /\ Overlap \in Nat /\ BlockSize \in Nat
  /\ Overlap < WindowSize /\ 0 < BlockSize
  /\ None \notin Nat \cup [how : {"split", "blocks", "symbol"}, start : Nat, lines : Nat]

ASSUME ParsersAssumption ==
  /\ DOMAIN ParsedLength \subseteq {"TypeScript", "Java", "Python", "SQL"}
  /\ \A lang \in DOMAIN ParsedLength : ParsedLength[lang] \in Nat
  /\ GenericLength \subseteq Nat \ {0}
  /\ BlockLines \in Nat \ {0} /\ StatementLines \in Nat \ {0}

ASSUME ExecutorsAssumption == BatchSize \subseteq Int /\ TotalChunks \subseteq Int /\ MaxRounds \in Nat

\* The rules: nothing of MEDIUM or LOW severity is about security.  At most
\* one finding of each kind, or up to six MEDIUM or LOW ones: past both scores
\* at which the decision changes.
Findings == {"CRITICAL", "HIGH", "MEDIUM", "LOW"} \X {"Security", "Other"}
Kinds == {<<"CRITICAL", "Security">>, <<"HIGH", "Security">>, <<"HIGH", "Other">>,
          <<"MEDIUM", "Other">>, <<"LOW", "Other">>}
MCDiffs ==
  {[f \in Findings |-> IF f \in once THEN 1 ELSE 0] : once \in SUBSET Kinds}
    \cup {[f \in Findings |-> IF f = <<severity, "Other">> THEN n ELSE 0] :
             severity \in {"MEDIUM", "LOW"}, n \in 2 .. 6}

\* The seeded conversation has two messages.
ASSUME ChatAssumption ==
  /\ Welcome \in Conv /\ Words \in Nat /\ MaxMessages \in Nat \ {0, 1}
  /\ None \notin (0 .. Words) \cup Chat!AiChatConversation

accountsVars == <<users, byEmail, active, revoked, call, children, ended, raced, requests>>
agentsVars == <<run, loop, created, branches, orders>>
chatVars == <<conv, msg, controllers, aborted, stopped>>
reviewsVars == <<report, publishing, posts>>
studioVars == <<suites, sources, running>>
graphVars == <<input, nodes, edges, stack, visited, recStack, hasCycles>>
ragVars == <<chunks, candidates, scored, selected, blocks>>
chunkerVars == <<task, at, pieces>>
parsersVars == <<parsedFile, status, symbols, parsedChunks>>
telemetryVars == <<totalRequests, errorRequests, httpLatencies, totalTokensConsumed, aiLatencies, cacheHits,
                   cacheMisses, traces, logs, feeds, recorded>>
executorsVars == <<payload, phase, round, embeddedCount, cached, stored, jobAborted>>
codeVars == <<toSeed, indexedChunks, index, graphs, answer>>
factsVars == <<analysedFile, found>>
vars == <<focus, accountsVars, agentsVars, chatVars, reviewsVars, studioVars, graphVars, ragVars, chunkerVars,
          parsersVars, telemetryVars, executorsVars, codeVars, factsVars>>

Init ==
  /\ focus \in {"accounts", "agents", "chat", "reviews", "studio", "graph", "rag", "chunker", "parsers",
                "telemetry", "executors", "code", "facts"}
  /\ Acc!Init /\ Agents!Init /\ Chat!Init /\ Rev!Init /\ Studio!Init
  /\ Graph!Init /\ Rag!Init /\ Chunker!Init
  /\ Parse!Init /\ Tele!Init /\ Exec!Init /\ Code!Init /\ Facts!Init

Next ==
  /\ \/ focus = "accounts" /\ Acc!Next
     \/ focus = "agents" /\ Agents!Next
     \/ focus = "chat" /\ Chat!Next
     \/ focus = "reviews" /\ Rev!Next
     \/ focus = "studio" /\ Studio!Next
     \/ focus = "graph" /\ Graph!Next
     \/ focus = "rag" /\ Rag!Next
     \/ focus = "chunker" /\ Chunker!Next
     \/ focus = "parsers" /\ Parse!Next
     \/ focus = "telemetry" /\ Tele!Next
     \/ focus = "executors" /\ Exec!Next
     \/ focus = "code" /\ Code!Next
     \/ focus = "facts" /\ Facts!Next
  /\ focus # "accounts" => UNCHANGED accountsVars
  /\ focus # "agents" => UNCHANGED agentsVars
  /\ focus # "chat" => UNCHANGED chatVars
  /\ focus # "reviews" => UNCHANGED reviewsVars
  /\ focus # "studio" => UNCHANGED studioVars
  /\ focus # "graph" => UNCHANGED graphVars
  /\ focus # "rag" => UNCHANGED ragVars
  /\ focus # "chunker" => UNCHANGED chunkerVars
  /\ focus # "parsers" => UNCHANGED parsersVars
  /\ focus # "telemetry" => UNCHANGED telemetryVars
  /\ focus # "executors" => UNCHANGED executorsVars
  /\ focus # "code" => UNCHANGED codeVars
  /\ focus # "facts" => UNCHANGED factsVars
  /\ UNCHANGED focus

AgentStep(r) == focus = "agents" /\ Agents!LoopStep(r)
WorkerStep == focus = "executors" /\ Exec!Step
TimeoutFires == focus = "executors" /\ Exec!Abort

\* A tool that was called answers, awaits resume and timers fire.
Spec == /\ Init /\ [][Next]_vars
        /\ \A r \in Run : WF_agentsVars(AgentStep(r))
        /\ WF_executorsVars(WorkerStep) /\ WF_executorsVars(TimeoutFires)

-----------------------------------------------------------------------------
(***************************************************************************)
(* The properties of the components; each is stated and explained in the   *)
(* component's module.                                                     *)
(***************************************************************************)
\* The type invariants of all thirteen.
TypesOK == /\ Acc!TypeOK /\ Agents!TypeOK /\ Chat!TypeOK /\ Rev!TypeOK /\ Studio!TypeOK
           /\ Graph!TypeOK /\ Rag!TypeOK /\ Chunker!TypeOK
           /\ Parse!TypeOK /\ Tele!TypeOK /\ Exec!TypeOK /\ Code!TypeOK /\ Facts!TypeOK

\* usersByEmail and the accounts agree.
EmailsIndexed == Acc!EmailsIndexed

\* A refresh token is rotated at most once, and never after its logout.
TokenUsedOnce == Acc!TokenUsedOnce

\* A COMPLETED agent run did all it had planned and carries the results.
CompletedRunIsWhole == Agents!CompletedRunIsWhole

\* Every dispatch of an agent answers, and every execution of a job ends.
WorkEnds == Agents!DispatchAnswers /\ Exec!ExecutionEnds

\* A stopped answer gets no more words and is never marked completed.
StopIsHonoured == Chat!StopIsHonoured

\* A conversation is charged once for every answer, for what it delivered.
ChargedForWhatWasDelivered == Chat!ChargedForWhatWasDelivered

\* No review is approved, or sent to GitHub as approved, without cause.
ApprovalEarned == Rev!ApprovalEarned

\* Counts, verdict and suggestions of a test suite are those of its cases.
CountsMatchCases == Studio!CountsMatchCases

\* What is said of the code is so: circular imports are reported if and only
\* if there are some, guarded endpoints are not reported open, models do not
\* run into each other, keys and tests are listed and paths joined.
CodeFactsHold ==
  /\ Graph!CycleVerdict
  /\ Facts!GuardedIsNotReportedOpen /\ Facts!ModelsApart /\ Facts!KeysAndTestsListed /\ Facts!PathsJoin

\* Retrieval selects the best chunks and fills the context in order; the pages
\* of a search show every match once, best first, and the tools of the agents
\* can read what it found.
BestAreSelected ==
  /\ Rag!BestAreSelected
  /\ Code!PagesShowAllOnce /\ Code!FoundCanBeRead /\ Code!ReadsAreTrue /\ Code!CallsArePermitted

\* Chunking loses no line and repeats none beyond the overlap, and what the
\* parsers extract lies in the file, blocks in blocks and methods in classes.
ChunksCoverTheFile ==
  /\ Chunker!EveryLineOnce
  /\ Parse!ArtefactsInFile /\ Parse!BlocksNest /\ Parse!MethodsInClass

\* Metrics, logs and feeds keep the latest and their reports add up; the
\* progress of a job is that of its work.
ReportsAreTrue == Tele!LatestKept /\ Tele!ReportsAddUp /\ Exec!ProgressIsTrue
=============================================================================
