------------------------------ MODULE CodeIndex -----------------------------
(***************************************************************************)
(* What the API knows of the code of a repository: the chunks, the search  *)
(* index and the symbols of the two sample repositories it analyses when   *)
(* it starts, the search over them, and the tools through which an agent   *)
(* searches and reads them.  Terms are what is searched for; a file knows  *)
(* the lines in which it has a term, and whether its path has it.          *)
(***************************************************************************)
EXTENDS Naturals, SequencesExt, FiniteSetsExt

CONSTANTS Repository, Core, Default, \* repo-core-001 and repo-default are seeded
          Page, Limit,               \* what a search asks for, 0 for nothing
          None

VARIABLES toSeed,  \* repositories onModuleInit has yet to analyse
          chunks,  \* chunks[r], None when r was never analysed
          index,   \* the search index
          graphs,  \* the symbols of the code graph
          answer   \* of the one request of a behaviour

vars == <<toSeed, chunks, index, graphs, answer>>

Term == {"checkout", "AuthService", "order", "controller", "ApiEndpointSummary"}
Symbol(name, start, end) == [name |-> name, start |-> start, end |-> end]
SampleFile(name, dir, language, length, symbols, paths, lines) ==
  [name |-> name, dir |-> dir, language |-> language, length |-> length, symbols |-> symbols,
   inPath |-> paths, inLine |-> lines]

AuthControllerFile == SampleFile("auth.controller", "apps", "typescript", 25,
  <<Symbol("AuthController", 6, 26), Symbol("register", 9, 12), Symbol("login", 14, 17), Symbol("getProfile", 19, 23)>>,
  {"controller"},
  [t \in Term |-> CASE t = "AuthService" -> {2, 8, 12, 17, 23} [] t = "controller" -> {1, 6, 7} [] OTHER -> {}])

AuthServiceFile == SampleFile("auth.service", "apps", "typescript", 29,
  <<Symbol("AuthService", 5, 31), Symbol("validateUser", 8, 16), Symbol("generateTokens", 18, 23), Symbol("hashPassword", 25, 28)>>,
  {}, [t \in Term |-> IF t = "AuthService" THEN {6} ELSE {}])

JwtAuthGuardFile == SampleFile("jwt-auth.guard", "apps", "typescript", 13,
  <<Symbol("JwtAuthGuard", 3, 14), Symbol("canActivate", 4, 12)>>, {}, [t \in Term |-> {}])

CheckoutServiceFile == SampleFile("checkout.service", "apps", "typescript", 40,
  <<Symbol("CheckoutService", 4, 42), Symbol("processCheckout", 7, 30), Symbol("validateCart", 32, 35),
    Symbol("authorizePayment", 37, 39)>>,
  {"checkout"},
  [t \in Term |-> CASE t = "checkout" -> {5, 8} [] t = "order" -> {2, 6, 21, 22, 29} [] OTHER -> {}])

OrdersServiceFile == SampleFile("orders.service", "apps", "typescript", 35,
  <<Symbol("OrdersService", 3, 35), Symbol("createOrder", 6, 24), Symbol("reserveInventory", 26, 28),
    Symbol("handleOrderCreatedEvent", 30, 32)>>,
  {"order"}, [t \in Term |-> IF t = "order" THEN {4, 5, 7, 8, 10, 11, 22, 23, 25, 32, 33} ELSE {}])

ConfigurationFile == SampleFile("configuration", "apps", "typescript", 18,
  <<Symbol("configuration", 1, 18)>>, {}, [t \in Term |-> {}])

SchemaFile == SampleFile("schema", "infrastructure", "sql", 35,
  <<Symbol("users", 1, 10), Symbol("workspaces", 12, 18), Symbol("orders", 20, 27), Symbol("checkout_sessions", 29, 35)>>,
  {}, [t \in Term |-> CASE t = "checkout" -> {29} [] t = "order" -> {20} [] OTHER -> {}])

DataSourceFile == SampleFile("data-source", "infrastructure", "typescript", 18,
  <<Symbol("AppDataSource", 3, 19)>>, {}, [t \in Term |-> {}])

AppModuleFile == SampleFile("app.module", "apps", "typescript", 24,
  <<Symbol("AppModule", 11, 24)>>, {}, [t \in Term |-> {}])

SampleFiles == <<AuthControllerFile, AuthServiceFile, JwtAuthGuardFile, CheckoutServiceFile, OrdersServiceFile,
                 ConfigurationFile, SchemaFile, DataSourceFile, AppModuleFile>>

FileOf(name) == CHOOSE f \in ToSet(SampleFiles) : f.name = name

\* The symbols whose names have a term, in whatever case.
NamesWith(t) ==
  CASE t = "checkout" -> {"CheckoutService", "processCheckout", "checkout_sessions"}
    [] t = "AuthService" -> {"AuthService"}
    [] t = "order" -> {"OrdersService", "createOrder", "handleOrderCreatedEvent", "orders"}
    [] t = "controller" -> {"AuthController"}
    [] OTHER -> {}

Lower(m, n) == IF m < n THEN m ELSE n

\* A chunk for each symbol, within the file.
ChunkFile(f) ==
  [i \in DOMAIN f.symbols |->
     [file |-> f.name, symbol |-> f.symbols[i].name, start |-> f.symbols[i].start,
      end |-> Lower(f.symbols[i].end, f.length)]]

Init ==
  /\ toSeed = <<Core, Default>>
  /\ chunks = [r \in Repository |-> None] /\ graphs = [r \in Repository |-> None]
  /\ index = [r \in Repository |-> <<>>]
  /\ answer = None

\* indexChunks appends to what the index has; the maps are overwritten.
AnalyzeRepository(r, files) ==
  LET all == FlattenSeq([i \in DOMAIN files |-> ChunkFile(files[i])])
  IN /\ index' = [index EXCEPT ![r] = @ \o all]
     /\ chunks' = [chunks EXCEPT ![r] = all]
     /\ graphs' = [graphs EXCEPT ![r] = FlattenSeq([i \in DOMAIN files |->
          [k \in DOMAIN files[i].symbols |-> [file |-> files[i].name, symbol |-> files[i].symbols[k].name]]])]

SeedSampleIntelligenceData ==
  /\ toSeed # <<>>
  /\ AnalyzeRepository(Head(toSeed), SampleFiles)
  /\ toSeed' = Tail(toSeed)
  /\ UNCHANGED answer

\* getChunks and getGraph: one that was never analysed is answered with a sample.
OrSample(known, r) ==
  CASE known[r] # None -> known[r]
    [] known[r] = None /\ known[Core] # None -> known[Core]
    [] OTHER -> known[Default]

-----------------------------------------------------------------------------
(***************************************************************************)
(* CodeSearchService.search.  Scores are in tenths.                        *)
(***************************************************************************)
Mode == {"keyword", "symbol", "file", "semantic"}
Query(r, t, mode, language, dir, page, limit) ==
  [repository |-> r, term |-> t, mode |-> mode, language |-> language, dir |-> dir, page |-> page, limit |-> limit]

InPath(q, item) == q.term \in FileOf(item.file).inPath
InName(q, item) == item.symbol \in NamesWith(q.term)
InContent(q, item) ==
  q.mode \in {"keyword", "semantic"} /\ FileOf(item.file).inLine[q.term] \cap (item.start .. item.end) # {}

PassesFilters(q, item) ==
  /\ q.language \in {None, FileOf(item.file).language}
  /\ q.dir \in {None, FileOf(item.file).dir}

Score(q, item) ==
  IF ~PassesFilters(q, item) THEN 0
  ELSE (IF InPath(q, item) THEN 8 ELSE 0)
     + (IF ~InName(q, item) THEN 0 ELSE IF item.symbol = q.term THEN 15 ELSE 10)
     + (IF InContent(q, item) THEN 9 ELSE 0)

\* What matched last is what the match is called.
MatchType(q, item) ==
  CASE InContent(q, item) -> q.mode
    [] ~InContent(q, item) /\ InName(q, item) -> "symbol"
    [] OTHER -> "file"

\* A stable sort: of equal scores the order of the index.
ByScore(results) ==
  LET scores == SetToSortSeq({m.score : m \in ToSet(results)}, >)
  IN FlattenSeq([i \in DOMAIN scores |-> SelectSeq(results, LAMBDA m : m.score = scores[i])])

\* Without a term: the first twenty items, unfiltered.
Matched(q) ==
  LET items == index[q.repository]
      result(item, score, as) == [item |-> item, score |-> score, matchType |-> as]
      scored == [i \in DOMAIN items |-> result(items[i], Score(q, items[i]), MatchType(q, items[i]))]
  IN IF q.term = None
     THEN [i \in 1 .. Lower(20, Len(items)) |-> result(items[i], 10, q.mode)]
     ELSE ByScore(SelectSeq(scored, LAMBDA m : m.score > 0))

\* Fault variant of Paginated: pages counted from zero.
PaginatedFromZero(matched, page, limit) ==
  LET size == IF limit = 0 THEN 20 ELSE Lower(100, limit)
      first == (IF page = 0 THEN 1 ELSE page) * size
  IN SubSeq(matched, first + 1, Lower(first + size, Len(matched)))

Paginated(matched, page, limit) ==
  LET size == IF limit = 0 THEN 20 ELSE Lower(100, limit)
      first == ((IF page = 0 THEN 1 ELSE page) - 1) * size
  IN SubSeq(matched, first + 1, Lower(first + size, Len(matched)))

Search(q) ==
  LET matched == Matched(q)
  IN [total |-> Len(matched), results |-> Paginated(matched, q.page, q.limit)]

-----------------------------------------------------------------------------
(***************************************************************************)
(* ToolRegistryService: the tools that read.                               *)
(***************************************************************************)
ReadingTools == [t \in {"search_code", "read_file", "search_repository", "get_symbol", "get_git_history",
                        "get_pull_request"} |-> [isSandboxed |-> FALSE, permission |-> "REPO_READ"]]
SandboxedTools == [t \in {"run_tests", "run_linter"} |->
                     [isSandboxed |-> TRUE, permission |-> IF t = "run_tests" THEN "TEST_GENERATE" ELSE "REPO_READ"]]
WritingTools == [t \in {"create_patch", "create_branch", "create_pull_request"} |->
                   [isSandboxed |-> FALSE, permission |-> "REPO_WRITE"]]

\* What validateToolExecution asks of the role of a call; it has its own list.
Permitted(tool, permissions) ==
  /\ tool \in DOMAIN WritingTools => "REPO_WRITE" \in permissions
  /\ tool = "run_tests" => "TEST_GENERATE" \in permissions

RolePermissions ==
  [ADMIN |-> {"AGENT_DISPATCH", "REPO_READ", "REPO_WRITE", "TEST_GENERATE"},
   DEVELOPER |-> {"AGENT_DISPATCH", "REPO_READ", "REPO_WRITE", "TEST_GENERATE"},
   REVIEWER |-> {"REPO_READ"},
   VIEWER |-> {"REPO_READ"}]

\* The chunks of a file one after the other, with an empty line (0) between;
\* a line range is one of this text, whatever lines of the file it has.
TextOf(parts) ==
  LET lines(c) == [k \in 1 .. c.end - c.start + 1 |-> c.start + k - 1]
  IN FlattenSeq([i \in DOMAIN parts |-> IF i = 1 THEN lines(parts[i]) ELSE <<0>> \o lines(parts[i])])

ExecuteReadFile(r, name, startLine, endLine) ==
  LET text == TextOf(SelectSeq(OrSample(chunks, r), LAMBDA c : c.file = name))
      first == IF startLine = 0 THEN 1 ELSE startLine
      last == IF endLine = 0 THEN Len(text) ELSE Lower(endLine, Len(text))
  IN IF text = <<>> THEN [error |-> TRUE]
     ELSE [error |-> FALSE, totalLines |-> Len(text), startLine |-> first, endLine |-> last,
           content |-> SubSeq(text, first, last)]

ExecuteSearchCode(r, t, mode) == Search(Query(r, t, mode, None, None, 0, 10)).results

ExecuteSearchRepository(r, t) ==
  {c.file : c \in {d \in ToSet(OrSample(chunks, r)) : t \in FileOf(d.file).inPath}}

ExecuteGetSymbol(r, t) == SelectSeq(OrSample(graphs, r), LAMBDA n : n.symbol \in NamesWith(t))

\* The sandbox only pretends: the suite of checkout fails, the others pass.
RunSandboxedTests(target) ==
  LET outcome(passed, failed) == [passed |-> failed = 0, total |-> passed + failed,
                                  passedCount |-> passed, failedCount |-> failed]
  IN CASE target = "checkout" -> outcome(3, 2)
       [] target = "auth" -> outcome(6, 0)
       [] OTHER -> outcome(12, 0)

RunSandboxedLinter(name, fix) ==
  LET warnings == IF name = "checkout.service" THEN {18, 24} ELSE {}
  IN [passed |-> TRUE, warningCount |-> Cardinality(warnings),
      fixableCount |-> IF fix THEN Cardinality(warnings) ELSE 0]

-----------------------------------------------------------------------------
\* The calls the strategies plan, and the reads with bounds or without.
PlannedSearches == {<<"checkout", "symbol">>, <<"ApiEndpointSummary", "keyword">>, <<"AuthService", "keyword">>}
PlannedReads ==
  {<<"auth.controller", 1, 35>>, <<"checkout.service", 1, 45>>, <<"schema", 20, 40>>,
   <<"auth.controller", 0, 0>>, <<"schema", 0, 0>>, <<"auth.service", 0, 0>>}

Output(tool, r) ==
  CASE tool = "search_code" -> {ExecuteSearchCode(r, s[1], s[2]) : s \in PlannedSearches}
    [] tool = "read_file" -> {ExecuteReadFile(r, p[1], p[2], p[3]) @@ [file |-> p[1]] : p \in PlannedReads}
    [] tool = "search_repository" -> {ExecuteSearchRepository(r, "controller")}
    [] tool = "get_symbol" -> {ExecuteGetSymbol(r, "controller")}
    [] tool = "run_tests" -> {RunSandboxedTests(t) : t \in {"checkout", "all", "auth"}}
    [] tool = "run_linter" -> {RunSandboxedLinter("auth.service", FALSE)}
    [] OTHER -> {}

ExecuteTool(r, tool, role) ==
  /\ toSeed = <<>> /\ answer = None
  /\ "AGENT_DISPATCH" \in RolePermissions[role] /\ Permitted(tool, RolePermissions[role])
  /\ \E output \in Output(tool, r) :
       answer' = [kind |-> tool, repository |-> r, role |-> role, output |-> output]
  /\ UNCHANGED <<toSeed, chunks, index, graphs>>

SearchCode(q) ==
  /\ toSeed = <<>> /\ answer = None
  /\ answer' = [kind |-> "search", query |-> q, output |-> Search(q)]
  /\ UNCHANGED <<toSeed, chunks, index, graphs>>

Next ==
  \/ SeedSampleIntelligenceData
  \/ \E r \in Repository, t \in Term \cup {None}, mode \in Mode, language \in {None, "sql"},
        dir \in {None, "apps"}, page \in Page, limit \in Limit :
       SearchCode(Query(r, t, mode, language, dir, page, limit))
  \/ \E r \in Repository, tool \in DOMAIN ReadingTools \cup DOMAIN SandboxedTools, role \in DOMAIN RolePermissions :
       ExecuteTool(r, tool, role)

Spec == Init /\ [][Next]_vars

-----------------------------------------------------------------------------
(***************************************************************************)
(* Properties                                                              *)
(***************************************************************************)
\* The maps are of sequences; a repository is analysed or not in all of them.
TypeOK ==
  /\ toSeed \in {<<Core, Default>>, <<Default>>, <<>>}
  /\ \A r \in Repository :
       /\ chunks[r] = None <=> graphs[r] = None
       /\ IF chunks[r] = None THEN index[r] = <<>> ELSE index[r] = chunks[r]

\* The pages of a search, one after the other, show every item of the index
\* that has the term in its path, name or (where the mode looks) content and
\* passes the filters, none of them twice, and no item before a better one.
PagesShowAllOnce ==
  answer # None /\ answer.kind = "search" =>
    LET q == answer.query
        size == IF q.limit = 0 THEN 20 ELSE q.limit
        pages == [p \in 1 .. (answer.output.total + size - 1) \div size |->
                    Search([q EXCEPT !.page = p]).results]
        shown == FlattenSeq(pages)
        hit(item) == InPath(q, item) \/ InName(q, item) \/ InContent(q, item)
    IN /\ Len(shown) = answer.output.total
       /\ \A i, j \in DOMAIN shown : i < j => shown[i].item # shown[j].item /\ shown[i].score >= shown[j].score
       /\ q.term # None =>
            {shown[i].item : i \in DOMAIN shown} =
              {item \in ToSet(index[q.repository]) : PassesFilters(q, item) /\ hit(item)}

\* Whatever the search finds in a repository a tool can read there in full;
\* for a repository nobody analysed the search finds nothing.
FoundCanBeRead ==
  answer # None /\ answer.kind = "search" =>
    \A i \in DOMAIN answer.output.results :
      LET found == answer.output.results[i].item
          read == ExecuteReadFile(answer.query.repository, found.file, 0, 0)
      IN ~read.error /\ found.start .. found.end \subseteq ToSet(read.content)

\* A read has as many lines as it says, all of the file, and with a file whose
\* chunks are in order and apart (the schema) the numbers are those of the file.
ReadsAreTrue ==
  answer # None /\ answer.kind = "read_file" /\ ~answer.output.error =>
    LET o == answer.output
    IN /\ Len(o.content) = o.endLine - o.startLine + 1 /\ o.endLine <= o.totalLines
       /\ ToSet(o.content) \subseteq 0 .. FileOf(o.file).length
       /\ o.file = "schema" => \A k \in DOMAIN o.content : o.content[k] \in {0, o.startLine + k - 1}

\* Whoever the guardrails let use a tool has what the registry requires for it.
CallsArePermitted ==
  answer # None /\ answer.kind # "search" =>
    (ReadingTools @@ SandboxedTools @@ WritingTools)[answer.kind].permission \in RolePermissions[answer.role]
=============================================================================
