----------------------------- MODULE Extractors -----------------------------
(***************************************************************************)
(* What the analysis of a repository extracts from a file: its endpoints,  *)
(* database models, authentication patterns, configuration keys and tests. *)
(* A line is the kind of thing the regular expressions take it for; of an  *)
(* extracted thing there are the lines it is from.                         *)
(***************************************************************************)
EXTENDS Naturals, SequencesExt, FiniteSetsExt

CONSTANTS MaxLength,    \* bound: for each subject, the lines of a file
          HandlerLines, \* 14: lines after a decorator in which its handler may be
          ClassLines,   \* 4 after @Controller, 5 after @Entity
          MaxPath,      \* bound: characters of a path
          None

VARIABLES file,   \* what is extracted from: its subject and lines
          found   \* what was extracted, in order; None before

vars == <<file, found>>

\* Guards "A" and "B", of whoever they are; "call" is a name and parentheses,
\* a handler or not; a line of the configuration is named for what it reads.
LinesOf(subject) ==
  CASE subject = "TypeScript APIs" -> {"controller", "class", "A", "B", "http", "call", "other"}
    [] subject = "Python APIs" -> {"route", "secured route", "def", "other"}
    [] subject = "Java APIs" -> {"mapping", "http", "secured http"}
    [] subject = "SQL" -> {"create", "column", "column key", "key", "reference", "comment", "end"}
    [] subject = "TypeScript models" -> {"entity", "class", "key", "column", "relation", "name", "close"}
    [] subject = "Python models" -> {"model", "column", "relationship", "blank", "def", "indented"}
    [] subject = "auth" -> {"jwt guard", "role guard", "guard", "strategy", "oauth strategy", "roles", "jwtService"}
    [] subject = "config" -> {"PORT", "JWT_SECRET", "both", "neither"}
    [] subject = "tests" -> {"describe", "it", "emit", "def test", "@Test", "void", "other"}

Files == UNION {[subject : {s}, lines : UNION {[1 .. n -> LinesOf(s)] : n \in 1 .. MaxLength[s]}] :
                  s \in DOMAIN MaxLength}
Paths == UNION {[1 .. n -> {"/", "a"}] : n \in 0 .. MaxPath}

Init == file = None /\ found = None

-----------------------------------------------------------------------------
\* The loop over the lines of a file: f(so far, number of the line).
OverLines(lines, f(_, _), start) == FoldLeft(f, start, [i \in DOMAIN lines |-> i])

\* The first of the n lines after i that is of a kind, 0 when none is.
NextOf(lines, kind, i, n) ==
  LET S == {j \in i + 1 .. i + n : j \in DOMAIN lines /\ lines[j] = kind} IN IF S = {} THEN 0 ELSE Min(S)

CombinePaths(base, sub) ==
  LET slashes(s) == {i \in DOMAIN s : s[i] = "/"}
      cleanBase == SubSeq(base, 1, Max((DOMAIN base \ slashes(base)) \cup {0}))
      cleanSub == SubSeq(sub, Min((DOMAIN sub \ slashes(sub)) \cup {Len(sub) + 1}), Len(sub))
      rooted == IF cleanBase # <<>> /\ cleanBase[1] = "/" THEN cleanBase ELSE <<"/">> \o cleanBase
  IN CASE cleanBase = <<>> -> <<"/">> \o cleanSub
       [] cleanBase # <<>> /\ cleanSub = <<>> -> rooted
       [] OTHER -> rooted \o <<"/">> \o cleanSub

-----------------------------------------------------------------------------
(***************************************************************************)
(* Endpoints.  Any @UseGuards line, a method's own as well, becomes what   *)
(* the following methods are taken to be guarded by.                       *)
(***************************************************************************)
Guards == {"A", "B"}

\* Fault variant of GuardsBelow: those between a decorator and its handler are not looked for.
GuardsNotBelow(lines, i, end) == {}

\* The scan goes on to the handler, or as far as it may when there is none.
GuardsBelow(lines, i, end) == {lines[j] : j \in {k \in i + 1 .. end : k \in DOMAIN lines /\ lines[k] \in Guards}}

ExtractTypeScriptApis(lines) ==
  LET step(acc, i) ==
        LET class == NextOf(lines, "class", i, ClassLines)
            handler == NextOf(lines, "call", i, HandlerLines)
            scanned == IF handler = 0 THEN i + HandlerLines ELSE handler
        IN CASE lines[i] = "controller" ->
                  [acc EXCEPT !.controller = i, !.name = IF class = 0 THEN @ ELSE class]
             [] lines[i] \in Guards -> [acc EXCEPT !.guards = {lines[i]}]
             [] lines[i] = "http" ->
                  [acc EXCEPT !.apis = Append(@, [start |-> i, end |-> IF handler = 0 THEN i ELSE handler,
                     controller |-> acc.controller, name |-> acc.name,
                     guards |-> acc.guards \cup GuardsBelow(lines, i, scanned)])]
             [] OTHER -> acc
  IN OverLines(lines, step, [controller |-> 0, name |-> 0, guards |-> {}, apis |-> <<>>]).apis

\* The dependency must be on the line of the route; five lines, whatever the file has.
ExtractPythonApis(lines) ==
  LET step(apis, i) ==
        IF lines[i] \notin {"route", "secured route"} THEN apis
        ELSE Append(apis, [start |-> i, end |-> i + 4, handler |-> NextOf(lines, "def", i, 4),
                           guards |-> IF lines[i] = "route" THEN {} ELSE {"FastAPI_AuthDependency"}])
  IN OverLines(lines, step, <<>>)

\* @PreAuthorize must be on the line of the mapping.
ExtractJavaApis(lines) ==
  LET step(acc, i) ==
        CASE lines[i] = "mapping" -> [acc EXCEPT !.controller = i]
          [] OTHER -> [acc EXCEPT !.apis = Append(@, [start |-> i, end |-> i + 4, controller |-> acc.controller,
               guards |-> IF lines[i] = "http" THEN {} ELSE {"SpringSecurity_PreAuthorize"}])]
  IN OverLines(lines, step, [controller |-> 0, apis |-> <<>>]).apis

-----------------------------------------------------------------------------
(***************************************************************************)
(* Database models, open until something closes them.                      *)
(***************************************************************************)
Model(start) == [start |-> start, end |-> 0, key |-> 0, fields |-> {}, relations |-> {}]
Closed(acc, i) == [open |-> None, models |-> Append(acc.models, [acc.open EXCEPT !.end = i])]

\* A table ends at the first ");"; what is in it is a column unless it begins
\* a constraint, so another CREATE is one, and of the lines that say PRIMARY
\* KEY the last one names the key, even if it is a constraint.
ExtractSqlTables(lines) ==
  LET step(acc, i) ==
        LET end == NextOf(lines, "end", i, Len(lines))
            body(kinds) == {k \in i + 1 .. end - 1 : lines[k] \in kinds}
        IN IF lines[i] # "create" \/ i <= acc.upto \/ end = 0 THEN acc
           ELSE [upto |-> end, models |-> Append(acc.models, [start |-> i, end |-> end,
                   key |-> Max(body({"column key", "key"}) \cup {0}),
                   fields |-> body({"column", "column key", "create"}), relations |-> body({"reference"})])]
  IN OverLines(lines, step, [upto |-> 0, models |-> <<>>]).models

\* A closing brace at the start of any line closes the entity, whatever it
\* closes; an entity never closed, or begun again before that, is lost.
ExtractTypeScriptModels(lines) ==
  LET named(i) == i + 1 \in DOMAIN lines /\ lines[i + 1] = "name"
      opened(open, i) ==
        IF lines[i] = "entity" /\ NextOf(lines, "class", i, ClassLines) # 0 THEN Model(i) ELSE open
      filled(m, i) ==
        CASE lines[i] = "key" /\ named(i) -> [m EXCEPT !.key = i + 1, !.fields = @ \cup {i + 1}]
          [] lines[i] = "column" /\ named(i) -> [m EXCEPT !.fields = @ \cup {i + 1}]
          [] lines[i] = "relation" -> [m EXCEPT !.relations = @ \cup {i}]
          [] OTHER -> m
      step(acc, i) ==
        LET open == opened(acc.open, i)
        IN CASE open = None -> acc
             [] open # None /\ lines[i] = "close" -> Closed([acc EXCEPT !.open = open], i)
             [] OTHER -> [acc EXCEPT !.open = filled(open, i)]
  IN OverLines(lines, step, [open |-> None, models |-> <<>>]).models

\* A blank line before one that is not indented closes the model, and so does
\* the end of the file, twenty-four lines after its start; a model begun again
\* before that is lost.
ExtractPythonModels(lines) ==
  LET flat == {"model", "def"}
      closes(i) == lines[i] = "blank" /\ i + 1 \in DOMAIN lines /\ lines[i + 1] \in flat
      filled(m, i) ==
        CASE lines[i] = "column" -> [m EXCEPT !.fields = @ \cup {i}]
          [] lines[i] = "relationship" -> [m EXCEPT !.relations = @ \cup {i}]
          [] OTHER -> m
      step(acc, i) ==
        CASE lines[i] = "model" -> [acc EXCEPT !.open = Model(i)]
          [] lines[i] # "model" /\ acc.open # None ->
               IF closes(i) THEN Closed(acc, i) ELSE [acc EXCEPT !.open = filled(@, i)]
          [] OTHER -> acc
      last == OverLines(lines, step, [open |-> None, models |-> <<>>])
  IN IF last.open = None THEN last.models ELSE Closed(last, last.open.start + 24).models

-----------------------------------------------------------------------------
\* How long a guard or a strategy is, is a guess; a guard is one of JWT as
\* soon as the file has a jwtService.
ExtractAuthPatterns(lines) ==
  LET pattern(type, i, n, how) == [type |-> type, start |-> i, end |-> i + n, mechanism |-> how]
      jwt == \E i \in DOMAIN lines : lines[i] = "jwtService"
      step(patterns, i) ==
        CASE lines[i] \in {"jwt guard", "role guard", "guard"} ->
               Append(patterns, pattern("GUARD", i, 24, IF lines[i] = "jwt guard" \/ jwt THEN "JWT"
                                                        ELSE IF lines[i] = "role guard" THEN "RBAC" ELSE "SESSION"))
          [] lines[i] \in {"strategy", "oauth strategy"} ->
               Append(patterns, pattern("STRATEGY", i, 29, IF lines[i] = "strategy" THEN "JWT" ELSE "OAUTH"))
          [] lines[i] = "roles" -> Append(patterns, pattern("DECORATOR", i, 0, "RBAC"))
          [] OTHER -> patterns
  IN OverLines(lines, step, <<>>)

KeysIn(line) == CASE line = "both" -> <<"JWT_SECRET", "PORT">>
                  [] line = "neither" -> <<>>
                  [] OTHER -> <<line>>

ExtractConfigKeys(lines) ==
  LET step(keys, i) ==
        FoldLeft(LAMBDA seen, k : IF \E n \in DOMAIN seen : seen[n].name = k THEN seen
                                  ELSE Append(seen, [name |-> k, line |-> i, isSecret |-> k = "JWT_SECRET"]),
                 keys, KeysIn(lines[i]))
  IN OverLines(lines, step, <<>>)

\* Whatever ends in it( is a test, emit( too; one suite, named after the last describe.
ExtractTestSuites(lines) ==
  LET cases == {i \in DOMAIN lines :
                  \/ lines[i] \in {"it", "emit", "def test"}
                  \/ lines[i] = "@Test" /\ i + 1 \in DOMAIN lines /\ lines[i + 1] = "void"}
  IN <<[name |-> Max({i \in DOMAIN lines : lines[i] = "describe"} \cup {0}), tests |-> cases]>>

-----------------------------------------------------------------------------
\* analyzeRepository, for one file and subject.
Extracted(subject, lines) ==
  CASE subject = "TypeScript APIs" -> ExtractTypeScriptApis(lines)
    [] subject = "Python APIs" -> ExtractPythonApis(lines)
    [] subject = "Java APIs" -> ExtractJavaApis(lines)
    [] subject = "SQL" -> ExtractSqlTables(lines)
    [] subject = "TypeScript models" -> ExtractTypeScriptModels(lines)
    [] subject = "Python models" -> ExtractPythonModels(lines)
    [] subject = "auth" -> ExtractAuthPatterns(lines)
    [] subject = "config" -> ExtractConfigKeys(lines)
    [] OTHER -> ExtractTestSuites(lines)

Extract(f) ==
  /\ file' = f
  /\ found' = Extracted(f.subject, f.lines)

Join(base, sub) ==
  /\ file' = [subject |-> "paths", base |-> base, sub |-> sub]
  /\ found' = <<[path |-> CombinePaths(base, sub)]>>

Next ==
  /\ found = None
  /\ \/ \E f \in Files : Extract(f)
     \/ \E base, sub \in Paths : Join(base, sub)

Spec == Init /\ [][Next]_vars

-----------------------------------------------------------------------------
(***************************************************************************)
(* Properties                                                              *)
(***************************************************************************)
About(subjects) == found # None /\ file.subject \in subjects
APIs == {"TypeScript APIs", "Python APIs", "Java APIs"}
Models == {"SQL", "TypeScript models", "Python models"}

\* What is extracted begins on a line of the file, in the order of the lines.
TypeOK ==
  /\ found = None <=> file = None
  /\ About(APIs \cup Models \cup {"auth"}) =>
       \A n \in DOMAIN found : /\ found[n].start \in DOMAIN file.lines /\ found[n].start <= found[n].end
                               /\ n > 1 => found[n - 1].start < found[n].start

\* Every mapping of a TypeScript file is reported, with each guard that is on
\* the line above it or between it and its handler; one reported as open has
\* no @UseGuards line anywhere above it.  (One reported as guarded may be open:
\* the guard may have been that of an earlier method.)
GuardedIsNotReportedOpen ==
  About({"TypeScript APIs"}) =>
    LET lines == file.lines
    IN /\ {found[n].start : n \in DOMAIN found} = {i \in DOMAIN lines : lines[i] = "http"}
       /\ \A n \in DOMAIN found : LET e == found[n] IN
            /\ {lines[i] : i \in e.start - 1 .. e.end \cap DOMAIN lines} \cap Guards \subseteq e.guards
            /\ e.guards = {} => \A i \in 1 .. e.end : lines[i] \notin Guards
            /\ e.controller <= e.start /\ (e.controller > 0 => lines[e.controller] = "controller")

\* No column is that of two models; every model lies between its beginning and
\* the next one's, and so do its columns; and every entity of a TypeScript file
\* that is closed before the next one begins is reported.
ModelsApart ==
  About(Models) =>
    LET lines == file.lines
        begins(i) == /\ lines[i] = "entity" /\ NextOf(lines, "class", i, ClassLines) # 0
        after(i) == {j \in i + 1 .. Len(lines) : begins(j) \/ lines[j] = "close"}
    IN /\ \A n \in DOMAIN found : LET m == found[n] IN
            /\ \A k \in m.fields \cup m.relations : m.start < k /\ (file.subject # "Python models" => k < m.end)
            /\ m.key # 0 => m.start < m.key /\ m.key <= m.end
            /\ n > 1 => /\ found[n - 1].fields \cap m.fields = {}
                        /\ \A k \in found[n - 1].fields : k < m.start
                        /\ found[n - 1].end < m.start
       /\ file.subject = "TypeScript models" =>
            \A i \in DOMAIN lines : begins(i) /\ after(i) # {} /\ lines[Min(after(i))] = "close" =>
              \E n \in DOMAIN found : found[n].start = i /\ found[n].end = Min(after(i))

\* Every key the file reads is listed once, with the first line that reads it;
\* no test is missed.
KeysAndTestsListed ==
  /\ About({"config"}) =>
       LET reads(k) == {i \in DOMAIN file.lines : k \in ToSet(KeysIn(file.lines[i]))}
       IN /\ {found[n].name : n \in DOMAIN found} = {k \in {"PORT", "JWT_SECRET"} : reads(k) # {}}
          /\ \A n \in DOMAIN found : found[n].line = Min(reads(found[n].name))
          /\ \A m, n \in DOMAIN found : found[m].name = found[n].name => m = n
  /\ About({"tests"}) =>
       \A i \in DOMAIN file.lines : file.lines[i] \in {"it", "def test"} => i \in found[1].tests

\* A path begins with a slash and has the segments of both parts and no slash
\* more between them.
PathsJoin ==
  About({"paths"}) =>
    LET letters(s) == SelectSeq(s, LAMBDA c : c = "a")
        doubled(s) == \E i \in 1 .. Len(s) - 1 : s[i] = "/" /\ s[i + 1] = "/"
        path == found[1].path
    IN /\ path[1] = "/" /\ letters(path) = letters(file.base) \o letters(file.sub)
       /\ doubled(path) => doubled(file.base) \/ doubled(file.sub)
=============================================================================
