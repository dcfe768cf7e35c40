------------------------------- MODULE Parsers ------------------------------
(***************************************************************************)
(* What the ingestion worker extracts from a file: its filter, and the     *)
(* parsers of five kinds of file.  A line is what the parsers' regular     *)
(* expressions and counters see of it: the kind of definition it begins,   *)
(* its indentation, its braces and whether it has a semicolon.  A symbol   *)
(* or chunk is its kind and its first and last line; a method also has the *)
(* line of the class it is filed under.                                    *)
(***************************************************************************)
EXTENDS Naturals, Sequences, FiniteSets, FiniteSetsExt

CONSTANTS MaxLength,     \* bound: for each language, the lines of a file
          GenericLength, \* the lengths of a file of no known language
          BlockLines,    \* 20: lines of a block that never closes
          StatementLines \* 50: lines of a statement that never ends

VARIABLES file,              \* the next one of a run: its language, lines and traits
          status, symbols, chunks

vars == <<file, status, symbols, chunks>>

Line(is, indent, open, close, semi) ==
  [is |-> is, indent |-> indent, open |-> open, close |-> close, semi |-> semi]
Braced(is, shapes) == {Line(is, 0, b[1], b[2], FALSE) : b \in shapes}
Indented(is, indents) == {Line(is, n, 0, 0, FALSE) : n \in indents}
Opens == <<1, 0>>
Closes == <<0, 1>>
Both == <<1, 1>>
Neither == <<0, 0>>

\* "call" is whatever is a name and parentheses: a method, or a call of one.
LinesOf(lang) ==
  CASE lang = "TypeScript" ->
         Braced("class", {Opens, Both}) \cup Braced("interface", {Opens}) \cup Braced("enum", {Opens})
           \cup Braced("type", {Neither}) \cup Braced("function", {Opens, Both}) \cup Braced("arrow", {Neither})
           \cup Braced("call", {Neither, Opens}) \cup Braced("other", {Opens, Closes})
    [] lang = "Java" ->
         Braced("class", {Opens, Both, Neither}) \cup {Line("class", 0, 1, 1, TRUE)}
           \cup Braced("method", {Opens, Both, Neither})
           \cup Braced("other", {Opens, Closes, Neither})
    [] lang = "Python" ->
         Indented("class", {0, 1}) \cup Indented("def", 0 .. 2) \cup Indented("import", {0, 1})
           \cup Indented("other", 0 .. 2) \cup Indented("blank", {0})
    [] lang = "SQL" ->
         {Line(is, 0, 0, 0, semi) : is \in {"table", "view", "index", "function", "procedure", "other"},
                                    semi \in BOOLEAN}

\* What the filter looks at beside the content.
Trait == {"ignored directory", "ignored file", "secret", "binary extension", "NUL", "too large"}

Flat(lang) == [lang |-> lang, lines |-> <<Line("other", 0, 0, 0, FALSE)>>, traits |-> {}]
GenericLines(n, blank) ==
  [i \in 1 .. n |-> Line(IF i \in blank THEN "blank" ELSE "other", 0, 0, 0, FALSE)]

Files ==
  (UNION {[lang : {l}, lines : UNION {[1 .. n -> LinesOf(l)] : n \in 1 .. MaxLength[l]}, traits : {{}}] :
            l \in DOMAIN MaxLength})
    \cup {[Flat("Generic") EXCEPT !.lines = GenericLines(n, from .. to)] :
            n \in GenericLength, from \in {1, 2, 46}, to \in {0, 50, 95, 96}}
    \cup {[Flat("Python") EXCEPT !.traits = ts] : ts \in SUBSET Trait}

Init == file = Flat("Generic") /\ status = "pending" /\ symbols = {} /\ chunks = {}

-----------------------------------------------------------------------------
Symbol(kind, start, end, of) == [kind |-> kind, start |-> start, end |-> end, of |-> of]
Chunk(start, end) == [start |-> start, end |-> end]
Extracted(found, windows) == [symbols |-> found, chunks |-> windows]
Least(S, otherwise) == IF S = {} THEN otherwise ELSE Min(S)
Lesser(m, n) == IF m < n THEN m ELSE n

\* Without any chunk of its own a file is one.
OrModule(lines, windows) == IF windows = {} THEN {Chunk(1, Len(lines))} ELSE windows

\* Where the braces opened from line i on are first all closed at a line's end.
FindBlockEnd(lines, i, otherwise) ==
  LET opened(j) == Cardinality({k \in i .. j : lines[k].open = 1})
      closed(j) == Cardinality({k \in i .. j : lines[k].close = 1})
  IN Least({j \in i .. Len(lines) : opened(j) > 0 /\ opened(j) <= closed(j)}, otherwise)

-----------------------------------------------------------------------------
(***************************************************************************)
(* TypeScript and JavaScript.  Every definition is found on any line; in   *)
(* the lines of a class whatever looks like a call is one of its methods.  *)
(***************************************************************************)
TsBlockEnd(lines, i) == FindBlockEnd(lines, i, Lesser(i - 1 + BlockLines, Len(lines)))

TsSymbolAt(lines, i) ==
  LET is == lines[i].is
      to(end) == Symbol(IF is = "arrow" THEN "function" ELSE is, i, end, 0)
  IN CASE is \in {"class", "interface", "enum", "function", "arrow"} -> {to(TsBlockEnd(lines, i))}
       [] is = "type" -> {to(i)}
       [] OTHER -> {}

\* A class of one line has a method of one line.
ExtractClassMethods(lines, class) ==
  IF class.start = class.end
  THEN {Symbol("method", i, i, i) : i \in {k \in {class.start} : lines[k].close = 1}}
  ELSE {Symbol("method", i, TsBlockEnd(lines, i), class.start) :
         i \in {k \in class.start + 1 .. class.end : lines[k].is = "call"}}

ParseTypeScript(lines) ==
  LET top == UNION {TsSymbolAt(lines, i) : i \in DOMAIN lines}
      methods == UNION {ExtractClassMethods(lines, s) : s \in {t \in top : t.kind = "class"}}
  IN Extracted(top \cup methods,
       OrModule(lines, {Chunk(s.start, s.end) : s \in {t \in top : t.kind \notin {"enum", "type"}}}))

-----------------------------------------------------------------------------
(***************************************************************************)
(* Java.  A method is filed under the class begun last, ended or not.      *)
(***************************************************************************)
JavaBlockEnd(lines, i) == FindBlockEnd(lines, i, Len(lines))

\* The brace is on the line of the class or on the next one.
IsJavaClass(lines, i) ==
  /\ lines[i].is = "class" /\ ~lines[i].semi
  /\ \E k \in {i, i + 1} \cap DOMAIN lines : lines[k].open = 1

ParseJava(lines) ==
  LET classes == {i \in DOMAIN lines : IsJavaClass(lines, i)}
      before(i) == {c \in classes : c < i}
      methods == {i \in DOMAIN lines : lines[i].is = "method" /\ before(i) # {}}
  IN Extracted({Symbol("class", i, JavaBlockEnd(lines, i), 0) : i \in classes}
                 \cup {Symbol("method", i, JavaBlockEnd(lines, i), Max(before(i))) : i \in methods},
               OrModule(lines, {Chunk(i, JavaBlockEnd(lines, i)) : i \in classes}))

-----------------------------------------------------------------------------
(***************************************************************************)
(* Python.  A block goes on as long as the lines are indented more than    *)
(* its first one; the first definition or import says what is top level.   *)
(***************************************************************************)
BaseIndent(lines) ==
  LET first == Least({i \in DOMAIN lines : lines[i].is \in {"class", "def", "import"}}, 0)
  IN IF first = 0 THEN 0 ELSE lines[first].indent

FindPythonBlockEnd(lines, i) ==
  Least({j \in i + 1 .. Len(lines) : lines[j].is # "blank" /\ lines[j].indent <= lines[i].indent},
        Len(lines) + 1) - 1

ExtractMethods(lines, class) ==
  {Symbol("method", i, FindPythonBlockEnd(lines, i), class) :
    i \in {k \in class + 1 .. FindPythonBlockEnd(lines, class) : lines[k].is = "def" /\ lines[k].indent > 0}}

ParsePython(lines) ==
  LET top == {i \in DOMAIN lines : lines[i].is \in {"class", "def"} /\ lines[i].indent <= BaseIndent(lines)}
      kind(i) == IF lines[i].is = "class" THEN "class" ELSE "function"
      classes == {i \in top : lines[i].is = "class"}
  IN Extracted({Symbol(kind(i), i, FindPythonBlockEnd(lines, i), 0) : i \in top}
                 \cup UNION {ExtractMethods(lines, c) : c \in classes},
               OrModule(lines, {Chunk(i, FindPythonBlockEnd(lines, i)) : i \in top}))

-----------------------------------------------------------------------------
(***************************************************************************)
(* SQL: a statement ends at the first line with a semicolon, wherever it   *)
(* is in that line.  Anything else: windows that overlap.                  *)
(***************************************************************************)
FindSemicolonEnd(lines, i) ==
  Least({j \in i .. Len(lines) : lines[j].semi}, Lesser(i - 1 + StatementLines, Len(lines)))

ParseSql(lines) ==
  LET begins(kinds) == {i \in DOMAIN lines : lines[i].is \in kinds}
  IN Extracted({Symbol(lines[i].is, i, FindSemicolonEnd(lines, i), 0) :
                  i \in begins({"table", "view", "function", "procedure"})}
                 \cup {Symbol("variable", i, i, 0) : i \in begins({"index"})},
               OrModule(lines, {Chunk(i, FindSemicolonEnd(lines, i)) : i \in begins({"table"})}))

chunkSize == 50
overlap == 5

ParseGeneric(lines) ==
  LET n == Len(lines)
      starts == {i \in 0 .. n - 1 : i % (chunkSize - overlap) = 0 /\ (i = 0 \/ i + overlap < n)}
      windows == {Chunk(i + 1, Lesser(i + chunkSize, n)) : i \in starts}
  IN Extracted({}, {w \in windows : \E k \in w.start .. w.end : lines[k].is # "blank"})

-----------------------------------------------------------------------------
\* The first test that applies decides, so a secret is never called binary.
ShouldProcess(traits) ==
  CASE traits \cap {"ignored directory", "ignored file", "secret"} # {} -> "ignored"
    [] traits \cap {"binary extension", "NUL"} # {} -> "binary"
    [] "too large" \in traits -> "ignored"
    [] OTHER -> "process"

Parse(lang, lines) ==
  CASE lang = "TypeScript" -> ParseTypeScript(lines)
    [] lang = "Java" -> ParseJava(lines)
    [] lang = "Python" -> ParsePython(lines)
    [] lang = "SQL" -> ParseSql(lines)
    [] OTHER -> ParseGeneric(lines)

FilterFile(f) ==
  /\ ShouldProcess(f.traits) # "process"
  /\ status' = ShouldProcess(f.traits) /\ file' = f
  /\ UNCHANGED <<symbols, chunks>>

ParseFile(f) ==
  /\ ShouldProcess(f.traits) = "process"
  /\ status' = "indexed" /\ file' = f
  /\ LET result == Parse(f.lang, f.lines)
     IN symbols' = result.symbols /\ chunks' = result.chunks

Next == status = "pending" /\ \E f \in Files : FilterFile(f) \/ ParseFile(f)

Spec == Init /\ [][Next]_vars

-----------------------------------------------------------------------------
(***************************************************************************)
(* Properties                                                              *)
(***************************************************************************)
\* Status, symbols and chunks have the shapes the repository stores.
TypeOK ==
  /\ status \in {"pending", "ignored", "binary", "indexed"}
  /\ \A s \in symbols : s.start \in Nat /\ s.end \in Nat /\ s.of \in Nat
  /\ status # "indexed" => symbols = {} /\ chunks = {}

\* Whatever braces, semicolons and indentation a file has, closed or not,
\* every symbol and chunk is a range of its lines, every line that is not
\* blank of a file of no known language is in a chunk, and so is at least
\* one line of any other.
ArtefactsInFile ==
  status = "indexed" =>
    /\ \A s \in symbols \cup chunks : 1 <= s.start /\ s.start <= s.end /\ s.end <= Len(file.lines)
    /\ IF file.lang = "Generic"
       THEN \A i \in DOMAIN file.lines :
              file.lines[i].is # "blank" => \E c \in chunks : i \in c.start .. c.end
       ELSE chunks # {}
    /\ "secret" \notin file.traits

\* The braces of the lines of a definition are closed by its last one.
Closed(s) ==
  LET lines(brace) == {k \in s.start .. s.end : file.lines[k][brace] = 1}
  IN Cardinality(lines("open")) <= Cardinality(lines("close"))

\* Two definitions that begin on different lines are one inside the other or
\* apart: always in Python, and between braces when each opens its own and the
\* earlier one closes it.  (A call or an arrow function without a brace of its
\* own is given the next block of the file.)
BlocksNest ==
  \A s, t \in symbols :
    /\ s.start < t.start /\ t.start <= s.end
    /\ \/ file.lang = "Python"
       \/ /\ file.lang \in {"TypeScript", "Java"} /\ Closed(s)
          /\ file.lines[s.start].open = 1 /\ file.lines[t.start].open = 1
    => t.end <= s.end

\* A method lies in the lines of the class it is filed under; in Java, after it began.
MethodsInClass ==
  \A m \in symbols : m.kind = "method" =>
    \E c \in symbols : /\ c.kind = "class" /\ c.start = m.of /\ c.start <= m.start
                       /\ file.lang # "Java" => m.start <= c.end
=============================================================================
