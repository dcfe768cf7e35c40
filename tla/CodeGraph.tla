----------------------------- MODULE CodeGraph ------------------------------
(***************************************************************************)
(* CodeGraphBuilderService: the graph of a repository from what the        *)
(* extractors found, and the depth-first search for circular imports, one  *)
(* action per turn of its loops.  Edges are visited in any order, since    *)
(* their order is that of the extraction.                                  *)
(***************************************************************************)
EXTENDS Naturals, SequencesExt

CONSTANTS File,    \* sequence of the files
          Module,  \* what imports may name besides a file
          None

\* input: dependencies as <<source, target>>, definitions (symbols, endpoints
\* and tables) as <<file, name>>, tests as <<suite, file>>
VARIABLES input, nodes, edges,
          stack,    \* the calls of dfs: node and neighbours not yet looked at
          visited, recStack,
          hasCycles \* the verdict, None until there is one

vars == <<input, nodes, edges, stack, visited, recStack, hasCycles>>

FileId(f) == <<"file", f>>
Files == {FileId(f) : f \in ToSet(File)}

Init ==
  /\ input = None
  /\ nodes = {} /\ edges = {}
  /\ stack = <<>> /\ visited = {} /\ recStack = {}
  /\ hasCycles = None

-----------------------------------------------------------------------------
\* The file an import leads to: the first whose path contains the name; here
\* a name that is not a path is contained in every path.
Resolve(target) == IF target \in Files THEN target ELSE FileId(File[1])

\* addEdge refuses a duplicate, and imports of oneself are left out.
Imports(dependencies) ==
  {<<d[1], "IMPORTS", Resolve(d[2])>> : d \in {x \in dependencies : x[1] # Resolve(x[2])}}
Defines(definitions) == {<<d[1], "DEFINES", d[2]>> : d \in {x \in definitions : x[1] \in Files}}
Tests(tests) == {<<t[1], "TESTS", t[2]>> : t \in {x \in tests : x[2] \in Files}}

BuildGraph(dependencies, definitions, tests) ==
  /\ input = None
  /\ input' = [dependencies |-> dependencies, definitions |-> definitions, tests |-> tests]
  /\ nodes' = Files \cup {d[2] : d \in definitions} \cup {t[1] : t \in tests}
  /\ edges' = Imports(dependencies) \cup Defines(definitions) \cup Tests(tests)
  /\ UNCHANGED <<stack, visited, recStack, hasCycles>>

\* The adjacency lists of detectCycles hold the imports only.
Neighbours(n) == {e[3] : e \in {x \in edges : x[1] = n /\ x[2] = "IMPORTS"}}

Call(n, frames) ==
  /\ visited' = visited \cup {n}
  /\ recStack' = recStack \cup {n}
  /\ stack' = Append(frames, [node |-> n, left |-> Neighbours(n)])
  /\ UNCHANGED <<input, nodes, edges, hasCycles>>

Searching == input # None /\ hasCycles = None
Top == stack[Len(stack)]

\* The nodes are taken in the order they were added, the files first.
VisitNode(n) ==
  /\ Searching /\ stack = <<>> /\ n \in nodes \ visited
  /\ n \in Files \/ Files \subseteq visited
  /\ Call(n, stack)

Rest(m) == [stack EXCEPT ![Len(stack)].left = @ \ {m}]

VisitNeighbour(m) ==
  /\ Searching /\ stack # <<>> /\ m \in Top.left
  /\ \/ m \notin visited /\ Call(m, Rest(m))
     \/ /\ m \in recStack
        /\ hasCycles' = TRUE
        /\ UNCHANGED <<input, nodes, edges, stack, visited, recStack>>
     \/ /\ m \in visited \ recStack
        /\ stack' = Rest(m)
        /\ UNCHANGED <<input, nodes, edges, visited, recStack, hasCycles>>

\* Fault variant of Returned: a node stays on the recursion stack.
ReturnedNever(n) == recStack

Returned(n) == recStack \ {n}

Return ==
  /\ Searching /\ stack # <<>> /\ Top.left = {}
  /\ recStack' = Returned(Top.node)
  /\ stack' = Front(stack)
  /\ UNCHANGED <<input, nodes, edges, visited, hasCycles>>

NoCycle ==
  /\ Searching /\ stack = <<>> /\ nodes \subseteq visited
  /\ hasCycles' = FALSE
  /\ UNCHANGED <<input, nodes, edges, stack, visited, recStack>>

Found == {<<FileId(File[1]), <<"symbol", "S">>>>}
Suites == {<<<<"test", "suite">>, f>> : f \in Files}
\* Any imports between files, one of a file itself, one that is no path.
Importable == {d \in Files \X Files : d[1] # d[2] \/ d[1] = FileId(File[1])}
                \cup {<<FileId(Last(File)), <<"module", m>>>> : m \in Module}

Next ==
  \/ \E dependencies \in SUBSET Importable, more \in BOOLEAN :
       BuildGraph(dependencies, IF more THEN Found ELSE {}, IF more THEN Suites ELSE {})
  \/ \E n \in nodes : VisitNode(n) \/ VisitNeighbour(n)
  \/ Return \/ NoCycle

Spec == Init /\ [][Next]_vars

-----------------------------------------------------------------------------
(***************************************************************************)
(* Properties                                                              *)
(***************************************************************************)
\* Types; the nodes on the recursion stack are those being visited.
TypeOK ==
  /\ nodes \subseteq Files \cup {<<"symbol", "S">>, <<"test", "suite">>}
  /\ \A e \in edges : e[1] \in nodes /\ e[3] \in nodes /\ e[1] # e[3]
  /\ visited \subseteq nodes
  /\ recStack = {stack[i].node : i \in DOMAIN stack}
  /\ hasCycles \in {None, TRUE, FALSE}

\* The verdict on a repository is right, whatever order the search takes and
\* whatever the edges that are no imports: circular imports are reported if,
\* and only if, there are files each of which imports another of them.
CycleVerdict == hasCycles # None =>
  hasCycles = \E some \in SUBSET Files :
                some # {} /\ \A f \in some : \E g \in some \ {f} : <<f, "IMPORTS", g>> \in edges
=============================================================================
