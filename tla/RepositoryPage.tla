--------------------------- MODULE RepositoryPage ---------------------------
(***************************************************************************)
(* The page of one repository in the web application, and the part of the  *)
(* API it talks to.  Its load asks for the repository first and for five   *)
(* more things after it; the load runs when the page is opened, whenever   *)
(* the tokens or the active workspace change, and after an ingestion the   *)
(* page has asked for and given a second and a half to end.                *)
(***************************************************************************)
EXTENDS Naturals, FiniteSets

CONSTANTS MaxLoads, \* bound: loads of one behaviour
          MaxJobs   \* bound: ingestions of one behaviour

VARIABLES job,         \* the server's: number of the latest ingestion
          indexed,     \* the server's: number of the last one that is done
          repository, symbols, latestJob, \* shown: "none", "server" or "demo", and a number
          isLoading, isIngesting,
          loads,       \* loads under way
          started,     \* how many there were
          ingestion,   \* of handleTriggerIngestion: where it waits
          troubled     \* history: a request failed, loads overlapped, or one
                       \* began before the latest ingestion was done

shownVars == <<repository, symbols, latestJob>>
vars == <<job, indexed, shownVars, isLoading, isIngesting, loads, started, ingestion, troubled>>

\* Of the symbols: what is shown, and of which ingestion.
Nothing == [from |-> "none", index |-> 0]
DemoSymbols == [from |-> "demo", index |-> 0]

Load(why) == [n |-> started + 1, stage |-> "details", why |-> why]

Init ==
  /\ job = 0 /\ indexed = 0
  /\ repository = "none" /\ symbols = Nothing /\ latestJob = 0
  /\ isLoading = TRUE /\ isIngesting = FALSE
  /\ loads = {[n |-> 1, stage |-> "details", why |-> "effect"]} /\ started = 1
  /\ ingestion = "idle" /\ troubled = FALSE

Begin(why) ==
  /\ started < MaxLoads
  /\ loads' = loads \cup {Load(why)} /\ started' = started + 1
  /\ isLoading' = TRUE
  /\ troubled' = (troubled \/ loads # {})

\* The tokens are refreshed or another workspace becomes active.
Reload ==
  /\ Begin("effect")
  /\ UNCHANGED <<job, indexed, shownVars, isIngesting, ingestion>>

\* The server's run ends.
IngestionDone ==
  /\ indexed < job
  /\ indexed' = job
  /\ troubled' = (troubled \/ loads # {} \/ ingestion # "timer")
  /\ UNCHANGED <<job, shownVars, isLoading, isIngesting, loads, started, ingestion>>

DetailsAnswered(l) ==
  /\ l \in loads /\ l.stage = "details"
  /\ \E ok \in BOOLEAN :
       /\ repository' = IF ok THEN "server" ELSE repository
       /\ troubled' = (troubled \/ ~ok)
  /\ loads' = (loads \ {l}) \cup {[l EXCEPT !.stage = "rest"]}
  /\ UNCHANGED <<job, indexed, symbols, latestJob, isLoading, isIngesting, started, ingestion>>

\* Its finally block, and the end of the ingestion that waits for it.
Over(l) ==
  /\ loads' = loads \ {l}
  /\ isLoading' = FALSE
  /\ IF l.why = "ingestion" THEN isIngesting' = FALSE /\ ingestion' = "idle"
                            ELSE UNCHANGED <<isIngesting, ingestion>>

\* Each of the five is shown only if it was answered ok.
RestAnswered(l) ==
  /\ l \in loads /\ l.stage = "rest"
  /\ \E statusOk, symbolsOk \in BOOLEAN :
       /\ latestJob' = IF statusOk THEN job ELSE latestJob
       /\ symbols' = IF symbolsOk THEN [from |-> "server", index |-> indexed] ELSE symbols
       /\ troubled' = (troubled \/ ~statusOk \/ ~symbolsOk)
  /\ Over(l)
  /\ UNCHANGED <<job, indexed, repository, started>>

\* Any request that throws replaces most of the page; the job shown stays.
LoadFails(l) ==
  /\ l \in loads
  /\ repository' = "demo" /\ symbols' = DemoSymbols /\ troubled' = TRUE
  /\ Over(l)
  /\ UNCHANGED <<job, indexed, latestJob, started>>

\* The page shows a spinner while it loads, and the button is off while an
\* ingestion is under way.
HandleTriggerIngestion ==
  /\ ~isLoading /\ ~isIngesting /\ job < MaxJobs
  /\ isIngesting' = TRUE /\ ingestion' = "asking"
  /\ UNCHANGED <<job, indexed, shownVars, isLoading, loads, started, troubled>>

\* The server starts the run and answers with it.
TriggerAnswered ==
  /\ ingestion = "asking"
  /\ job' = job + 1 /\ latestJob' = job'
  /\ ingestion' = "timer"
  /\ troubled' = (troubled \/ loads # {})
  /\ UNCHANGED <<indexed, repository, symbols, isLoading, isIngesting, loads, started>>

TriggerRefused ==
  /\ ingestion = "asking"
  /\ ingestion' = "idle" /\ isIngesting' = FALSE
  /\ UNCHANGED <<job, indexed, shownVars, isLoading, loads, started, troubled>>

ReloadTimer ==
  /\ ingestion = "timer"
  /\ Begin("ingestion")
  /\ ingestion' = "reloading"
  /\ UNCHANGED <<job, indexed, shownVars, isIngesting>>

Next ==
  \/ Reload \/ IngestionDone \/ HandleTriggerIngestion \/ TriggerAnswered \/ TriggerRefused \/ ReloadTimer
  \/ \E l \in loads : DetailsAnswered(l) \/ RestAnswered(l) \/ LoadFails(l)

Spec == Init /\ [][Next]_vars

-----------------------------------------------------------------------------
(***************************************************************************)
(* Properties                                                              *)
(***************************************************************************)
\* Types of what is shown, the flags and the loads.
TypeOK ==
  /\ job \in 0 .. MaxJobs /\ indexed \in 0 .. job /\ latestJob \in 0 .. job
  /\ repository \in {"none", "server", "demo"}
  /\ symbols \in [from : {"none", "server", "demo"}, index : 0 .. MaxJobs]
  /\ {isLoading, isIngesting, troubled} \subseteq BOOLEAN
  /\ ingestion \in {"idle", "asking", "timer", "reloading"} /\ started \in 1 .. MaxLoads
  /\ loads \subseteq [n : 1 .. MaxLoads, stage : {"details", "rest"}, why : {"effect", "ingestion"}]

\* However loads and ingestions overlap or fail, the spinner and the button
\* wait only for something that is under way and will free them.
NothingHangs ==
  /\ isLoading => loads # {}
  /\ isIngesting <=> ingestion # "idle"
  /\ ingestion = "reloading" <=> \E l \in loads : l.why = "ingestion"

\* A page at rest shows the repository, the latest ingestion and the symbols
\* of the server, unless something failed, loads have overlapped, or the
\* ingestion ended neither before its reload nor after it had begun.
PageShowsTheIndex ==
  loads = {} /\ ingestion = "idle" /\ ~troubled =>
    /\ repository = "server" /\ latestJob = job
    /\ symbols.from = "server" /\ (indexed = job => symbols.index = indexed)
=============================================================================
