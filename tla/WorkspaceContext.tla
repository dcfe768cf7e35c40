-------------------------- MODULE WorkspaceContext --------------------------
(***************************************************************************)
(* WorkspaceContext of the web application: the list of workspaces and the *)
(* active one, and the workspace page that is open.  A callback keeps the  *)
(* list and the active workspace of the render that made it, and uses them *)
(* after its request is answered.                                          *)
(*                                                                         *)
(* A page loads its workspace with getWorkspace, which is another function *)
(* whenever the list is another array, and loads again whenever            *)
(* getWorkspace is another function.  An answer of getWorkspace makes      *)
(* another array, so a page loads again for as long as the server answers. *)
(***************************************************************************)
EXTENDS Naturals, Sequences, FiniteSets, Functions, Filters

CONSTANTS Workspace,
          SeedList, \* SEED_WORKSPACES, shown when there is no server
          PageKind, \* of "detail", "members", "settings", "repositories", "github"
          MaxLoads, \* bound: loads under way at once
          MaxActs,  \* bound: what the user does
          None

VARIABLES server,          \* the workspaces the server has for this user
          workspaces, activeWorkspace, isLoading,
          calls,           \* requests of the context under way, one of each kind
          page,            \* the workspace page open: its kind and workspace
          pageLoading,     \* isLoading of that page
          loads,           \* loads[s]: one run of a page's load function
          typed,           \* the settings form holds what was not saved
          acts,            \* how much the user did
          raced            \* history: something changed the active workspace between
                           \* a call and what its answer did, or the server has none

ctxVars == <<workspaces, activeWorkspace, isLoading>>
pageVars == <<page, pageLoading, loads, typed>>
vars == <<server, ctxVars, calls, pageVars, acts, raced>>

Slot == 1 .. MaxLoads
Listed == Range(workspaces)

\* The server lists a set of workspaces in some order, always in the same one.
Listing(set) == CHOOSE list \in [1 .. Cardinality(set) -> set] : Range(list) = set

Act == acts < MaxActs /\ acts' = acts + 1

Init ==
  /\ server \in {{}, Range(SeedList)}
  /\ workspaces = <<>> /\ activeWorkspace = None /\ isLoading = TRUE
  /\ calls = [fetch |-> TRUE, create |-> None, update |-> None, delete |-> None]
  /\ page = None /\ pageLoading = FALSE /\ loads = [s \in Slot |-> None] /\ typed = FALSE
  /\ acts = 0 /\ raced = FALSE

-----------------------------------------------------------------------------
\* Starting a load of the open page, beside those under way.
Load(p, list) == [id |-> p.id, kind |-> p.kind, step |-> "workspace", live |-> TRUE,
                  known |-> p.id \in Range(list)]
StartedLoad(from, p, list) ==
  \E s \in Slot : from[s] = None /\ loads' = [from EXCEPT ![s] = Load(p, list)] /\ pageLoading' = TRUE

\* The list is another array: the open page loads again.
ListChanged(from, list) ==
  /\ workspaces' = list
  /\ IF page = None THEN loads' = from /\ UNCHANGED pageLoading ELSE StartedLoad(from, page, list)
  /\ UNCHANGED page

FetchWorkspaces ==
  /\ Act
  /\ ~calls.fetch
  /\ calls' = [calls EXCEPT !.fetch = TRUE] /\ isLoading' = TRUE
  /\ UNCHANGED <<server, workspaces, activeWorkspace, pageVars, raced>>

\* The server's list; of an empty one the active workspace is no part.
Fetched ==
  /\ calls.fetch
  /\ ListChanged(loads, Listing(server))
  /\ activeWorkspace' = IF server = {} \/ activeWorkspace \in server THEN activeWorkspace
                        ELSE Listing(server)[1]
  /\ raced' = (raced \/ (server = {} /\ activeWorkspace # None))
  /\ calls' = [calls EXCEPT !.fetch = FALSE] /\ isLoading' = FALSE
  /\ UNCHANGED <<server, typed, acts>>

\* A refusal or no server: what there was, or the seeds.
FetchFailed ==
  /\ calls.fetch
  /\ IF workspaces = <<>> THEN ListChanged(loads, SeedList) ELSE UNCHANGED <<workspaces, page, pageLoading, loads>>
  /\ activeWorkspace' = IF activeWorkspace = None THEN SeedList[1] ELSE activeWorkspace
  /\ raced' = (raced \/ activeWorkspace' \notin Range(workspaces'))
  /\ calls' = [calls EXCEPT !.fetch = FALSE] /\ isLoading' = FALSE
  /\ UNCHANGED <<server, typed, acts>>

SelectWorkspace(w) ==
  /\ Act
  /\ w \in Listed
  /\ activeWorkspace' = w
  /\ UNCHANGED <<server, workspaces, isLoading, calls, pageVars, raced>>

CreateWorkspace(w) ==
  /\ Act
  /\ calls.create = None /\ w \notin Listed \cup server \cup Range(SeedList)
  /\ calls' = [calls EXCEPT !.create = w] /\ isLoading' = TRUE
  /\ UNCHANGED <<server, workspaces, activeWorkspace, pageVars, raced>>

\* The server has created or deleted it; its answer is still to come.
ServerCreates ==
  /\ calls.create # None /\ calls.create \notin server
  /\ server' = server \cup {calls.create}
  /\ UNCHANGED <<ctxVars, calls, pageVars, acts, raced>>

ServerDeletes ==
  /\ calls.delete # None /\ calls.delete.id \in server
  /\ server' = server \ {calls.delete.id}
  /\ UNCHANGED <<ctxVars, calls, pageVars, acts, raced>>

\* The answer or, when there is none, a workspace made up.  A list fetched
\* since the server created it has it already, and then has it twice.
Created ==
  /\ calls.create # None
  /\ ListChanged(loads, <<calls.create>> \o workspaces)
  /\ activeWorkspace' = calls.create
  /\ calls' = [calls EXCEPT !.create = None] /\ isLoading' = FALSE
  /\ UNCHANGED <<server, typed, acts, raced>>

\* The settings page, once it has loaded.
OnSettings == page # None /\ page.kind = "settings" /\ ~pageLoading
Closure == [id |-> page.id, wasActive |-> activeWorkspace = page.id]
Differs(c) == c.wasActive # (activeWorkspace = c.id)

HandleSave ==
  /\ Act
  /\ OnSettings /\ calls.update = None
  /\ calls' = [calls EXCEPT !.update = Closure]
  /\ UNCHANGED <<server, ctxVars, pageVars, raced>>

\* Saved or, when that fails, changed here only: the list is mapped anyway,
\* and what was active at the click is made active again.
UpdateWorkspace ==
  /\ calls.update # None
  /\ ListChanged(loads, workspaces)
  /\ \/ activeWorkspace' = IF calls.update.wasActive THEN calls.update.id ELSE activeWorkspace
     \/ activeWorkspace' = IF calls.update.wasActive /\ calls.update.id \in Listed
                           THEN calls.update.id ELSE activeWorkspace
  /\ raced' = (raced \/ Differs(calls.update))
  /\ calls' = [calls EXCEPT !.update = None]
  /\ UNCHANGED <<server, isLoading, typed, acts>>

HandleDelete ==
  /\ Act
  /\ OnSettings /\ calls.delete = None
  /\ calls' = [calls EXCEPT !.delete = Closure]
  /\ UNCHANGED <<server, ctxVars, pageVars, raced>>

Closed(from) == [s \in Slot |-> IF from[s] = None THEN None ELSE [from[s] EXCEPT !.live = FALSE]]

Without(w) == Kept(workspaces, {i \in DOMAIN workspaces : workspaces[i] # w})

\* Fault variant of Removed: the active workspace is left as it is.
RemovedOnly(c) ==
  /\ workspaces' = Without(c.id)
  /\ UNCHANGED activeWorkspace

Removed(c) ==
  /\ workspaces' = Without(c.id)
  /\ activeWorkspace' = IF ~c.wasActive THEN activeWorkspace
                        ELSE IF workspaces' = <<>> THEN None ELSE workspaces'[1]

\* Deleted by the server or refused by it: it is gone from the list, and the
\* page goes to the list of workspaces.
DeleteWorkspace ==
  /\ calls.delete # None
  /\ Removed(calls.delete)
  /\ raced' = (raced \/ Differs(calls.delete))
  /\ page' = None /\ pageLoading' = FALSE /\ loads' = Closed(loads) /\ typed' = FALSE
  /\ calls' = [calls EXCEPT !.delete = None]
  /\ UNCHANGED <<server, isLoading, acts>>

-----------------------------------------------------------------------------
OpenPage(kind, w) ==
  /\ Act
  /\ page' = [kind |-> kind, id |-> w] /\ typed' = FALSE
  /\ StartedLoad(Closed(loads), page', workspaces)
  /\ UNCHANGED <<server, ctxVars, calls, raced>>

EditForm ==
  /\ Act
  /\ OnSettings
  /\ typed' = TRUE
  /\ UNCHANGED <<server, ctxVars, calls, page, pageLoading, loads, raced>>

\* A load of the page that is open is over; what it does to the form.
LoadOver(s, from, overwrites) ==
  /\ loads' = [from EXCEPT ![s] = None]
  /\ pageLoading' = IF from[s].live THEN FALSE ELSE pageLoading
  /\ typed' = IF from[s].live /\ overwrites THEN FALSE ELSE typed

\* getWorkspace is answered: the workspace is put in the list, which has the
\* open page load again beside what this load goes on with.  The load of a
\* detail page makes it the active one, even after the page was left.
GotWorkspace(s) ==
  /\ loads[s] # None /\ loads[s].step = "workspace" /\ loads[s].id \in server
  /\ ListChanged([loads EXCEPT ![s].step = "rest"],
                 IF loads[s].id \in Listed THEN workspaces ELSE Append(workspaces, loads[s].id))
  /\ activeWorkspace' = IF loads[s].kind = "detail" THEN loads[s].id ELSE activeWorkspace
  /\ UNCHANGED <<server, isLoading, calls, typed, acts, raced>>

\* It is refused or not answered: the workspace of the list the callback
\* knows, and nothing changes; or none, and the load is over.
GotLocal(s) ==
  /\ loads[s] # None /\ loads[s].step = "workspace"
  /\ IF loads[s].known
     THEN /\ loads' = [loads EXCEPT ![s].step = "rest"]
          /\ activeWorkspace' = IF loads[s].kind = "detail" /\ loads[s].id \in Listed
                                THEN loads[s].id ELSE activeWorkspace
          /\ UNCHANGED <<pageLoading, typed>>
     ELSE LoadOver(s, loads, FALSE) /\ UNCHANGED activeWorkspace
  /\ UNCHANGED <<server, workspaces, isLoading, calls, page, acts, raced>>

\* Members, invitations, repositories: whatever else the page asks for.  The
\* settings page fills its form in.
LoadRest(s) ==
  /\ loads[s] # None /\ loads[s].step = "rest"
  /\ LoadOver(s, loads, loads[s].kind = "settings")
  /\ UNCHANGED <<server, ctxVars, calls, page, acts, raced>>

Next ==
  \/ FetchWorkspaces \/ Fetched \/ FetchFailed \/ Created \/ ServerCreates \/ ServerDeletes
  \/ \E w \in Workspace : SelectWorkspace(w) \/ CreateWorkspace(w) \/ \E kind \in PageKind : OpenPage(kind, w)
  \/ HandleSave \/ UpdateWorkspace \/ HandleDelete \/ DeleteWorkspace \/ EditForm
  \/ \E s \in Slot : GotWorkspace(s) \/ GotLocal(s) \/ LoadRest(s)

Spec == Init /\ [][Next]_vars

-----------------------------------------------------------------------------
(***************************************************************************)
(* Properties                                                              *)
(***************************************************************************)
Call == [id : Workspace, wasActive : BOOLEAN]
Page == [kind : PageKind, id : Workspace]
Run == [id : Workspace, kind : PageKind, step : {"workspace", "rest"}, live : BOOLEAN, known : BOOLEAN]

\* Types of the server's workspaces, the list, the requests and the page.
TypeOK ==
  /\ server \subseteq Workspace /\ Listed \subseteq Workspace
  /\ activeWorkspace \in Workspace \cup {None} /\ isLoading \in BOOLEAN
  /\ calls \in [fetch : BOOLEAN, create : Workspace \cup {None}, update : Call \cup {None}, delete : Call \cup {None}]
  /\ page \in Page \cup {None} /\ pageLoading \in BOOLEAN
  /\ loads \in [Slot -> Run \cup {None}]
  /\ typed \in BOOLEAN /\ acts \in 0 .. MaxActs /\ raced \in BOOLEAN

\* However loads and requests overlap: the context is loading only while a
\* request of it is under way, and a page only while a load of it is.
NothingHangs ==
  /\ isLoading => calls.fetch \/ calls.create # None
  /\ pageLoading => \E s \in Slot : loads[s] # None /\ loads[s].live

\* The active workspace is one of the list, over any sequence of loads,
\* creations and deletions, unless the active workspace changed between a
\* call and its answer, or the server has no workspace.
ActiveIsListed == raced \/ activeWorkspace = None \/ activeWorkspace \in Listed
=============================================================================
