--------------------------- MODULE RepositoryPages --------------------------
(***************************************************************************)
(* The two pages of the web application that connect repositories to a     *)
(* workspace, one of which is open: the list of the connected ones, which  *)
(* disconnects and syncs, and the GitHub page, which connects.  Either has *)
(* one field for the row it is busy with, whatever number of rows it is    *)
(* busy with; and either shows two repositories when the server is away.   *)
(***************************************************************************)
EXTENDS Naturals, FiniteSets

CONSTANTS Repo,
          Demo,     \* the repositories shown as connected without a server
          MaxCalls, \* bound: requests and syncs of one behaviour
          None

VARIABLES connectedTo,  \* the server's: repositories of the workspace
          open,         \* "repositories" or "github"
          shown,        \* repositories the page shows as connected
          isLoading,
          busyId,       \* disconnectingId, connectingRepoId
          syncingId, syncing, \* the field, and the pending sync timers of every row
          calls, sent,  \* requests under way, numbered; how many there were
          demo,         \* history: an answer was made up, lost, or kept nothing
          overlapped    \* history: a request was sent while another one was under
                        \* way that its answer could contradict

pageVars == <<open, shown, isLoading, busyId, syncingId, syncing>>
vars == <<connectedTo, pageVars, calls, sent, demo, overlapped>>

Request(kind, repo) == [n |-> sent + 1, kind |-> kind, repo |-> repo, state |-> "sent", found |-> {}]

Init ==
  /\ connectedTo \in SUBSET Repo
  /\ open \in {"repositories", "github"} /\ shown = {} /\ isLoading = TRUE
  /\ busyId = None /\ syncingId = None /\ syncing = [r \in Repo |-> 0]
  /\ calls = {[n |-> 1, kind |-> "load", repo |-> None, state |-> "sent", found |-> {}]} /\ sent = 1
  /\ demo = FALSE /\ overlapped = FALSE

-----------------------------------------------------------------------------
Contradict(c, d) == "load" \in {c.kind, d.kind} \/ c.repo = d.repo

SendCall(kind, repo) ==
  /\ sent < MaxCalls /\ sent' = sent + 1
  /\ calls' = calls \cup {Request(kind, repo)}
  /\ overlapped' = (overlapped \/ \E c \in calls : Contradict(c, Request(kind, repo)))

\* Loads again whenever getWorkspace changes.
LoadData ==
  /\ SendCall("load", None)
  /\ isLoading' = TRUE
  /\ UNCHANGED <<connectedTo, open, shown, busyId, syncingId, syncing, demo>>

\* A button is off while its own row is the one in the field.
HandleDisconnect(r) ==
  /\ open = "repositories" /\ ~isLoading /\ r \in shown /\ busyId # r
  /\ SendCall("disconnect", r)
  /\ busyId' = r
  /\ UNCHANGED <<connectedTo, open, shown, isLoading, syncingId, syncing, demo>>

HandleConnectRepo(r) ==
  /\ open = "github" /\ ~isLoading /\ r \notin shown /\ busyId # r
  /\ SendCall("connect", r)
  /\ busyId' = r
  /\ UNCHANGED <<connectedTo, open, shown, isLoading, syncingId, syncing, demo>>

\* The address, the callback, and a load once both are answered.
HandleConnectOAuth ==
  /\ open = "github" /\ ~isLoading
  /\ SendCall("load", None)
  /\ isLoading' = TRUE
  /\ UNCHANGED <<connectedTo, open, shown, busyId, syncingId, syncing, demo>>

\* A sync asks nobody: it waits and says that the index is up to date.
HandleSync(r) ==
  /\ open = "repositories" /\ ~isLoading /\ r \in shown /\ syncingId # r /\ sent < MaxCalls
  /\ sent' = sent + 1
  /\ syncingId' = r /\ syncing' = [syncing EXCEPT ![r] = @ + 1]
  /\ UNCHANGED <<connectedTo, open, shown, isLoading, busyId, calls, demo, overlapped>>

SyncTimer(r) ==
  /\ syncing[r] > 0
  /\ syncing' = [syncing EXCEPT ![r] = @ - 1] /\ syncingId' = None
  /\ UNCHANGED <<connectedTo, open, shown, isLoading, busyId, calls, sent, demo, overlapped>>

-----------------------------------------------------------------------------
Becomes(c, fields) == calls' = (calls \ {c}) \cup {fields}

\* The server refuses what is connected, or not connected, already.
Handle(c) ==
  /\ c.state = "sent"
  /\ \/ c.kind = "load" /\ Becomes(c, [c EXCEPT !.state = "done", !.found = connectedTo]) /\ UNCHANGED connectedTo
     \/ /\ c.kind = "connect" /\ c.repo \notin connectedTo
        /\ connectedTo' = connectedTo \cup {c.repo} /\ Becomes(c, [c EXCEPT !.state = "done"])
     \/ /\ c.kind = "disconnect" /\ c.repo \in connectedTo
        /\ connectedTo' = connectedTo \ {c.repo} /\ Becomes(c, [c EXCEPT !.state = "done"])
  /\ UNCHANGED <<pageVars, sent, demo, overlapped>>

Refuse(c) ==
  /\ c.state = "sent"
  /\ Becomes(c, [c EXCEPT !.state = "refused"])
  /\ UNCHANGED <<connectedTo, pageVars, sent, demo, overlapped>>

LoseAnswer(c) ==
  /\ c.state = "done" /\ c.kind # "load"
  /\ Becomes(c, [c EXCEPT !.state = "refused"])
  /\ demo' = TRUE
  /\ UNCHANGED <<connectedTo, pageVars, sent, overlapped>>

Answered(c) == c.state # "sent" /\ calls' = calls \ {c}

\* The GitHub page keeps what it has when it is refused; without a server
\* both make two up.
LoadAnswered(c) ==
  /\ c.kind = "load" /\ Answered(c)
  /\ \/ c.state = "done" /\ shown' = c.found
     \/ c.state = "refused" /\ open = "github" /\ UNCHANGED shown
     \/ c.state = "refused" /\ shown' = Demo
  /\ demo' = (c.state = "refused") /\ isLoading' = FALSE
  /\ UNCHANGED <<connectedTo, open, busyId, syncingId, syncing, sent, overlapped>>

\* Fault variant of Shown: the row follows the button and not the answer.
ShownAnyway(c) == IF c.kind = "connect" THEN shown \cup {c.repo} ELSE shown \ {c.repo}

Shown(c) ==
  IF c.state # "done" THEN shown
  ELSE IF c.kind = "connect" THEN shown \cup {c.repo} ELSE shown \ {c.repo}

\* The finally block frees the field, whichever row is in it by now.
ChangeAnswered(c) ==
  /\ c.kind \in {"connect", "disconnect"} /\ Answered(c)
  /\ shown' = Shown(c)
  /\ busyId' = None
  /\ UNCHANGED <<connectedTo, open, isLoading, syncingId, syncing, sent, demo, overlapped>>

Next ==
  \/ LoadData \/ HandleConnectOAuth
  \/ \E r \in Repo : HandleDisconnect(r) \/ HandleConnectRepo(r) \/ HandleSync(r) \/ SyncTimer(r)
  \/ \E c \in calls : Handle(c) \/ Refuse(c) \/ LoseAnswer(c) \/ LoadAnswered(c) \/ ChangeAnswered(c)

Spec == Init /\ [][Next]_vars

-----------------------------------------------------------------------------
(***************************************************************************)
(* Properties                                                              *)
(***************************************************************************)
\* Types of what the server and the page have.
TypeOK ==
  /\ connectedTo \subseteq Repo /\ shown \subseteq Repo /\ open \in {"repositories", "github"}
  /\ {isLoading, demo, overlapped} \subseteq BOOLEAN
  /\ busyId \in Repo \cup {None} /\ syncingId \in Repo \cup {None}
  /\ syncing \in [Repo -> 0 .. MaxCalls] /\ sent \in 0 .. MaxCalls
  /\ \A c \in calls : c.kind \in {"load", "connect", "disconnect"} /\ c.repo \in Repo \cup {None}

\* A row the page is said to be busy with has a request, or a sync, of its
\* own under way.
NothingHangs ==
  /\ isLoading => \E c \in calls : c.kind = "load"
  /\ busyId # None => \E c \in calls : c.repo = busyId
  /\ syncingId # None => syncing[syncingId] > 0

\* When nothing is under way the page shows what the server has, unless it
\* was made up or requests overlapped whose answers may have overtaken each
\* other.
PageShowsTheServer == calls = {} /\ ~demo /\ ~overlapped => shown = connectedTo
=============================================================================
