------------------------------- MODULE GitHub -------------------------------
(***************************************************************************)
(* GitHubService with GitHubRepository: the accounts a workspace has       *)
(* connected, the repositories it has connected, and the webhooks that     *)
(* GitHub delivers.  A service call that looks something up and writes     *)
(* later is two actions; Ingestion adds the runs that work on the same     *)
(* rows and gives the next-state relation.                                 *)
(***************************************************************************)
EXTENDS Naturals, SequencesExt

CONSTANTS Workspace, User,
          RoleOf,   \* RoleOf[w][u]: role in the workspace, None for no member
          Remote,   \* repositories of GitHub, by full name
          RepoId,   \* ids of rows
          SeedRows, \* rows that exist from the start, in order
          Caller,   \* service calls that may be under way at once
          Payload,  \* Payload[d]: event and remote of the delivery d
          None,
          Quotas    \* bounds: GitHub requests and triggers of one behaviour

ASSUME QuotaAssumption == Quotas \subseteq [requests : Nat, triggers : Nat]

Delivery == DOMAIN Payload

Row == [id : RepoId, workspace : Workspace, remote : Remote,
        indexStatus : {"pending", "indexing", "indexed", "failed"}]

\* Rows with an id each, which updateRepository relies on.
InOrder(rows) ==
  /\ rows \in Seq(Row)
  /\ \A i, k \in DOMAIN rows : rows[i].id = rows[k].id => i = k

ASSUME SeedAssumption == InOrder(SeedRows)

Request == [kind : {"connect"}, workspace : Workspace, remote : Remote]
             \cup [kind : {"webhook"}, delivery : Delivery, target : RepoId \cup {None}]

VARIABLES repositories,  \* rows in the order they were created
          installations, \* installations[w]: who connected GitHub, None
          deliveries,    \* ids of the webhook deliveries recorded
          call,          \* call[c]: what a call has looked up, None when idle
          issued,        \* history: row ids given out
          effects,       \* history: effects[d], times d has been processed
          raced,         \* history: deliveries processed by two calls at once
          unattended,    \* history: rows set to 'indexing' with no run to index them
          quota          \* requests and triggers still to come

hubVars == <<repositories, installations, deliveries, call, issued, effects, raced, unattended, quota>>

Rows == Range(repositories)
RowIds == {row.id : row \in Rows}
RowOf(r) == CHOOSE row \in Rows : row.id = r

IsIndexing(r) == r \in RowIds /\ RowOf(r).indexStatus = "indexing"

HubInit ==
  /\ repositories = SeedRows
  /\ installations = [w \in Workspace |-> None]
  /\ deliveries = {}
  /\ call = [c \in Caller |-> None]
  /\ issued = RowIds
  /\ effects = [d \in Delivery |-> 0]
  /\ raced = {}
  /\ unattended = {r \in RowIds : IsIndexing(r)}
  /\ quota \in Quotas

\* Fault variant of UpdateRepository: a row that is gone is stored again.
UpsertRepository(rows, r, status) ==
  LET given == [workspace |-> CHOOSE w \in Workspace : TRUE, remote |-> CHOOSE g \in Remote : TRUE]
  IN IF r # None /\ \A i \in DOMAIN rows : rows[i].id # r
     THEN Append(rows, [id |-> r, workspace |-> given.workspace, remote |-> given.remote, indexStatus |-> status])
     ELSE [i \in DOMAIN rows |-> IF rows[i].id = r THEN [rows[i] EXCEPT !.indexStatus = status] ELSE rows[i]]

\* updateRepository of an index status: nothing for a row that is gone.
UpdateRepository(rows, r, status) ==
  [i \in DOMAIN rows |-> IF rows[i].id = r THEN [rows[i] EXCEPT !.indexStatus = status]
                         ELSE rows[i]]

Spend(kind) == quota[kind] > 0 /\ quota' = [quota EXCEPT ![kind] = @ - 1]

Begin(c, request) == call[c] = None /\ call' = [call EXCEPT ![c] = request]
End(c) == call' = [call EXCEPT ![c] = None]

IsMember(w, u) == RoleOf[w][u] # None

\* The OAuth exchange falls back to a made-up token when GitHub does not
\* answer, so it never fails; a second connection replaces the first.
HandleOAuthCallback(w, u) ==
  /\ IsMember(w, u) /\ Spend("requests")
  /\ installations' = [installations EXCEPT ![w] = u]
  /\ UNCHANGED <<repositories, deliveries, call, issued, effects, raced, unattended>>

-----------------------------------------------------------------------------
(***************************************************************************)
(* Connecting and disconnecting                                            *)
(***************************************************************************)
\* connectRepository up to its look-up: a repository already connected is
\* refused.
FindExisting(c, w, u, g) ==
  /\ IsMember(w, u) /\ RoleOf[w][u] # "VIEWER" /\ Spend("requests")
  /\ ~\E row \in Rows : row.workspace = w /\ row.remote = g
  /\ Begin(c, [kind |-> "connect", workspace |-> w, remote |-> g])
  /\ UNCHANGED <<repositories, installations, deliveries, issued, effects, raced, unattended>>

\* Fault variant of CreateRepository: the id is made from the repository's name.
CreateRepositoryNamed(c) ==
  /\ call[c] # None /\ call[c].kind = "connect"
  /\ LET named == {row.id : row \in {x \in Rows : x.remote = call[c].remote}} IN
     \E r \in IF named = {} THEN RepoId \ issued ELSE named :
       /\ repositories' = Append(repositories,
            [id |-> r, workspace |-> call[c].workspace, remote |-> call[c].remote,
             indexStatus |-> "pending"])
       /\ issued' = issued \cup {r}
  /\ End(c)
  /\ UNCHANGED <<installations, deliveries, effects, raced, unattended, quota>>

CreateRepository(c) ==
  /\ call[c] # None /\ call[c].kind = "connect"
  /\ \E r \in RepoId \ issued :
       /\ repositories' = Append(repositories,
            [id |-> r, workspace |-> call[c].workspace, remote |-> call[c].remote,
             indexStatus |-> "pending"])
       /\ issued' = issued \cup {r}
  /\ End(c)
  /\ UNCHANGED <<installations, deliveries, effects, raced, unattended, quota>>

\* Files, chunks and ingestion jobs of the repository are left where they are.
DisconnectRepository(w, u, r) ==
  /\ IsMember(w, u) /\ RoleOf[w][u] = "ADMIN" /\ Spend("requests")
  /\ \E i \in DOMAIN repositories :
       /\ repositories[i].id = r /\ repositories[i].workspace = w
       /\ repositories' = RemoveAt(repositories, i)
  /\ UNCHANGED <<installations, deliveries, call, issued, effects, raced, unattended>>

-----------------------------------------------------------------------------
(***************************************************************************)
(* Webhooks                                                                *)
(***************************************************************************)
\* findRepositoryByFullName: the oldest row, whatever workspace it is of.
FindByFullName(g) ==
  LET named == {i \in DOMAIN repositories : repositories[i].remote = g}
  IN IF named = {} THEN None ELSE repositories[Min(named)].id

\* Fault variant of FindDelivery: deliveries recorded before are not looked up.
FindAnyDelivery(c, d) ==
  /\ Spend("requests")
  /\ Begin(c, [kind |-> "webhook", delivery |-> d, target |-> FindByFullName(Payload[d].remote)])
  /\ raced' = IF \E b \in Caller : call[b] # None /\ call[b].kind = "webhook" /\ call[b].delivery = d
              THEN raced \cup {d} ELSE raced
  /\ UNCHANGED <<repositories, installations, deliveries, issued, effects, unattended>>

\* processWebhook up to its look-ups.  GitHub delivers when it likes and
\* repeats deliveries; the guard has checked the signature.
FindDelivery(c, d) ==
  /\ d \notin deliveries /\ Spend("requests")
  /\ Begin(c, [kind |-> "webhook", delivery |-> d, target |-> FindByFullName(Payload[d].remote)])
  /\ raced' = IF \E b \in Caller : call[b] # None /\ call[b].kind = "webhook" /\ call[b].delivery = d
              THEN raced \cup {d} ELSE raced
  /\ UNCHANGED <<repositories, installations, deliveries, issued, effects, unattended>>

\* A push marks the row for indexing; nothing starts a run for it.
ProcessWebhook(c) ==
  /\ call[c] # None /\ call[c].kind = "webhook"
  /\ LET d == call[c].delivery
         r == call[c].target
     IN /\ IF Payload[d].event = "push"
           THEN /\ repositories' = UpdateRepository(repositories, r, "indexing")
                /\ unattended' = unattended \cup (RowIds \cap {r})
           ELSE UNCHANGED <<repositories, unattended>>
        /\ deliveries' = deliveries \cup {d}
        /\ effects' = [effects EXCEPT ![d] = @ + 1]
  /\ End(c)
  /\ UNCHANGED <<installations, issued, raced, quota>>

GitHubStep ==
  \/ \E w \in Workspace, u \in User : HandleOAuthCallback(w, u)
  \/ \E w \in Workspace, u \in User, r \in RepoId : DisconnectRepository(w, u, r)
  \/ \E c \in Caller : CreateRepository(c) \/ ProcessWebhook(c)
  \/ \E c \in Caller, w \in Workspace, u \in User, g \in Remote : FindExisting(c, w, u, g)
  \/ \E c \in Caller, d \in Delivery : FindDelivery(c, d)

HubTypeOK ==
  /\ InOrder(repositories)
  /\ installations \in [Workspace -> User \cup {None}]
  /\ deliveries \subseteq Delivery /\ raced \subseteq Delivery
  /\ call \in [Caller -> Request \cup {None}]
  /\ RowIds \subseteq issued /\ issued \subseteq RepoId /\ unattended \subseteq issued
  /\ effects \in [Delivery -> Nat]
  /\ quota \in [requests : Nat, triggers : Nat]
=============================================================================
