--------------------------- MODULE IngestionProofs ---------------------------
(***************************************************************************)
(* The invariants of Ingestion for any repositories, listings, runs and    *)
(* webhook deliveries.                                                     *)
(***************************************************************************)
EXTENDS Ingestion, SequenceTheorems, WellFoundedInduction, TLAPS

IdsOf(rows) == {row.id : row \in Range(rows)}

\* An update of a status keeps the ids, and every other row.
LEMMA UpdateKeeps ==
  ASSUME NEW rows, InOrder(rows), NEW r,
         NEW status \in {"pending", "indexing", "indexed", "failed"}
  PROVE  LET new == UpdateRepository(rows, r, status) IN
         /\ InOrder(new) /\ DOMAIN new = DOMAIN rows /\ IdsOf(new) = IdsOf(rows)
         /\ \A i \in DOMAIN rows :
              new[i].id = rows[i].id /\ (rows[i].id # r => new[i] = rows[i])
              /\ (rows[i].id = r => new[i].indexStatus = status)
<1> DEFINE new == UpdateRepository(rows, r, status)
<1>1. rows \in [1..Len(rows) -> Row] /\ Len(rows) \in Nat /\ DOMAIN rows = 1..Len(rows)
  BY LenProperties DEF InOrder
<1>2. DOMAIN new = DOMAIN rows
  BY DEF UpdateRepository
<1>3. ASSUME NEW i \in DOMAIN rows
      PROVE  /\ new[i] \in Row /\ new[i].id = rows[i].id
             /\ rows[i].id # r => new[i] = rows[i]
             /\ rows[i].id = r => new[i].indexStatus = status
  <2>1. rows[i] \in Row /\ new[i] = IF rows[i].id = r THEN [rows[i] EXCEPT !.indexStatus = status] ELSE rows[i]
    BY <1>1 DEF UpdateRepository
  <2>2. QED
    BY <2>1 DEF Row
<1> HIDE DEF new
<1>4. new \in [1..Len(rows) -> Row]
  <2>1. new = [i \in DOMAIN rows |-> new[i]]
    BY <1>2 DEF new, UpdateRepository
  <2>2. QED
    BY <1>1, <1>3, <2>1
<1>5. new \in Seq(Row)
  BY <1>1, <1>4 
<1>6. IdsOf(new) = IdsOf(rows)
  BY <1>2, <1>3 DEF IdsOf, Range
<1>7. InOrder(new)
  BY <1>2, <1>3, <1>5 DEF InOrder
<1>8. QED
  BY <1>2, <1>3, <1>6, <1>7 DEF new

\* A row taken out leaves the others, in their order.
LEMMA RemoveKeeps ==
  ASSUME NEW rows, InOrder(rows), NEW i \in DOMAIN rows
  PROVE  /\ InOrder(RemoveAt(rows, i))
         /\ IdsOf(RemoveAt(rows, i)) = IdsOf(rows) \ {rows[i].id}
         /\ Range(RemoveAt(rows, i)) \subseteq Range(rows)
<1> DEFINE new == RemoveAt(rows, i)
           from(k) == IF k < i THEN k ELSE k + 1
<1>1. rows \in Seq(Row) /\ Len(rows) \in Nat /\ DOMAIN rows = 1..Len(rows) /\ i \in 1..Len(rows)
  BY LenProperties DEF InOrder
<1>2. /\ SubSeq(rows, 1, i - 1) \in Seq(Row) /\ Len(SubSeq(rows, 1, i - 1)) = i - 1
      /\ \A k \in 1..i - 1 : SubSeq(rows, 1, i - 1)[k] = rows[k]
  <2>1. \A k \in 1..i - 1 : rows[k] \in Row
    BY <1>1, ElementOfSeq
  <2>2. QED
    BY <1>1, <2>1, SubSeqProperties
<1>3. /\ SubSeq(rows, i + 1, Len(rows)) \in Seq(Row) /\ Len(SubSeq(rows, i + 1, Len(rows))) = Len(rows) - i
      /\ \A k \in 1..Len(rows) - i : SubSeq(rows, i + 1, Len(rows))[k] = rows[k + i]
  <2>1. \A k \in i + 1..Len(rows) : rows[k] \in Row
    BY <1>1, ElementOfSeq
  <2>2. QED
    BY <1>1, <2>1, SubSeqProperties
<1>4. /\ new \in Seq(Row) /\ Len(new) = Len(rows) - 1
      /\ \A k \in 1..Len(new) : new[k] = rows[from(k)]
  <2> DEFINE a == SubSeq(rows, 1, i - 1)
             b == SubSeq(rows, i + 1, Len(rows))
  <2>1. new = a \o b
    BY DEF RemoveAt
  <2> HIDE DEF a, b, new
  <2>2. a \in Seq(Row) /\ b \in Seq(Row) /\ Len(a) = i - 1 /\ Len(b) = Len(rows) - i
    BY <1>2, <1>3 DEF a, b
  <2>3. new \in Seq(Row) /\ Len(new) = Len(rows) - 1
    <3>1. a \o b \in Seq(Row) /\ Len(a \o b) = Len(a) + Len(b)
      BY <2>2, ConcatProperties
    <3>2. QED
      BY <1>1, <2>1, <2>2, <3>1
  <2>4. \A k \in 1..Len(new) : new[k] = IF k <= Len(a) THEN a[k] ELSE b[k - Len(a)]
    <3>1. \A k \in 1..Len(a) + Len(b) : (a \o b)[k] = IF k <= Len(a) THEN a[k] ELSE b[k - Len(a)]
      BY <2>2, SMTT(60)
    <3>2. Len(new) = Len(a) + Len(b)
      BY <1>1, <2>2, <2>3
    <3>3. QED
      BY <2>1, <3>1, <3>2
  <2>5. ASSUME NEW k \in 1..Len(new) PROVE new[k] = rows[from(k)]
    <3>1. CASE k < i
      BY <1>1, <1>2, <2>2, <2>3, <2>4, <3>1 DEF a
    <3>2. CASE ~(k < i)
      <4>1. k - Len(a) \in 1..Len(b) /\ b[k - Len(a)] = rows[k - Len(a) + i] /\ k - Len(a) + i = k + 1
        <5>1. k \in Nat /\ i \in Nat /\ k - Len(a) = k - i + 1 /\ k - i + 1 \in 1..Len(rows) - i
          BY <1>1, <2>2, <2>3, <3>2
        <5>2. b[k - i + 1] = rows[k - i + 1 + i]
          BY <1>3, <5>1 DEF b
        <5>3. QED
          BY <2>2, <5>1, <5>2
      <4>2. QED
        BY <1>1, <2>2, <2>3, <2>4, <3>2, <4>1
    <3>3. QED
      BY <3>1, <3>2
  <2>6. QED
    BY <2>3, <2>5
<1>5. DOMAIN new = 1..Len(new)
  BY <1>4, LenProperties
<1> HIDE DEF new
<1>6. \A k \in DOMAIN new : from(k) \in DOMAIN rows \ {i}
  BY <1>1, <1>4, <1>5
<1>7. \A m \in DOMAIN rows \ {i} : \E k \in DOMAIN new : from(k) = m
  <2>1. ASSUME NEW m \in DOMAIN rows \ {i} PROVE \E k \in DOMAIN new : from(k) = m
    <3> DEFINE k == IF m < i THEN m ELSE m - 1
    <3>1. k \in DOMAIN new /\ from(k) = m
      BY <1>1, <1>4, <1>5
    <3>2. QED
      BY <3>1
  <2>2. QED
    BY <2>1
<1>8. InOrder(new)
  BY <1>1, <1>4, <1>5, <1>6 DEF InOrder
<1>9. IdsOf(new) = IdsOf(rows) \ {rows[i].id} /\ Range(new) \subseteq Range(rows)
  <2>1. Range(new) \subseteq Range(rows)
    BY <1>4, <1>5, <1>6 DEF Range
  <2>2. \A k \in DOMAIN new : new[k].id \in IdsOf(rows) \ {rows[i].id}
    BY <1>4, <1>5, <1>6 DEF IdsOf, Range, InOrder
  <2>3. \A m \in DOMAIN rows \ {i} : rows[m].id \in IdsOf(new)
    BY <1>4, <1>5, <1>7 DEF IdsOf, Range
  <2>4. IdsOf(new) = {new[k].id : k \in DOMAIN new} /\ IdsOf(rows) = {rows[m].id : m \in DOMAIN rows}
    BY DEF IdsOf, Range
  <2>5. QED
    BY <2>1, <2>2, <2>3, <2>4
<1>10. QED
  BY <1>8, <1>9 DEF new

\* A row is added with an id that is not in use.
LEMMA AppendKeeps ==
  ASSUME NEW rows, InOrder(rows), NEW row \in Row, row.id \notin IdsOf(rows)
  PROVE  /\ InOrder(Append(rows, row))
         /\ IdsOf(Append(rows, row)) = IdsOf(rows) \cup {row.id}
         /\ Range(Append(rows, row)) = Range(rows) \cup {row}
<1> DEFINE new == Append(rows, row)
<1>1. rows \in Seq(Row) /\ Len(rows) \in Nat /\ DOMAIN rows = 1..Len(rows)
  BY LenProperties DEF InOrder
<1>2. /\ new \in Seq(Row) /\ Len(new) = Len(rows) + 1 /\ DOMAIN new = 1..Len(rows) + 1
      /\ \A k \in 1..Len(rows) : new[k] = rows[k]
      /\ new[Len(rows) + 1] = row
  BY <1>1, AppendProperties, LenProperties
<1> HIDE DEF new
<1>3. Range(new) = Range(rows) \cup {row}
  BY <1>1, <1>2 DEF Range
<1>4. IdsOf(new) = IdsOf(rows) \cup {row.id}
  BY <1>3 DEF IdsOf
<1>5. \A k \in DOMAIN rows : rows[k].id # row.id
  BY DEF IdsOf, Range
<1>6. InOrder(new)
  BY <1>1, <1>2, <1>5 DEF InOrder
<1>7. QED
  BY <1>3, <1>4, <1>6 DEF new

\* The first of some positions is one of them.
LEMMA MinOfNats ==
  ASSUME NEW S, S \subseteq Nat, S # {}
  PROVE  Min(S) \in S
<1>1. PICK x \in S : \A y \in S : <<y, x>> \notin OpToRel(<, Nat)
  BY WFMin, NatLessThanWellFounded, Zenon
<1>2. \A y \in S : ~(y < x)
  BY <1>1 DEF OpToRel
<1>3. \A y \in S : x =< y
  BY <1>2
<1>4. QED
  BY <1>3 DEF Min

LEMMA FindType ==
  ASSUME InOrder(repositories), NEW g
  PROVE  FindByFullName(g) \in RowIds \cup {None}
<1> DEFINE named == {i \in DOMAIN repositories : repositories[i].remote = g}
<1>1. CASE named = {}
  BY <1>1 DEF FindByFullName
<1>2. CASE named # {}
  <2>1. named \subseteq Nat
    BY LenProperties DEF InOrder
  <2>2. Min(named) \in named
    BY <1>2, <2>1, MinOfNats
  <2>3. FindByFullName(g) = repositories[Min(named)].id
    BY <1>2 DEF FindByFullName
  <2>4. QED
    BY <2>2, <2>3 DEF RowIds, Rows, Range
<1>3. QED
  BY <1>1, <1>2

\* A table of two keys with one entry, or one line of entries, replaced.
LEMMA EntryReplaced ==
  ASSUME NEW A, NEW B, NEW V, NEW t \in [A -> [B -> V]], NEW a \in A, NEW b \in B, NEW v \in V
  PROVE  /\ [t EXCEPT ![a][b] = v] \in [A -> [B -> V]]
         /\ \A x \in A, y \in B : [t EXCEPT ![a][b] = v][x][y] = IF x = a /\ y = b THEN v ELSE t[x][y]
OBVIOUS

LEMMA LineReplaced ==
  ASSUME NEW A, NEW B, NEW V, NEW t \in [A -> [B -> V]], NEW a \in A, NEW v \in V
  PROVE  /\ [t EXCEPT ![a] = [b \in B |-> v]] \in [A -> [B -> V]]
         /\ \A x \in A, y \in B : [t EXCEPT ![a] = [b \in B |-> v]][x][y] = IF x = a THEN v ELSE t[x][y]
OBVIOUS

-----------------------------------------------------------------------------
(***************************************************************************)
(* Types                                                                   *)
(***************************************************************************)
LEMMA SpendType ==
  ASSUME quota \in [requests : Nat, triggers : Nat], NEW kind \in {"requests", "triggers"}, Spend(kind)
  PROVE  quota' \in [requests : Nat, triggers : Nat]
BY DEF Spend

LEMMA CallType ==
  ASSUME HubTypeOK, NEW c \in Caller, NEW q \in Request \cup {None}, call' = [call EXCEPT ![c] = q]
  PROVE  call' \in [Caller -> Request \cup {None}]
BY DEF HubTypeOK

LEMMA RowType ==
  ASSUME InOrder(repositories), NEW i \in DOMAIN repositories
  PROVE  repositories[i] \in Row /\ repositories[i].id \in RowIds
BY LenProperties, ElementOfSeq DEF InOrder, RowIds, Rows, Range

\* Rows change their status only, or not at all.
LEMMA HubQuiet ==
  ASSUME HubTypeOK, InOrder(repositories'), RowIds' \subseteq RowIds, issued' = issued,
         installations' \in [Workspace -> User \cup {None}],
         deliveries' \subseteq Delivery, raced' \subseteq Delivery,
         call' \in [Caller -> Request \cup {None}], unattended' \subseteq issued,
         effects' \in [Delivery -> Nat], quota' \in [requests : Nat, triggers : Nat]
  PROVE  HubTypeOK' /\ issued \subseteq issued'
BY DEF HubTypeOK

LEMMA GitHubType ==
  ASSUME HubTypeOK, GitHubStep
  PROVE  HubTypeOK' /\ issued \subseteq issued'
<1> DEFINE Goal == HubTypeOK' /\ issued \subseteq issued'
<1>1. ASSUME NEW w \in Workspace, NEW u \in User, HandleOAuthCallback(w, u) PROVE Goal
  <2>1. quota' \in [requests : Nat, triggers : Nat]
    BY <1>1, SpendType DEF HandleOAuthCallback, HubTypeOK
  <2>2. QED
    BY <1>1, <2>1, HubQuiet DEF HandleOAuthCallback, HubTypeOK, RowIds, Rows
<1>2. ASSUME NEW w \in Workspace, NEW u \in User, NEW r \in RepoId, DisconnectRepository(w, u, r) PROVE Goal
  <2>1. quota' \in [requests : Nat, triggers : Nat]
    BY <1>2, SpendType DEF DisconnectRepository, HubTypeOK
  <2>2. InOrder(repositories') /\ IdsOf(repositories') \subseteq IdsOf(repositories)
    BY <1>2, RemoveKeeps DEF DisconnectRepository, HubTypeOK
  <2>3. QED
    BY <1>2, <2>1, <2>2, HubQuiet DEF DisconnectRepository, HubTypeOK, RowIds, Rows, IdsOf
<1>3. ASSUME NEW c \in Caller, CreateRepository(c) PROVE Goal
  <2> DEFINE row(r) == [id |-> r, workspace |-> call[c].workspace, remote |-> call[c].remote,
                        indexStatus |-> "pending"]
  <2>1. call[c] \in Request /\ call[c].kind = "connect"
    BY <1>3 DEF CreateRepository, HubTypeOK
  <2>2. call[c].workspace \in Workspace /\ call[c].remote \in Remote
    BY <2>1 DEF Request
  <2>3. PICK r \in RepoId \ issued : repositories' = Append(repositories, row(r)) /\ issued' = issued \cup {r}
    BY <1>3 DEF CreateRepository
  <2>4. row(r) \in Row /\ row(r).id = r /\ r \notin IdsOf(repositories)
    BY <2>2, <2>3 DEF Row, HubTypeOK, RowIds, Rows, IdsOf
  <2> HIDE DEF row
  <2>5. InOrder(repositories') /\ IdsOf(repositories') = IdsOf(repositories) \cup {r}
    BY <2>3, <2>4, AppendKeeps DEF HubTypeOK
  <2>6. call' \in [Caller -> Request \cup {None}]
    BY <1>3, CallType DEF CreateRepository, End
  <2>7. QED
    BY <1>3, <2>3, <2>5, <2>6 DEF CreateRepository, HubTypeOK, RowIds, Rows, IdsOf
<1>4. ASSUME NEW c \in Caller, ProcessWebhook(c) PROVE Goal
  <2> DEFINE d == call[c].delivery
             r == call[c].target
  <2>1. call[c] \in Request /\ call[c].kind = "webhook"
    BY <1>4 DEF ProcessWebhook, HubTypeOK
  <2>2. d \in Delivery
    BY <2>1 DEF Request
  <2>3. call' \in [Caller -> Request \cup {None}]
    BY <1>4, CallType DEF ProcessWebhook, End
  <2>4. /\ deliveries' = deliveries \cup {d} /\ effects' = [effects EXCEPT ![d] = @ + 1]
        /\ UNCHANGED <<installations, issued, raced, quota>>
        /\ unattended' \subseteq unattended \cup RowIds
        /\ repositories' = repositories \/ repositories' = UpdateRepository(repositories, r, "indexing")
    BY <1>4 DEF ProcessWebhook
  <2>5. InOrder(repositories') /\ IdsOf(repositories') = IdsOf(repositories)
    BY <2>4, UpdateKeeps DEF HubTypeOK
  <2>6. deliveries' \subseteq Delivery /\ effects' \in [Delivery -> Nat] /\ unattended' \subseteq issued
    BY <2>2, <2>4 DEF HubTypeOK
  <2>7. QED
    BY <2>3, <2>4, <2>5, <2>6, HubQuiet DEF HubTypeOK, RowIds, Rows, IdsOf
<1>5. ASSUME NEW c \in Caller, NEW w \in Workspace, NEW u \in User, NEW g \in Remote,
             FindExisting(c, w, u, g) PROVE Goal
  <2> DEFINE q == [kind |-> "connect", workspace |-> w, remote |-> g]
  <2>1. quota' \in [requests : Nat, triggers : Nat]
    BY <1>5, SpendType DEF FindExisting, HubTypeOK
  <2>2. q \in Request
    BY DEF Request
  <2>3. call' \in [Caller -> Request \cup {None}]
    BY <1>5, <2>2, CallType DEF FindExisting, Begin
  <2>4. QED
    BY <1>5, <2>1, <2>3, HubQuiet DEF FindExisting, HubTypeOK, RowIds, Rows
<1>6. ASSUME NEW c \in Caller, NEW d \in Delivery, FindDelivery(c, d) PROVE Goal
  <2> DEFINE q == [kind |-> "webhook", delivery |-> d, target |-> FindByFullName(Payload[d].remote)]
  <2>1. quota' \in [requests : Nat, triggers : Nat]
    BY <1>6, SpendType DEF FindDelivery, HubTypeOK
  <2>2. FindByFullName(Payload[d].remote) \in RepoId \cup {None}
    BY FindType DEF HubTypeOK
  <2>3. q \in Request
    BY <2>2 DEF Request
  <2>4. call' \in [Caller -> Request \cup {None}]
    BY <1>6, <2>3, CallType DEF FindDelivery, Begin
  <2>5. raced' \subseteq Delivery
    BY <1>6 DEF FindDelivery, HubTypeOK
  <2>6. QED
    BY <1>6, <2>1, <2>4, <2>5, HubQuiet DEF FindDelivery, HubTypeOK, RowIds, Rows
<1>7. QED
  BY <1>1, <1>2, <1>3, <1>4, <1>5, <1>6 DEF GitHubStep

LEMMA NoneFacts == None \notin FileRow /\ None \notin IngestionJob /\ None \notin Run /\ None \notin Outcome
BY NoneAssumption

\* A listing is a sequence of items, each at a path of its own.
LEMMA TreeFacts ==
  ASSUME NEW t \in Tree
  PROVE  /\ DOMAIN t = 1..Len(t) /\ Len(t) \in Nat
         /\ \A i \in DOMAIN t : i \in Nat /\ i >= 1 /\ t[i].path \in File /\ t[i].content \in Content
         /\ \A i, k \in DOMAIN t : t[i].path = t[k].path => i = k
<1>1. t \in Seq([path : File, content : Content])
  BY TreeAssumption
<1>2. DOMAIN t = 1..Len(t) /\ Len(t) \in Nat
  BY <1>1, LenProperties
<1>3. \A i \in DOMAIN t : t[i] \in [path : File, content : Content]
  BY <1>1, <1>2, ElementOfSeq
<1>4. QED
  BY <1>2, <1>3, TreeAssumption

\* What a run in its loop works on.
LEMMA ItemType ==
  ASSUME IngestTypeOK, NEW j \in Job, runs[j] # None, Processed(j) < Len(runs[j].tree)
  PROVE  /\ runs[j].tree \in Tree /\ Processed(j) \in Nat /\ Processed(j) + 1 \in DOMAIN runs[j].tree
         /\ Item(j).path \in File /\ Item(j).content \in Content
<1>1. runs[j] \in Run /\ jobs[j] \in IngestionJob
  BY DEF IngestTypeOK
<1>2. runs[j].tree \in Tree /\ Processed(j) \in Nat
  BY <1>1 DEF Run, IngestionJob, Processed
<1>3. runs[j].tree \in Seq([path : File, content : Content])
  BY <1>2, TreeAssumption
<1>4. Processed(j) + 1 \in DOMAIN runs[j].tree
  BY <1>2, <1>3, LenProperties
<1>5. Item(j) \in [path : File, content : Content]
  BY <1>3, <1>4, LenProperties, ElementOfSeq DEF Item
<1>6. QED
  BY <1>2, <1>4, <1>5

LEMMA TriggerType ==
  ASSUME TypeOK, NEW j \in Job, NEW r \in RepoId, NEW tree \in Tree, NEW force \in BOOLEAN,
         TriggerIngestion(j, r, tree, force)
  PROVE  TypeOK'
<1> DEFINE job == [repo |-> r, status |-> "queued", total |-> 0, processed |-> 0]
           run == [tree |-> tree, force |-> force, begun |-> FALSE, alone |-> TRUE]
<1>1. job \in IngestionJob /\ run \in Run /\ job.processed = 0 /\ run.tree = tree /\ job.repo = r
  BY DEF IngestionJob, Run
<1>2. /\ jobs' = [jobs EXCEPT ![j] = job] /\ runs' = [runs EXCEPT ![j] = run] /\ jobs[j] = None
      /\ repositories' = UpdateRepository(repositories, r, "indexing") /\ r \in RowIds
      /\ unattended' = unattended \ {r} /\ Spend("triggers")
      /\ UNCHANGED <<installations, deliveries, call, issued, effects, raced, files, artefacts, lastRun>>
  BY DEF TriggerIngestion
<1> HIDE DEF job, run
<1>3. Len(tree) \in Nat
  BY TreeAssumption, LenProperties
<1>4. HubTypeOK'
  <2>1. InOrder(repositories') /\ IdsOf(repositories') = IdsOf(repositories)
    BY <1>2, UpdateKeeps DEF TypeOK, HubTypeOK
  <2>2. quota' \in [requests : Nat, triggers : Nat]
    BY <1>2, SpendType DEF TypeOK, HubTypeOK
  <2>3. QED
    BY <1>2, <2>1, <2>2 DEF TypeOK, HubTypeOK, RowIds, Rows, IdsOf
<1>5. jobs' \in [Job -> IngestionJob \cup {None}] /\ runs' \in [Job -> Run \cup {None}]
  BY <1>1, <1>2 DEF TypeOK, IngestTypeOK
<1>6. \A i \in Job : jobs'[i] = (IF i = j THEN job ELSE jobs[i]) /\ runs'[i] = (IF i = j THEN run ELSE runs[i])
  BY <1>2 DEF TypeOK, IngestTypeOK
<1>7. r \in issued
  BY <1>2 DEF TypeOK, HubTypeOK
<1>8. \A i \in Job : /\ jobs'[i] # None => jobs'[i].repo \in issued'
                     /\ runs'[i] # None => jobs'[i] # None /\ Processed(i)' <= Len(runs'[i].tree)
  <2> TAKE i \in Job
  <2>1. CASE i = j
    BY <1>1, <1>2, <1>3, <1>6, <1>7, <2>1, NoneFacts DEF Processed
  <2>2. CASE i # j
    BY <1>2, <1>6, <2>2 DEF TypeOK, IngestTypeOK, Processed
  <2>3. QED
    BY <2>1, <2>2
<1>9. QED
  BY <1>2, <1>4, <1>5, <1>8 DEF TypeOK, IngestTypeOK

\* A run begins or goes on: what changes in its job leaves the repository,
\* and the position stays within the listing.
LEMMA RunOnType ==
  ASSUME TypeOK, NEW j \in Job, runs[j] # None, NEW job \in IngestionJob,
         jobs' = [jobs EXCEPT ![j] = job], job.repo = jobs[j].repo, job.processed <= Len(runs[j].tree),
         runs' \in [Job -> Run \cup {None}],
         \A i \in Job : runs'[i] # None => runs[i] # None /\ runs'[i].tree = runs[i].tree,
         files' \in [RepoId -> [File -> FileRow \cup {None}]],
         artefacts' \in [RepoId -> [File -> Seq(Content)]],
         lastRun' \in [RepoId -> Outcome \cup {None}], issued' = issued
  PROVE  IngestTypeOK'
<1>1. jobs' \in [Job -> IngestionJob \cup {None}]
  BY DEF TypeOK, IngestTypeOK
<1>2. \A i \in Job : jobs'[i] = (IF i = j THEN job ELSE jobs[i])
  BY DEF TypeOK, IngestTypeOK
<1>3. jobs[j] # None /\ jobs[j].repo \in issued
  BY DEF TypeOK, IngestTypeOK
<1>4. ASSUME NEW i \in Job
      PROVE  /\ jobs'[i] # None => jobs'[i].repo \in issued'
             /\ runs'[i] # None => jobs'[i] # None /\ Processed(i)' <= Len(runs'[i].tree)
  <2>1. CASE i = j
    BY <1>2, <1>3, <2>1, NoneFacts DEF Processed
  <2>2. CASE i # j
    BY <1>2, <2>2 DEF TypeOK, IngestTypeOK, Processed
  <2>3. QED
    BY <2>1, <2>2
<1>5. QED
  BY <1>1, <1>4 DEF IngestTypeOK

\* The repository and the record of the job of a run.
LEMMA RunFacts ==
  ASSUME TypeOK, NEW j \in Job, runs[j] # None
  PROVE  /\ runs[j] \in Run /\ jobs[j] \in IngestionJob /\ jobs[j].repo \in RepoId
         /\ Len(runs[j].tree) \in Nat /\ Processed(j) \in Nat /\ Processed(j) <= Len(runs[j].tree)
<1>1. runs[j] \in Run /\ jobs[j] \in IngestionJob /\ jobs[j].repo \in RepoId
  BY DEF TypeOK, IngestTypeOK, IngestionJob
<1>2. runs[j].tree \in Tree
  BY <1>1 DEF Run
<1>3. QED
  BY <1>1, <1>2, TreeAssumption, LenProperties DEF TypeOK, IngestTypeOK, IngestionJob, Processed

LEMMA BeginRunType ==
  ASSUME TypeOK, NEW j \in Job, BeginRun(j)
  PROVE  TypeOK'
<1> DEFINE r == jobs[j].repo
           job == [jobs[j] EXCEPT !.status = "processing", !.total = Len(runs[j].tree)]
<1>1. runs[j] # None /\ UNCHANGED <<hubVars, lastRun>>
  BY DEF BeginRun
<1>2. runs[j] \in Run /\ jobs[j] \in IngestionJob /\ r \in RepoId /\ Len(runs[j].tree) \in Nat
  BY <1>1, RunFacts
<1>3. job \in IngestionJob /\ job.repo = r /\ job.processed = jobs[j].processed /\ jobs' = [jobs EXCEPT ![j] = job]
  BY <1>2 DEF BeginRun, UpdateJob, IngestionJob
<1>4. job.processed <= Len(runs[j].tree)
  BY <1>1, <1>3 DEF TypeOK, IngestTypeOK, Processed
<1>5. \A i \in Job : runs'[i] = IF i = j THEN [runs[j] EXCEPT !.begun = TRUE, !.alone = Begun(r) = {}]
                                ELSE IF i \in Begun(r) THEN [runs[i] EXCEPT !.alone = FALSE] ELSE runs[i]
  BY DEF BeginRun
<1>6. \A i \in Job : i \in Begun(r) => runs[i] # None /\ runs[i] \in Run
  BY DEF Begun, TypeOK, IngestTypeOK
<1>7. \A i \in Job : runs'[i] \in Run \cup {None} /\ (runs'[i] # None => runs[i] # None /\ runs'[i].tree = runs[i].tree)
  <2> TAKE i \in Job
  <2>1. CASE i = j
    BY <1>1, <1>2, <1>5, <2>1 DEF Run
  <2>2. CASE i # j /\ i \in Begun(r)
    BY <1>5, <1>6, <2>2 DEF Run
  <2>3. CASE i # j /\ i \notin Begun(r)
    BY <1>5, <2>3 DEF TypeOK, IngestTypeOK
  <2>4. QED
    BY <2>1, <2>2, <2>3
<1>8. runs' \in [Job -> Run \cup {None}]
  <2>1. runs' = [i \in Job |-> runs'[i]]
    BY DEF BeginRun
  <2> DEFINE all == Run \cup {None}
  <2>2. \A i \in Job : runs'[i] \in all
    BY <1>7
  <2> HIDE DEF all
  <2>3. runs' \in [Job -> all]
    BY <2>1, <2>2
  <2>4. QED
    BY <2>3 DEF all
<1>9. /\ files' \in [RepoId -> [File -> FileRow \cup {None}]]
      /\ artefacts' \in [RepoId -> [File -> Seq(Content)]]
  <2>1. None \in FileRow \cup {None} /\ <<>> \in Seq(Content)
    BY EmptySeq
  <2>2. /\ [files EXCEPT ![r] = [f \in File |-> None]] \in [RepoId -> [File -> FileRow \cup {None}]]
        /\ [artefacts EXCEPT ![r] = [f \in File |-> <<>>]] \in [RepoId -> [File -> Seq(Content)]]
    BY <1>2, <2>1, LineReplaced DEF TypeOK, IngestTypeOK
  <2>3. \/ UNCHANGED <<files, artefacts>>
        \/ /\ files' = [files EXCEPT ![r] = [f \in File |-> None]]
           /\ artefacts' = [artefacts EXCEPT ![r] = [f \in File |-> <<>>]]
    BY DEF BeginRun
  <2>4. QED
    BY <2>2, <2>3 DEF TypeOK, IngestTypeOK
<1> HIDE DEF job
<1>10. IngestTypeOK'
  BY <1>1, <1>3, <1>4, <1>7, <1>8, <1>9, RunOnType DEF TypeOK, IngestTypeOK, hubVars
<1>11. HubTypeOK'
  BY <1>1 DEF TypeOK, HubTypeOK, hubVars, RowIds, Rows
<1>12. QED
  BY <1>10, <1>11 DEF TypeOK

\* A file's row or artefacts are replaced.
LEMMA IngestFileType ==
  ASSUME TypeOK, NEW j \in Job, IngestFile(j)
  PROVE  TypeOK'
<1> DEFINE r == jobs[j].repo
           item == Item(j)
           job == [jobs[j] EXCEPT !.processed = @ + 1]
<1>1. runs[j] # None /\ Processed(j) < Len(runs[j].tree) /\ UNCHANGED <<hubVars, runs, lastRun>>
  BY DEF IngestFile, InLoop
<1>2. runs[j] \in Run /\ jobs[j] \in IngestionJob /\ r \in RepoId /\ Len(runs[j].tree) \in Nat
  BY <1>1, RunFacts
<1>3. item.path \in File /\ item.content \in Content
  BY <1>1, ItemType DEF TypeOK
<1>4. job \in IngestionJob /\ job.repo = r /\ job.processed <= Len(runs[j].tree) /\ jobs' = [jobs EXCEPT ![j] = job]
  BY <1>1, <1>2 DEF IngestFile, UpdateJob, IngestionJob, Processed
<1> DEFINE ignored == [sha |-> item.content, status |-> "ignored"]
           indexed == [sha |-> item.content, status |-> "indexed"]
<1>5. ignored \in FileRow /\ indexed \in FileRow
  BY <1>3 DEF FileRow
<1>6. \/ UNCHANGED files
      \/ files' = [files EXCEPT ![r][item.path] = ignored]
      \/ files' = [files EXCEPT ![r][item.path] = indexed]
  BY DEF IngestFile, Indexed
<1>7. \/ UNCHANGED artefacts
      \/ artefacts' = [artefacts EXCEPT ![r][item.path] =
           Append(IF files[r][item.path] # None THEN <<>> ELSE artefacts[r][item.path], item.content)]
  BY <1>2, <1>3 DEF IngestFile, Indexed, TypeOK, IngestTypeOK
<1> HIDE DEF item, ignored, indexed, job
<1>8. files' \in [RepoId -> [File -> FileRow \cup {None}]]
  <2>1. ignored \in FileRow \cup {None} /\ indexed \in FileRow \cup {None}
    BY <1>5
  <2>2. /\ [files EXCEPT ![r][item.path] = ignored] \in [RepoId -> [File -> FileRow \cup {None}]]
        /\ [files EXCEPT ![r][item.path] = indexed] \in [RepoId -> [File -> FileRow \cup {None}]]
    BY <1>2, <1>3, <2>1, EntryReplaced DEF TypeOK, IngestTypeOK
  <2>3. QED
    BY <1>6, <2>2 DEF TypeOK, IngestTypeOK
<1>9. artefacts' \in [RepoId -> [File -> Seq(Content)]]
  <2>1. artefacts[r][item.path] \in Seq(Content) /\ <<>> \in Seq(Content)
    BY <1>2, <1>3, EmptySeq DEF TypeOK, IngestTypeOK
  <2>2. Append(IF files[r][item.path] # None THEN <<>> ELSE artefacts[r][item.path], item.content) \in Seq(Content)
    BY <1>3, <2>1, AppendProperties
  <2> DEFINE new == Append(IF files[r][item.path] # None THEN <<>> ELSE artefacts[r][item.path], item.content)
  <2> HIDE DEF new
  <2>3. [artefacts EXCEPT ![r][item.path] = new] \in [RepoId -> [File -> Seq(Content)]]
    BY <1>2, <1>3, <2>2, EntryReplaced DEF TypeOK, IngestTypeOK, new
  <2>4. QED
    BY <1>7, <2>3 DEF TypeOK, IngestTypeOK, new
<1>10. IngestTypeOK'
  BY <1>1, <1>4, <1>8, <1>9, RunOnType DEF TypeOK, IngestTypeOK, hubVars
<1>11. HubTypeOK'
  BY <1>1 DEF TypeOK, HubTypeOK, hubVars, RowIds, Rows
<1>12. QED
  BY <1>10, <1>11 DEF TypeOK

LEMMA EndRunType ==
  ASSUME TypeOK, NEW j \in Job, runs[j] # None,
         NEW jobStatus \in {"completed", "failed"}, NEW rowStatus \in {"indexed", "failed"},
         EndRun(j, jobStatus, rowStatus)
  PROVE  TypeOK'
<1> DEFINE r == jobs[j].repo
           job == [jobs[j] EXCEPT !.status = jobStatus]
           outcome == [status |-> jobStatus, tree |-> runs[j].tree, alone |-> runs[j].alone]
<1>1. runs[j] \in Run /\ jobs[j] \in IngestionJob /\ r \in RepoId
  BY RunFacts
<1>2. /\ job \in IngestionJob /\ job.repo = r /\ job.processed = jobs[j].processed
      /\ jobs' = [jobs EXCEPT ![j] = job]
  BY <1>1 DEF EndRun, UpdateJob, IngestionJob
<1>3. outcome \in Outcome
  BY <1>1 DEF Outcome, Run
<1> HIDE DEF job, outcome
<1>4. lastRun' \in [RepoId -> Outcome \cup {None}]
  BY <1>1, <1>3 DEF EndRun, TypeOK, IngestTypeOK, outcome
<1>5. /\ runs' \in [Job -> Run \cup {None}]
      /\ \A i \in Job : runs'[i] # None => runs[i] # None /\ runs'[i].tree = runs[i].tree
  BY DEF EndRun, TypeOK, IngestTypeOK
<1>6. job.processed <= Len(runs[j].tree)
  BY <1>2, RunFacts DEF Processed
<1>7. IngestTypeOK'
  BY <1>2, <1>4, <1>5, <1>6, RunOnType DEF EndRun, TypeOK, IngestTypeOK
<1>8. /\ repositories' = UpdateRepository(repositories, r, rowStatus) /\ unattended' = unattended \ {r}
      /\ UNCHANGED <<installations, deliveries, call, issued, effects, raced, quota>>
  BY DEF EndRun
<1>9. InOrder(repositories') /\ IdsOf(repositories') = IdsOf(repositories)
  BY <1>8, UpdateKeeps DEF TypeOK, HubTypeOK
<1>10. HubTypeOK'
  BY <1>8, <1>9 DEF TypeOK, HubTypeOK, RowIds, Rows, IdsOf
<1>11. QED
  BY <1>7, <1>10 DEF TypeOK

LEMMA InitType == Init => TypeOK
<1> SUFFICES ASSUME Init PROVE TypeOK
  OBVIOUS
<1>1. InOrder(repositories) /\ issued = RowIds
  BY SeedAssumption DEF Init, HubInit
<1>2. RowIds \subseteq RepoId
  <2>1. \A i \in DOMAIN repositories : repositories[i] \in Row
    BY <1>1, LenProperties, ElementOfSeq DEF InOrder
  <2>2. QED
    BY <2>1 DEF RowIds, Rows, Range, Row
<1>3. HubTypeOK
  BY <1>1, <1>2, QuotaAssumption DEF Init, HubInit, HubTypeOK
<1>4. IngestTypeOK
  BY EmptySeq DEF Init, IngestTypeOK
<1>5. QED
  BY <1>3, <1>4 DEF TypeOK

LEMMA NextType == TypeOK /\ [Next]_vars => TypeOK'
<1> SUFFICES ASSUME TypeOK, [Next]_vars PROVE TypeOK'
  OBVIOUS
<1>1. CASE GitHubStep /\ UNCHANGED ingestVars
  BY <1>1, GitHubType DEF TypeOK, IngestTypeOK, ingestVars, Processed
<1>2. ASSUME NEW j \in Job, NEW r \in RepoId, NEW tree \in Tree, NEW force \in BOOLEAN,
             TriggerIngestion(j, r, tree, force)
      PROVE  TypeOK'
  BY <1>2, TriggerType
<1>3. ASSUME NEW j \in Job, RunStep(j) PROVE TypeOK'
  <2>1. CASE BeginRun(j)
    BY <2>1, BeginRunType
  <2>2. CASE IngestFile(j)
    BY <2>2, IngestFileType
  <2>3. CASE FailRun(j)
    BY <2>3, EndRunType DEF FailRun, InLoop
  <2>4. CASE CompleteRun(j)
    BY <2>4, EndRunType DEF CompleteRun, InLoop
  <2>5. QED
    BY <1>3, <2>1, <2>2, <2>3, <2>4 DEF RunStep
<1>4. CASE UNCHANGED vars
  BY <1>4 DEF TypeOK, HubTypeOK, IngestTypeOK, vars, hubVars, ingestVars, Processed, RowIds, Rows
<1>5. QED
  BY <1>1, <1>2, <1>3, <1>4 DEF Next

\* Every row has an id of its own, and every run a job whose position is
\* within its listing: with any number of repositories, calls and runs.
THEOREM IngestionTypes == Spec => []TypeOK
BY InitType, NextType, PTL DEF Spec

-----------------------------------------------------------------------------
(***************************************************************************)
(* What is stored of a file                                                *)
(***************************************************************************)
\* A file without a row has no artefacts; the status of a row follows from
\* its content.
FileInv == \A r \in RepoId, f \in File :
  /\ files[r][f] = None => artefacts[r][f] = <<>>
  /\ files[r][f] # None => (files[r][f].status = "ignored" <=> files[r][f].sha \in Rejected)
  /\ files[r][f] # None /\ files[r][f].status = "indexed" => artefacts[r][f] = <<files[r][f].sha>>

\* A run clears the repository, or leaves its files.
LEMMA BeginRunFiles ==
  ASSUME TypeOK, NEW j \in Job, BeginRun(j)
  PROVE  /\ jobs[j].repo \in RepoId
         /\ \/ UNCHANGED <<files, artefacts>>
            \/ \A r \in RepoId, f \in File :
                 /\ files'[r][f] = IF r = jobs[j].repo THEN None ELSE files[r][f]
                 /\ artefacts'[r][f] = IF r = jobs[j].repo THEN <<>> ELSE artefacts[r][f]
<1>1. jobs[j].repo \in RepoId
  BY RunFacts DEF BeginRun
<1>2. None \in FileRow \cup {None} /\ <<>> \in Seq(Content)
  BY EmptySeq
<1>3. CASE UNCHANGED <<files, artefacts>>
  BY <1>1, <1>3
<1>4. CASE /\ files' = [files EXCEPT ![jobs[j].repo] = [f \in File |-> None]]
           /\ artefacts' = [artefacts EXCEPT ![jobs[j].repo] = [f \in File |-> <<>>]]
  <2>1. \A r \in RepoId, f \in File : files'[r][f] = IF r = jobs[j].repo THEN None ELSE files[r][f]
    BY <1>1, <1>2, <1>4, LineReplaced DEF TypeOK, IngestTypeOK
  <2>2. \A r \in RepoId, f \in File : artefacts'[r][f] = IF r = jobs[j].repo THEN <<>> ELSE artefacts[r][f]
    BY <1>1, <1>2, <1>4, LineReplaced DEF TypeOK, IngestTypeOK
  <2>3. QED
    BY <1>1, <2>1, <2>2
<1>5. QED
  BY <1>3, <1>4 DEF BeginRun

\* The work on a file touches its entries only.  Afterwards it is ignored or
\* is in the index with its content; or it is unchanged.
LEMMA IngestFileFiles ==
  ASSUME TypeOK, NEW j \in Job, IngestFile(j)
  PROVE  LET r == jobs[j].repo
             item == Item(j) IN
         /\ r \in RepoId /\ item.path \in File
         /\ \A q \in RepoId, f \in File : (q # r \/ f # item.path) =>
              files'[q][f] = files[q][f] /\ artefacts'[q][f] = artefacts[q][f]
         /\ \/ /\ item.content \in Rejected /\ artefacts' = artefacts
               /\ files'[r][item.path] = [sha |-> item.content, status |-> "ignored"]
            \/ item.content \notin Rejected /\ Unchanged(j, r, item) /\ UNCHANGED <<files, artefacts>>
            \/ /\ item.content \notin Rejected
               /\ files'[r][item.path] = [sha |-> item.content, status |-> "indexed"]
               /\ artefacts'[r][item.path] =
                    Append(IF files[r][item.path] # None THEN <<>> ELSE artefacts[r][item.path], item.content)
<1> DEFINE r == jobs[j].repo
           item == Item(j)
           ignored == [sha |-> item.content, status |-> "ignored"]
           indexed == [sha |-> item.content, status |-> "indexed"]
           new == Append(IF files[r][item.path] # None THEN <<>> ELSE artefacts[r][item.path], item.content)
<1>1. runs[j] # None /\ Processed(j) < Len(runs[j].tree)
  BY DEF IngestFile, InLoop
<1>2. r \in RepoId /\ item.path \in File /\ item.content \in Content
  BY <1>1, RunFacts, ItemType DEF TypeOK
<1>3. ignored \in FileRow \cup {None} /\ indexed \in FileRow \cup {None}
  BY <1>2 DEF FileRow
<1>4. new \in Seq(Content)
  <2>1. artefacts[r][item.path] \in Seq(Content) /\ <<>> \in Seq(Content)
    BY <1>2, EmptySeq DEF TypeOK, IngestTypeOK
  <2>2. QED
    BY <1>2, <2>1, AppendProperties
<1>5. \/ /\ item.content \in Rejected /\ artefacts' = artefacts
         /\ files' = [files EXCEPT ![r][item.path] = ignored]
      \/ item.content \notin Rejected /\ Unchanged(j, r, item) /\ UNCHANGED <<files, artefacts>>
      \/ /\ item.content \notin Rejected
         /\ files' = [files EXCEPT ![r][item.path] = indexed]
         /\ artefacts' = [artefacts EXCEPT ![r][item.path] = new]
  BY <1>2 DEF IngestFile, Indexed, TypeOK, IngestTypeOK
<1> HIDE DEF r, item, ignored, indexed, new
<1>6. ASSUME files' = [files EXCEPT ![r][item.path] = ignored]
      PROVE  \A q \in RepoId, f \in File :
               files'[q][f] = IF q = r /\ f = item.path THEN ignored ELSE files[q][f]
  BY <1>2, <1>3, <1>6, EntryReplaced DEF TypeOK, IngestTypeOK
<1>7. ASSUME files' = [files EXCEPT ![r][item.path] = indexed]
      PROVE  \A q \in RepoId, f \in File :
               files'[q][f] = IF q = r /\ f = item.path THEN indexed ELSE files[q][f]
  BY <1>2, <1>3, <1>7, EntryReplaced DEF TypeOK, IngestTypeOK
<1>8. ASSUME artefacts' = [artefacts EXCEPT ![r][item.path] = new]
      PROVE  \A q \in RepoId, f \in File :
               artefacts'[q][f] = IF q = r /\ f = item.path THEN new ELSE artefacts[q][f]
  BY <1>2, <1>4, <1>8, EntryReplaced DEF TypeOK, IngestTypeOK
<1>9. \A q \in RepoId, f \in File : (q # r \/ f # item.path) =>
        files'[q][f] = files[q][f] /\ artefacts'[q][f] = artefacts[q][f]
  BY <1>5, <1>6, <1>7, <1>8
<1>10. \/ /\ item.content \in Rejected /\ artefacts' = artefacts
          /\ files'[r][item.path] = ignored
       \/ item.content \notin Rejected /\ Unchanged(j, r, item) /\ UNCHANGED <<files, artefacts>>
       \/ /\ item.content \notin Rejected /\ files'[r][item.path] = indexed
          /\ artefacts'[r][item.path] = new
  BY <1>2, <1>5, <1>6, <1>7, <1>8
<1>11. QED
  BY <1>2, <1>9, <1>10 DEF r, item, ignored, indexed, new

LEMMA FileStep == TypeOK /\ FileInv /\ [Next]_vars => FileInv'
<1> SUFFICES ASSUME TypeOK, FileInv, [Next]_vars PROVE FileInv'
  OBVIOUS
<1>1. CASE UNCHANGED <<files, artefacts>>
  BY <1>1 DEF FileInv
<1>2. ASSUME NEW j \in Job, BeginRun(j) PROVE FileInv'
  BY <1>2, <1>1, BeginRunFiles DEF FileInv
<1>3. ASSUME NEW j \in Job, IngestFile(j) PROVE FileInv'
  <2> DEFINE Entry(q, f) ==
               /\ files[q][f] = None => artefacts[q][f] = <<>>
               /\ files[q][f] # None => (files[q][f].status = "ignored" <=> files[q][f].sha \in Rejected)
               /\ files[q][f] # None /\ files[q][f].status = "indexed" => artefacts[q][f] = <<files[q][f].sha>>
             Stored(c, how) == [sha |-> c, status |-> how]
  <2>1. Item(j).content \in Content /\ jobs[j].repo \in RepoId /\ Item(j).path \in File
    BY <1>3, ItemType, IngestFileFiles DEF IngestFile, InLoop, TypeOK
  <2>2. PICK r \in RepoId, p \in File, c \in Content :
          r = jobs[j].repo /\ p = Item(j).path /\ c = Item(j).content
    BY <2>1
  <2>3. \/ c \in Rejected /\ files'[r][p] = Stored(c, "ignored")
        \/ UNCHANGED <<files, artefacts>>
        \/ /\ c \notin Rejected /\ files'[r][p] = Stored(c, "indexed")
           /\ artefacts'[r][p] = Append(IF files[r][p] # None THEN <<>> ELSE artefacts[r][p], c)
    BY <1>3, <2>2, IngestFileFiles
  <2>4. \A q \in RepoId, f \in File : (q # r \/ f # p) =>
          files'[q][f] = files[q][f] /\ artefacts'[q][f] = artefacts[q][f]
    BY <1>3, <2>2, IngestFileFiles
  <2>5. \A q \in RepoId, f \in File : Entry(q, f)
    BY DEF FileInv
  <2>6. \A how \in {"ignored", "indexed"} : Stored(c, how) # None
    BY NoneFacts DEF FileRow
  <2>7. ASSUME Entry(r, p)' PROVE FileInv'
    BY <2>4, <2>5, <2>7 DEF FileInv
  <2>8. CASE c \in Rejected /\ files'[r][p] = Stored(c, "ignored")
    BY <2>6, <2>7, <2>8
  <2>9. CASE /\ c \notin Rejected /\ files'[r][p] = Stored(c, "indexed")
             /\ artefacts'[r][p] = Append(IF files[r][p] # None THEN <<>> ELSE artefacts[r][p], c)
    <3>1. artefacts'[r][p] = Append(<<>>, c)
      BY <2>5, <2>9
    <3>2. artefacts'[r][p] = <<c>>
      BY <3>1
    <3>3. files'[r][p] # None /\ files'[r][p].sha = c /\ files'[r][p].status = "indexed"
      BY <2>6, <2>9
    <3>4. Entry(r, p)'
      BY <2>9, <3>2, <3>3
    <3>5. QED
      BY <2>7, <3>4
  <2>10. QED
    BY <1>1, <2>3, <2>8, <2>9
<1>4. CASE GitHubStep /\ UNCHANGED ingestVars
  BY <1>1, <1>4 DEF ingestVars
<1>5. ASSUME NEW j \in Job, NEW r \in RepoId, NEW tree \in Tree, NEW force \in BOOLEAN,
             TriggerIngestion(j, r, tree, force)
      PROVE  FileInv'
  BY <1>1, <1>5 DEF TriggerIngestion
<1>6. ASSUME NEW j \in Job, FailRun(j) \/ CompleteRun(j) PROVE FileInv'
  BY <1>1, <1>6 DEF FailRun, CompleteRun, EndRun
<1>7. CASE UNCHANGED vars
  BY <1>1, <1>7 DEF vars, ingestVars
<1>8. QED
  BY <1>2, <1>3, <1>4, <1>5, <1>6, <1>7 DEF Next, RunStep

LEMMA FileHolds == Spec => []FileInv
<1>1. Init => FileInv
  BY DEF Init, FileInv
<1>2. QED
  BY <1>1, FileStep, IngestionTypes, PTL DEF Spec

\* An indexed file has the chunks of its content, once, whatever runs of a
\* repository overlap and wherever they end.
THEOREM ChunksFollowTheFile == Spec => []IndexedFilesHaveTheirChunks
<1>1. FileInv => IndexedFilesHaveTheirChunks
  BY DEF FileInv, IndexedFilesHaveTheirChunks
<1>2. QED
  BY <1>1, FileHolds, PTL

-----------------------------------------------------------------------------
(***************************************************************************)
(* What an index holds                                                     *)
(***************************************************************************)
\* The first n items of a listing are in the index of r, but for those the
\* filter holds back.
Holds(r, tree, n) == \A i \in DOMAIN tree : i <= n /\ tree[i].content \notin Rejected =>
  files[r][tree[i].path] = [sha |-> tree[i].content, status |-> "indexed"]

\* A row is shown as indexed by a completed run only.
RowsTell == \A row \in Rows :
  row.indexStatus = "indexed" /\ lastRun[row.id] # None => lastRun[row.id].status = "completed"

LastRunHolds == \A r \in RepoId :
  lastRun[r] # None /\ lastRun[r].status = "completed" /\ lastRun[r].alone /\ Begun(r) = {} =>
    Holds(r, lastRun[r].tree, Len(lastRun[r].tree))

\* A run that has been alone has its listing in the index, as far as it has come.
LoopHolds == \A j \in Job : runs[j] # None =>
  /\ runs[j].begun /\ runs[j].alone =>
       Begun(jobs[j].repo) = {j} /\ Holds(jobs[j].repo, runs[j].tree, Processed(j))
  /\ ~runs[j].begun => Processed(j) = 0

CurrentInv == RowsTell /\ LastRunHolds /\ LoopHolds

LEMMA UpdatedRows ==
  ASSUME InOrder(repositories), NEW r,
         NEW status \in {"pending", "indexing", "indexed", "failed"},
         repositories' = UpdateRepository(repositories, r, status)
  PROVE  \A row \in Rows' : \/ row.id = r /\ row.indexStatus = status
                            \/ row.id # r /\ row \in Rows
<1>1. /\ DOMAIN repositories' = DOMAIN repositories
      /\ \A i \in DOMAIN repositories :
           /\ repositories'[i].id = repositories[i].id
           /\ repositories[i].id # r => repositories'[i] = repositories[i]
           /\ repositories[i].id = r => repositories'[i].indexStatus = status
  BY UpdateKeeps
<1>2. QED
  BY <1>1 DEF Rows, Range

\* No request and no webhook makes a row indexed.
LEMMA HubRows ==
  ASSUME HubTypeOK, GitHubStep
  PROVE  \A row \in Rows' : row.indexStatus = "indexed" => row \in Rows
<1> DEFINE Goal == \A row \in Rows' : row.indexStatus = "indexed" => row \in Rows
<1>1. CASE UNCHANGED repositories
  BY <1>1 DEF Rows
<1>2. ASSUME NEW w \in Workspace, NEW u \in User, NEW r \in RepoId, DisconnectRepository(w, u, r) PROVE Goal
  BY <1>2, RemoveKeeps DEF DisconnectRepository, HubTypeOK, Rows
<1>3. ASSUME NEW c \in Caller, CreateRepository(c) PROVE Goal
  <2> DEFINE row(r) == [id |-> r, workspace |-> call[c].workspace, remote |-> call[c].remote,
                        indexStatus |-> "pending"]
  <2>1. call[c] \in Request /\ call[c].kind = "connect"
    BY <1>3 DEF CreateRepository, HubTypeOK
  <2>2. call[c].workspace \in Workspace /\ call[c].remote \in Remote
    BY <2>1 DEF Request
  <2>3. PICK r \in RepoId \ issued : repositories' = Append(repositories, row(r))
    BY <1>3 DEF CreateRepository
  <2>4. row(r) \in Row /\ row(r).id \notin IdsOf(repositories) /\ row(r).indexStatus = "pending"
    BY <2>2, <2>3 DEF Row, HubTypeOK, RowIds, Rows, IdsOf
  <2> HIDE DEF row
  <2>5. Rows' = Rows \cup {row(r)}
    BY <2>3, <2>4, AppendKeeps DEF HubTypeOK, Rows
  <2>6. QED
    BY <2>4, <2>5
<1>4. ASSUME NEW c \in Caller, ProcessWebhook(c) PROVE Goal
  <2>1. CASE repositories' = UpdateRepository(repositories, call[c].target, "indexing")
    <3>1. \A row \in Rows' : \/ row.id = call[c].target /\ row.indexStatus = "indexing"
                             \/ row.id # call[c].target /\ row \in Rows
      BY <2>1, UpdatedRows DEF HubTypeOK
    <3>2. QED
      BY <3>1
  <2>2. QED
    BY <1>1, <1>4, <2>1 DEF ProcessWebhook
<1>5. QED
  BY <1>1, <1>2, <1>3, <1>4 DEF GitHubStep, HandleOAuthCallback, FindExisting, FindDelivery

\* Which runs are under way follows from the runs and their jobs.
LEMMA BegunSame ==
  ASSUME NEW r, \A i \in Job : (runs'[i] # None /\ runs'[i].begun /\ jobs'[i].repo = r)
                              <=> (runs[i] # None /\ runs[i].begun /\ jobs[i].repo = r)
  PROVE  Begun(r)' = Begun(r)
BY DEF Begun

LEMMA TriggerCurrent ==
  ASSUME TypeOK, CurrentInv, NEW j \in Job, NEW q \in RepoId, NEW tree \in Tree, NEW force \in BOOLEAN,
         TriggerIngestion(j, q, tree, force)
  PROVE  CurrentInv'
<1>1. /\ jobs[j] = None /\ runs[j] = None /\ UNCHANGED <<files, lastRun>>
      /\ repositories' = UpdateRepository(repositories, q, "indexing")
  BY DEF TriggerIngestion, TypeOK, IngestTypeOK
<1>2. \A i \in Job : /\ i # j => runs'[i] = runs[i] /\ jobs'[i] = jobs[i]
                     /\ i = j => ~runs'[i].begun /\ jobs'[i].processed = 0
  BY DEF TriggerIngestion, TypeOK, IngestTypeOK
<1>3. \A r : Begun(r)' = Begun(r)
  BY <1>1, <1>2 DEF Begun
<1>4. RowsTell'
  <2>1. \A row \in Rows' : row.indexStatus = "indexed" => row \in Rows
    BY <1>1, UpdatedRows DEF TypeOK, HubTypeOK
  <2>2. QED
    BY <1>1, <2>1 DEF CurrentInv, RowsTell
<1>5. LastRunHolds'
  BY <1>1, <1>3 DEF CurrentInv, LastRunHolds, Holds
<1>6. LoopHolds'
  <2> SUFFICES ASSUME NEW i \in Job, runs'[i] # None
               PROVE  /\ runs'[i].begun /\ runs'[i].alone =>
                           Begun(jobs[i].repo)' = {i} /\ Holds(jobs[i].repo, runs[i].tree, Processed(i))'
                      /\ ~runs'[i].begun => Processed(i)' = 0
    BY DEF LoopHolds
  <2>1. CASE i = j
    BY <1>2, <2>1 DEF Processed
  <2>2. CASE i # j
    <3>1. runs'[i] = runs[i] /\ jobs'[i] = jobs[i] /\ Processed(i)' = Processed(i)
      BY <1>2, <2>2 DEF Processed
    <3>2. QED
      BY <1>1, <1>3, <3>1 DEF CurrentInv, LoopHolds, Holds
  <2>3. QED
    BY <2>1, <2>2
<1>7. QED
  BY <1>4, <1>5, <1>6 DEF CurrentInv

LEMMA BeginCurrent ==
  ASSUME TypeOK, CurrentInv, NEW j \in Job, BeginRun(j)
  PROVE  CurrentInv'
<1>1. PICK r \in RepoId : r = jobs[j].repo
  BY RunFacts DEF BeginRun
<1>2. /\ runs[j] # None /\ ~runs[j].begun /\ runs[j] \in Run /\ UNCHANGED <<hubVars, lastRun>>
      /\ Processed(j) = 0
  BY RunFacts DEF BeginRun, CurrentInv, LoopHolds
<1>3. \A i \in Job :
        /\ i = j => runs'[i].begun /\ runs'[i].alone = (Begun(r) = {}) /\ runs'[i].tree = runs[i].tree
        /\ i # j /\ i \in Begun(r) => runs'[i].begun /\ ~runs'[i].alone
        /\ i # j /\ i \notin Begun(r) => runs'[i] = runs[i]
        /\ runs[i] # None => runs'[i] # None
  <2> TAKE i \in Job
  <2>1. runs'[i] = IF i = j THEN [runs[j] EXCEPT !.begun = TRUE, !.alone = Begun(r) = {}]
                   ELSE IF i \in Begun(r) THEN [runs[i] EXCEPT !.alone = FALSE] ELSE runs[i]
    BY <1>1 DEF BeginRun
  <2>2. CASE i = j
    <3>1. [runs[j] EXCEPT !.begun = TRUE, !.alone = Begun(r) = {}] \in Run
      BY <1>2 DEF Run
    <3>2. QED
      BY <1>2, <2>1, <2>2, <3>1, NoneFacts DEF Run
  <2>3. CASE i # j /\ i \in Begun(r)
    <3>1. runs[i] \in Run /\ runs[i].begun
      BY <2>3 DEF Begun, TypeOK, IngestTypeOK
    <3>2. [runs[i] EXCEPT !.alone = FALSE] \in Run
      BY <3>1 DEF Run
    <3>3. QED
      BY <2>1, <2>3, <3>1, <3>2, NoneFacts DEF Run
  <2>4. CASE i # j /\ i \notin Begun(r)
    BY <2>1, <2>4
  <2>5. QED
    BY <2>2, <2>3, <2>4
<1>4. \A i \in Job : runs[i] # None => jobs'[i].repo = jobs[i].repo /\ Processed(i)' = Processed(i)
  <2>1. jobs[j] \in IngestionJob
    BY <1>2, RunFacts
  <2>2. QED
    BY <2>1 DEF BeginRun, UpdateJob, TypeOK, IngestTypeOK, IngestionJob, Processed
<1>5. \A i \in Job : runs[i] = None => runs'[i] = None
  BY <1>2, <1>3 DEF Begun
<1>6. \A q : q # r => Begun(q)' = Begun(q)
  BY <1>1, <1>3, <1>4, <1>5 DEF Begun
<1>7. Begun(r)' = Begun(r) \cup {j}
  BY <1>1, <1>2, <1>3, <1>4, <1>5 DEF Begun
<1>8. \A q \in RepoId, f \in File : q # r => files'[q][f] = files[q][f]
  BY <1>1, BeginRunFiles
<1>9. RowsTell'
  BY <1>2 DEF CurrentInv, RowsTell, hubVars, Rows
<1>10. \A q \in RepoId, tree \in Tree : \A n : q # r /\ Holds(q, tree, n) => Holds(q, tree, n)'
  <2> TAKE q \in RepoId, tree \in Tree
  <2> TAKE n
  <2>1. \A i \in DOMAIN tree : tree[i].path \in File
    BY TreeFacts
  <2>2. QED
    BY <1>8, <2>1 DEF Holds
<1>11. LastRunHolds'
  <2> SUFFICES ASSUME NEW q \in RepoId, lastRun[q] # None, lastRun[q].status = "completed", lastRun[q].alone,
                      Begun(q)' = {}
               PROVE  Holds(q, lastRun[q].tree, Len(lastRun[q].tree))'
    BY <1>2 DEF LastRunHolds, Holds
  <2>1. q # r /\ lastRun[q].tree \in Tree
    BY <1>7 DEF TypeOK, IngestTypeOK, Outcome
  <2>2. Holds(q, lastRun[q].tree, Len(lastRun[q].tree))
    BY <1>6, <2>1 DEF CurrentInv, LastRunHolds
  <2>3. PICK tree \in Tree : tree = lastRun[q].tree
    BY <2>1
  <2>4. Holds(q, tree, Len(tree))'
    BY <1>10, <2>1, <2>2, <2>3
  <2>5. QED
    BY <1>2, <2>3, <2>4 DEF Holds
<1>12. LoopHolds'
  <2> SUFFICES ASSUME NEW i \in Job, runs'[i] # None
               PROVE  /\ runs'[i].begun /\ runs'[i].alone =>
                           Begun(jobs[i].repo)' = {i} /\ Holds(jobs[i].repo, runs[i].tree, Processed(i))'
                      /\ ~runs'[i].begun => Processed(i)' = 0
    BY DEF LoopHolds
  <2>1. runs[i] # None /\ jobs'[i].repo = jobs[i].repo /\ Processed(i)' = Processed(i) /\ runs[i] \in Run
    BY <1>4, <1>5, RunFacts
  <2>2. CASE i = j
    <3>1. \A k \in DOMAIN runs[j].tree : ~(k <= 0)
      BY <1>2, TreeAssumption, LenProperties DEF Run
    <3>2. Holds(jobs[i].repo, runs[i].tree, Processed(i))'
      BY <1>2, <1>3, <2>1, <2>2, <3>1 DEF Holds
    <3>3. Begun(jobs[i].repo)' = Begun(r)'
      BY <1>1, <2>1, <2>2
    <3>4. QED
      BY <1>3, <1>7, <2>2, <3>2, <3>3
  <2>3. CASE i # j /\ i \in Begun(r)
    BY <1>3, <2>3
  <2>4. CASE i # j /\ i \notin Begun(r)
    <3>1. runs'[i] = runs[i]
      BY <1>3, <2>4
    <3>2. ASSUME runs[i].begun, runs[i].alone
          PROVE  Begun(jobs[i].repo)' = {i} /\ Holds(jobs[i].repo, runs[i].tree, Processed(i))'
      <4>1. PICK q \in RepoId, tree \in Tree, n \in Nat :
              q = jobs[i].repo /\ tree = runs[i].tree /\ n = Processed(i)
        BY <2>1, RunFacts DEF Run
      <4>2. q # r
        BY <2>1, <2>4, <3>2, <4>1 DEF Begun
      <4>3. Begun(q) = {i} /\ Holds(q, tree, n)
        BY <2>1, <3>2, <4>1 DEF CurrentInv, LoopHolds
      <4>4. Begun(q)' = {i} /\ Holds(q, tree, n)'
        BY <1>6, <1>10, <4>2, <4>3
      <4>5. QED
        BY <2>1, <3>1, <4>1, <4>4
    <3>3. QED
      BY <2>1, <3>1, <3>2 DEF CurrentInv, LoopHolds
  <2>5. QED
    BY <2>2, <2>3, <2>4
<1>13. QED
  BY <1>9, <1>11, <1>12 DEF CurrentInv

LEMMA IngestFileCurrent ==
  ASSUME TypeOK, FileInv, CurrentInv, NEW j \in Job, IngestFile(j)
  PROVE  CurrentInv'
<1>1. /\ runs[j] # None /\ runs[j].begun /\ Processed(j) < Len(runs[j].tree)
      /\ UNCHANGED <<hubVars, runs, lastRun>>
  BY DEF IngestFile, InLoop
<1>2. PICK r \in RepoId, tree \in Tree, n \in Nat : r = jobs[j].repo /\ tree = runs[j].tree /\ n = Processed(j)
  BY <1>1, RunFacts DEF Run
<1>3. /\ n + 1 \in DOMAIN tree /\ Item(j) = tree[n + 1]
      /\ tree[n + 1].path \in File /\ tree[n + 1].content \in Content
  BY <1>1, <1>2, ItemType DEF Item, TypeOK
<1>4. PICK p \in File, c \in Content : /\ p = tree[n + 1].path /\ c = tree[n + 1].content
                                      /\ p = Item(j).path /\ c = Item(j).content
  BY <1>3
<1>5. \A q \in RepoId, f \in File : (q # r \/ f # p) => files'[q][f] = files[q][f]
  BY <1>2, <1>4, IngestFileFiles
<1>6. c \notin Rejected => files'[r][p] = [sha |-> c, status |-> "indexed"]
  <2>1. ASSUME c \notin Rejected, files[r][p] # None, files[r][p].sha = c
        PROVE  files[r][p] = [sha |-> c, status |-> "indexed"]
    <3>1. files[r][p] \in FileRow
      BY <2>1 DEF TypeOK, IngestTypeOK
    <3>2. files[r][p].status = "indexed"
      BY <2>1, <3>1 DEF FileInv, FileRow
    <3>3. QED
      BY <2>1, <3>1, <3>2 DEF FileRow
  <2>2. \/ c \in Rejected
        \/ Unchanged(j, r, Item(j)) /\ UNCHANGED files
        \/ files'[r][p] = [sha |-> c, status |-> "indexed"]
    BY <1>2, <1>4, IngestFileFiles
  <2>3. Unchanged(j, r, Item(j)) => files[r][p] # None /\ files[r][p].sha = c
    BY <1>4 DEF Unchanged
  <2>4. QED
    BY <2>1, <2>2, <2>3
<1>7. \A i \in Job : /\ runs[i] # None => jobs'[i].repo = jobs[i].repo
                     /\ i # j => Processed(i)' = Processed(i)
                     /\ i = j => Processed(i)' = n + 1
  <2>1. jobs[j] \in IngestionJob
    BY <1>1, RunFacts
  <2>2. QED
    BY <1>2, <2>1 DEF IngestFile, UpdateJob, TypeOK, IngestTypeOK, IngestionJob, Processed
<1>8. \A q : Begun(q)' = Begun(q)
  BY <1>1, <1>7 DEF Begun
<1>9. RowsTell'
  BY <1>1 DEF CurrentInv, RowsTell, hubVars, Rows
<1>10. \A q \in RepoId, t \in Tree : \A m : q # r /\ Holds(q, t, m) => Holds(q, t, m)'
  <2> TAKE q \in RepoId, t \in Tree
  <2> TAKE m
  <2>1. \A i \in DOMAIN t : t[i].path \in File
    BY TreeFacts
  <2>2. QED
    BY <1>5, <2>1 DEF Holds
<1>11. j \in Begun(r)
  BY <1>1, <1>2 DEF Begun
<1>12. LastRunHolds'
  <2> SUFFICES ASSUME NEW q \in RepoId, lastRun[q] # None, lastRun[q].status = "completed", lastRun[q].alone,
                      Begun(q)' = {}
               PROVE  Holds(q, lastRun[q].tree, Len(lastRun[q].tree))'
    BY <1>1 DEF LastRunHolds, Holds
  <2>1. q # r /\ lastRun[q].tree \in Tree
    BY <1>8, <1>11 DEF TypeOK, IngestTypeOK, Outcome
  <2>2. Holds(q, lastRun[q].tree, Len(lastRun[q].tree))
    BY <1>8 DEF CurrentInv, LastRunHolds
  <2>3. PICK t \in Tree : t = lastRun[q].tree
    BY <2>1
  <2>4. Holds(q, t, Len(t))'
    BY <1>10, <2>1, <2>2, <2>3
  <2>5. QED
    BY <1>1, <2>3, <2>4 DEF Holds
<1>13. Holds(r, tree, n) => Holds(r, tree, n + 1)'
  <2> SUFFICES ASSUME Holds(r, tree, n), NEW i \in DOMAIN tree, i <= n + 1, tree[i].content \notin Rejected
               PROVE  files'[r][tree[i].path] = [sha |-> tree[i].content, status |-> "indexed"]
    BY DEF Holds
  <2>1. tree[i].path \in File /\ i \in Nat
    BY TreeFacts
  <2>2. CASE i = n + 1
    BY <1>4, <1>6, <2>2
  <2>3. CASE i # n + 1
    <3>1. i <= n
      BY <2>1, <2>3
    <3>2. tree[i].path # p
      BY <1>3, <1>4, <2>3, TreeAssumption
    <3>3. QED
      BY <1>5, <2>1, <3>1, <3>2 DEF Holds
  <2>4. QED
    BY <2>2, <2>3
<1>14. LoopHolds'
  <2> SUFFICES ASSUME NEW i \in Job, runs[i] # None
               PROVE  /\ runs[i].begun /\ runs[i].alone =>
                           Begun(jobs[i].repo)' = {i} /\ Holds(jobs[i].repo, runs[i].tree, Processed(i))'
                      /\ ~runs[i].begun => Processed(i)' = 0
    BY <1>1 DEF LoopHolds
  <2>1. jobs'[i].repo = jobs[i].repo /\ runs'[i] = runs[i]
    BY <1>1, <1>7
  <2>2. CASE i = j
    <3>1. ASSUME runs[j].alone
          PROVE  Begun(r)' = {j} /\ Holds(r, tree, n + 1)'
      BY <1>1, <1>2, <1>8, <1>13, <3>1 DEF CurrentInv, LoopHolds
    <3>2. QED
      BY <1>1, <1>2, <1>7, <2>1, <2>2, <3>1
  <2>3. CASE i # j
    <3>1. Processed(i)' = Processed(i)
      BY <1>7, <2>3
    <3>2. ASSUME runs[i].begun, runs[i].alone
          PROVE  Begun(jobs[i].repo)' = {i} /\ Holds(jobs[i].repo, runs[i].tree, Processed(i))'
      <4>1. PICK q \in RepoId, t \in Tree, m \in Nat :
              q = jobs[i].repo /\ t = runs[i].tree /\ m = Processed(i)
        BY RunFacts DEF Run
      <4>2. Begun(q) = {i} /\ Holds(q, t, m)
        BY <3>2, <4>1 DEF CurrentInv, LoopHolds
      <4>3. q # r
        BY <1>11, <2>3, <4>2
      <4>4. Begun(q)' = {i} /\ Holds(q, t, m)'
        BY <1>8, <1>10, <4>2, <4>3
      <4>5. QED
        BY <2>1, <3>1, <4>1, <4>4
    <3>3. QED
      BY <3>1, <3>2 DEF CurrentInv, LoopHolds
  <2>4. QED
    BY <2>2, <2>3
<1>15. QED
  BY <1>9, <1>12, <1>14 DEF CurrentInv

LEMMA EndRunCurrent ==
  ASSUME TypeOK, CurrentInv, NEW j \in Job, InLoop(j),
         NEW jobStatus \in {"completed", "failed"}, NEW rowStatus \in {"indexed", "failed"},
         EndRun(j, jobStatus, rowStatus),
         rowStatus = "indexed" => jobStatus = "completed",
         jobStatus = "completed" => Processed(j) = Len(runs[j].tree)
  PROVE  CurrentInv'
<1>1. runs[j] # None /\ runs[j].begun
  BY DEF InLoop
<1>2. PICK r \in RepoId, tree \in Tree, n \in Nat : r = jobs[j].repo /\ tree = runs[j].tree /\ n = Processed(j)
  BY <1>1, RunFacts DEF Run
<1>3. /\ UNCHANGED files /\ repositories' = UpdateRepository(repositories, r, rowStatus)
      /\ \A q \in RepoId : lastRun'[q] = IF q = r THEN [status |-> jobStatus, tree |-> tree, alone |-> runs[j].alone]
                                          ELSE lastRun[q]
      /\ \A i \in Job : runs'[i] = IF i = j THEN None ELSE runs[i]
  BY <1>2 DEF EndRun, TypeOK, IngestTypeOK
<1>4. \A i \in Job : runs[i] # None => jobs'[i].repo = jobs[i].repo /\ Processed(i)' = Processed(i)
  <2>1. jobs[j] \in IngestionJob
    BY <1>1, RunFacts
  <2>2. QED
    BY <2>1 DEF EndRun, UpdateJob, TypeOK, IngestTypeOK, IngestionJob, Processed
<1>5. \A q : q # r => Begun(q)' = Begun(q)
  BY <1>2, <1>3, <1>4 DEF Begun
<1>6. j \in Begun(r)
  BY <1>1, <1>2 DEF Begun
<1>7. RowsTell'
  <2>1. \A row \in Rows' : \/ row.id = r /\ row.indexStatus = rowStatus
                           \/ row.id # r /\ row \in Rows
    BY <1>3, UpdatedRows DEF TypeOK, HubTypeOK
  <2>2. \A row \in Rows : row.id \in RepoId
    BY RowType DEF TypeOK, HubTypeOK, Rows, Range, Row
  <2>3. QED
    BY <1>3, <2>1, <2>2 DEF CurrentInv, RowsTell
<1>8. LastRunHolds'
  <2> SUFFICES ASSUME NEW q \in RepoId, lastRun'[q] # None, lastRun'[q].status = "completed", lastRun'[q].alone,
                      Begun(q)' = {}
               PROVE  Holds(q, lastRun'[q].tree, Len(lastRun'[q].tree))
    BY <1>3 DEF LastRunHolds, Holds
  <2>1. CASE q = r
    <3>1. lastRun'[q].tree = tree /\ runs[j].alone /\ n = Len(tree)
      BY <1>2, <1>3, <2>1
    <3>2. Holds(r, tree, n)
      BY <1>1, <1>2, <3>1 DEF CurrentInv, LoopHolds
    <3>3. QED
      BY <2>1, <3>1, <3>2
  <2>2. CASE q # r
    BY <1>3, <1>5, <2>2 DEF CurrentInv, LastRunHolds
  <2>3. QED
    BY <2>1, <2>2
<1>9. LoopHolds'
  <2> SUFFICES ASSUME NEW i \in Job, i # j, runs[i] # None
               PROVE  /\ runs[i].begun /\ runs[i].alone =>
                           Begun(jobs[i].repo)' = {i} /\ Holds(jobs[i].repo, runs[i].tree, Processed(i))
                      /\ ~runs[i].begun => Processed(i) = 0
    BY <1>3, <1>4 DEF LoopHolds, Holds
  <2>1. jobs'[i].repo = jobs[i].repo
    BY <1>4
  <2>2. ASSUME runs[i].begun, runs[i].alone
        PROVE  Begun(jobs[i].repo)' = {i} /\ Holds(jobs[i].repo, runs[i].tree, Processed(i))
    <3>1. Begun(jobs[i].repo) = {i} /\ Holds(jobs[i].repo, runs[i].tree, Processed(i))
      BY <2>2 DEF CurrentInv, LoopHolds
    <3>2. jobs[i].repo # r
      BY <1>6, <3>1
    <3>3. QED
      BY <1>5, <2>1, <3>1, <3>2
  <2>3. QED
    BY <2>2 DEF CurrentInv, LoopHolds
<1>10. QED
  BY <1>7, <1>8, <1>9 DEF CurrentInv

LEMMA CurrentStep == TypeOK /\ FileInv /\ CurrentInv /\ [Next]_vars => CurrentInv'
<1> SUFFICES ASSUME TypeOK, FileInv, CurrentInv, [Next]_vars PROVE CurrentInv'
  OBVIOUS
<1>1. CASE GitHubStep /\ UNCHANGED ingestVars
  <2>1. UNCHANGED <<files, jobs, runs, lastRun>>
    BY <1>1 DEF ingestVars
  <2>2. \A row \in Rows' : row.indexStatus = "indexed" => row \in Rows
    BY <1>1, HubRows DEF TypeOK
  <2>3. RowsTell'
    BY <2>1, <2>2 DEF CurrentInv, RowsTell
  <2>4. LastRunHolds' /\ LoopHolds'
    BY <2>1 DEF CurrentInv, LastRunHolds, LoopHolds, Begun, Holds, Processed
  <2>5. QED
    BY <2>3, <2>4 DEF CurrentInv
<1>2. ASSUME NEW j \in Job, NEW r \in RepoId, NEW tree \in Tree, NEW force \in BOOLEAN,
             TriggerIngestion(j, r, tree, force)
      PROVE  CurrentInv'
  BY <1>2, TriggerCurrent
<1>3. ASSUME NEW j \in Job, RunStep(j) PROVE CurrentInv'
  <2>1. CASE BeginRun(j)
    BY <2>1, BeginCurrent
  <2>2. CASE IngestFile(j)
    BY <2>2, IngestFileCurrent
  <2>3. CASE FailRun(j)
    BY <2>3, EndRunCurrent DEF FailRun
  <2>4. CASE CompleteRun(j)
    BY <2>4, EndRunCurrent DEF CompleteRun
  <2>5. QED
    BY <1>3, <2>1, <2>2, <2>3, <2>4 DEF RunStep
<1>4. CASE UNCHANGED vars
  BY <1>4 DEF CurrentInv, RowsTell, LastRunHolds, LoopHolds, Begun, Holds, Processed, Rows,
              vars, hubVars, ingestVars
<1>5. QED
  BY <1>1, <1>2, <1>3, <1>4 DEF Next

\* A repository that is shown as indexed and at rest has in its index all
\* that its last run was given, unless that run overlapped with another.
THEOREM IndexIsCurrent == Spec => []IndexedIsCurrent
<1>1. Init => CurrentInv
  <2> SUFFICES ASSUME Init PROVE CurrentInv
    OBVIOUS
  <2>1. RowsTell
    <3>1. \A row \in Rows : row.id \in RepoId
      BY InitType, RowType DEF TypeOK, HubTypeOK, Rows, Range, Row
    <3>2. QED
      BY <3>1 DEF Init, RowsTell
  <2>2. QED
    BY <2>1 DEF Init, CurrentInv, LastRunHolds, LoopHolds
<1>2. TypeOK /\ CurrentInv => IndexedIsCurrent
  <2> SUFFICES ASSUME TypeOK, CurrentInv, NEW row \in Rows, row.indexStatus = "indexed",
                      lastRun[row.id] # None, Begun(row.id) = {}
               PROVE  /\ lastRun[row.id].status = "completed"
                      /\ lastRun[row.id].alone =>
                           \A i \in DOMAIN lastRun[row.id].tree : lastRun[row.id].tree[i].content \notin Rejected =>
                             files[row.id][lastRun[row.id].tree[i].path]
                               = [sha |-> lastRun[row.id].tree[i].content, status |-> "indexed"]
    BY DEF IndexedIsCurrent
  <2>1. row.id \in RepoId
    BY RowType DEF TypeOK, HubTypeOK, Rows, Range, Row
  <2>2. PICK r \in RepoId : r = row.id
    BY <2>1
  <2>3. lastRun[r].status = "completed" /\ lastRun[r] \in Outcome
    BY <2>2 DEF CurrentInv, RowsTell, TypeOK, IngestTypeOK
  <2>4. PICK tree \in Tree : tree = lastRun[r].tree
    BY <2>3 DEF Outcome
  <2>5. lastRun[r].alone => Holds(r, tree, Len(tree))
    BY <2>2, <2>3, <2>4 DEF CurrentInv, LastRunHolds
  <2>6. \A i \in DOMAIN tree : i <= Len(tree)
    BY TreeFacts
  <2>7. QED
    BY <2>2, <2>3, <2>4, <2>5, <2>6 DEF Holds
<1>3. QED
  BY <1>1, <1>2, CurrentStep, IngestionTypes, FileHolds, PTL DEF Spec

-----------------------------------------------------------------------------
(***************************************************************************)
(* Webhook deliveries                                                      *)
(***************************************************************************)
Processing(c, d) == call[c] # None /\ call[c].kind = "webhook" /\ call[c].delivery = d

\* A delivery that no two calls have raced on is with one call at most until
\* it is recorded and takes effect, and with none afterwards.
DeliveryInv == \A d \in Delivery \ raced :
  /\ effects[d] = IF d \in deliveries THEN 1 ELSE 0
  /\ \A b, c \in Caller : Processing(b, d) /\ Processing(c, d) => b = c
  /\ d \in deliveries => \A c \in Caller : ~Processing(c, d)

\* A call that takes up or gives up something other than a delivery.
LEMMA OtherCall ==
  ASSUME HubTypeOK, DeliveryInv, NEW c \in Caller, UNCHANGED <<deliveries, effects, raced>>,
         NEW q, call' = [call EXCEPT ![c] = q], q = None \/ q.kind # "webhook"
  PROVE  DeliveryInv'
<1>1. \A b \in Caller : call'[b] = IF b = c THEN q ELSE call[b]
  BY DEF HubTypeOK
<1>2. \A b \in Caller, d \in Delivery : Processing(b, d)' => Processing(b, d)
  BY <1>1 DEF Processing
<1>3. QED
  BY <1>2 DEF DeliveryInv

LEMMA DeliveryStep == TypeOK /\ DeliveryInv /\ [Next]_vars => DeliveryInv'
<1> SUFFICES ASSUME TypeOK, DeliveryInv, [Next]_vars PROVE DeliveryInv'
  OBVIOUS
<1>1. CASE UNCHANGED <<deliveries, effects, raced, call>>
  BY <1>1 DEF DeliveryInv, Processing
<1>2. ASSUME NEW c \in Caller, CreateRepository(c) PROVE DeliveryInv'
  BY <1>2, OtherCall DEF CreateRepository, End, TypeOK
<1>3. ASSUME NEW c \in Caller, NEW w \in Workspace, NEW u \in User, NEW g \in Remote, FindExisting(c, w, u, g)
      PROVE  DeliveryInv'
  <2> DEFINE q == [kind |-> "connect", workspace |-> w, remote |-> g]
  <2>1. q.kind # "webhook" /\ call' = [call EXCEPT ![c] = q] /\ UNCHANGED <<deliveries, effects, raced>>
    BY <1>3 DEF FindExisting, Begin
  <2> HIDE DEF q
  <2>2. QED
    BY <2>1, OtherCall DEF TypeOK
<1>4. ASSUME NEW c \in Caller, NEW d \in Delivery, FindDelivery(c, d) PROVE DeliveryInv'
  <2>1. /\ d \notin deliveries /\ UNCHANGED <<deliveries, effects>>
        /\ \A b \in Caller : b # c => call'[b] = call[b]
        /\ call'[c].kind = "webhook" /\ call'[c].delivery = d
    BY <1>4 DEF FindDelivery, Begin, TypeOK, HubTypeOK
  <2>2. \A e \in Delivery : e \notin raced' => e \notin raced
    BY <1>4 DEF FindDelivery
  <2>3. d \notin raced' => \A b \in Caller : ~Processing(b, d)
    BY <1>4 DEF FindDelivery, Processing
  <2>4. \A e \in Delivery, b \in Caller :
          Processing(b, e)' => Processing(b, e) \/ (b = c /\ e = d)
    BY <2>1 DEF Processing
  <2>5. QED
    BY <2>1, <2>2, <2>3, <2>4 DEF DeliveryInv
<1>5. ASSUME NEW c \in Caller, ProcessWebhook(c) PROVE DeliveryInv'
  <2>1. call[c] \in Request /\ call[c] # None /\ call[c].kind = "webhook"
    BY <1>5 DEF ProcessWebhook, TypeOK, HubTypeOK
  <2>2. PICK d \in Delivery : d = call[c].delivery
    BY <2>1 DEF Request
  <2>3. /\ deliveries' = deliveries \cup {d} /\ UNCHANGED raced
        /\ \A e \in Delivery : effects'[e] = IF e = d THEN effects[d] + 1 ELSE effects[e]
        /\ \A b \in Caller : call'[b] = IF b = c THEN None ELSE call[b]
    BY <1>5, <2>2 DEF ProcessWebhook, End, TypeOK, HubTypeOK
  <2>4. Processing(c, d)
    BY <2>1, <2>2 DEF Processing
  <2>5. \A e \in Delivery, b \in Caller : Processing(b, e)' => Processing(b, e) /\ b # c
    BY <2>3 DEF Processing
  <2>6. QED
    BY <2>3, <2>4, <2>5 DEF DeliveryInv
<1>6. CASE GitHubStep /\ UNCHANGED ingestVars
  BY <1>1, <1>2, <1>3, <1>4, <1>5, <1>6 DEF GitHubStep, HandleOAuthCallback, DisconnectRepository
<1>7. CASE \/ \E j \in Job, r \in RepoId, tree \in Tree, force \in BOOLEAN : TriggerIngestion(j, r, tree, force)
           \/ \E j \in Job : RunStep(j)
           \/ UNCHANGED vars
  BY <1>1, <1>7 DEF TriggerIngestion, RunStep, BeginRun, IngestFile, FailRun, CompleteRun, EndRun, vars, hubVars
<1>8. QED
  BY <1>6, <1>7 DEF Next

\* However often a delivery is repeated, it takes effect once, unless two
\* calls had looked for it before either recorded it.
THEOREM DeliveriesTakeEffectOnce == Spec => []DeliveredOnce
<1>1. Init => DeliveryInv
  BY DEF Init, HubInit, DeliveryInv, Processing
<1>2. TypeOK /\ DeliveryInv => DeliveredOnce
  BY DEF DeliveryInv, DeliveredOnce, TypeOK, HubTypeOK
<1>3. QED
  BY <1>1, <1>2, DeliveryStep, IngestionTypes, PTL DEF Spec

-----------------------------------------------------------------------------
(***************************************************************************)
(* Repositories that are gone                                              *)
(***************************************************************************)
\* A step gives a row an id that has been given out before only if the row
\* was there.
LEMMA IdsStep ==
  ASSUME TypeOK, [Next]_vars
  PROVE  issued \subseteq issued' /\ RowIds' \cap issued \subseteq RowIds
<1> DEFINE Goal == issued \subseteq issued' /\ RowIds' \cap issued \subseteq RowIds
<1>1. CASE UNCHANGED <<issued, repositories>>
  BY <1>1 DEF RowIds, Rows
<1>2. ASSUME UNCHANGED issued, NEW r, NEW status \in {"indexing", "indexed", "failed"},
             repositories' = UpdateRepository(repositories, r, status)
      PROVE  Goal
  <2>1. InOrder(repositories) /\ status \in {"pending", "indexing", "indexed", "failed"}
    BY DEF TypeOK, HubTypeOK
  <2>2. IdsOf(repositories') = IdsOf(repositories)
    BY <1>2, <2>1, UpdateKeeps
  <2>3. QED
    BY <1>2, <2>2 DEF RowIds, Rows, IdsOf
<1>3. ASSUME NEW w \in Workspace, NEW u \in User, NEW r \in RepoId, DisconnectRepository(w, u, r) PROVE Goal
  BY <1>3, RemoveKeeps DEF DisconnectRepository, TypeOK, HubTypeOK, RowIds, Rows, IdsOf
<1>4. ASSUME NEW c \in Caller, CreateRepository(c) PROVE Goal
  <2> DEFINE row(r) == [id |-> r, workspace |-> call[c].workspace, remote |-> call[c].remote,
                        indexStatus |-> "pending"]
  <2>1. call[c] \in Request /\ call[c].kind = "connect"
    BY <1>4 DEF CreateRepository, TypeOK, HubTypeOK
  <2>2. call[c].workspace \in Workspace /\ call[c].remote \in Remote
    BY <2>1 DEF Request
  <2>3. PICK r \in RepoId \ issued : repositories' = Append(repositories, row(r)) /\ issued' = issued \cup {r}
    BY <1>4 DEF CreateRepository
  <2>4. row(r) \in Row /\ row(r).id = r /\ r \notin IdsOf(repositories)
    BY <2>2, <2>3 DEF Row, TypeOK, HubTypeOK, RowIds, Rows, IdsOf
  <2> HIDE DEF row
  <2>5. IdsOf(repositories') = IdsOf(repositories) \cup {r}
    BY <2>3, <2>4, AppendKeeps DEF TypeOK, HubTypeOK
  <2>6. QED
    BY <2>3, <2>5 DEF RowIds, Rows, IdsOf
<1>5. CASE GitHubStep /\ UNCHANGED ingestVars
  <2>1. ASSUME NEW c \in Caller, ProcessWebhook(c) PROVE Goal
    <3>1. /\ UNCHANGED issued
          /\ \/ UNCHANGED repositories
             \/ repositories' = UpdateRepository(repositories, call[c].target, "indexing")
      BY <2>1 DEF ProcessWebhook
    <3>2. QED
      BY <1>1, <1>2, <3>1
  <2>2. QED
    BY <1>1, <1>3, <1>4, <1>5, <2>1 DEF GitHubStep, HandleOAuthCallback, FindExisting, FindDelivery
<1>6. ASSUME NEW j \in Job, NEW r \in RepoId, NEW tree \in Tree, NEW force \in BOOLEAN,
             TriggerIngestion(j, r, tree, force)
      PROVE  Goal
  BY <1>2, <1>6 DEF TriggerIngestion
<1>7. ASSUME NEW j \in Job, RunStep(j) PROVE Goal
  <2>1. CASE BeginRun(j) \/ IngestFile(j)
    BY <1>1, <2>1 DEF BeginRun, IngestFile, hubVars
  <2>2. CASE FailRun(j)
    BY <1>2, <2>2 DEF FailRun, EndRun
  <2>3. CASE CompleteRun(j)
    BY <1>2, <2>3 DEF CompleteRun, EndRun
  <2>4. QED
    BY <1>7, <2>1, <2>2, <2>3 DEF RunStep
<1>8. CASE UNCHANGED vars
  BY <1>1, <1>8 DEF vars, hubVars
<1>9. QED
  BY <1>5, <1>6, <1>7, <1>8 DEF Next

\* A repository that was disconnected does not come back: neither a run that
\* ends after it nor a webhook that had found it stores its row again.
THEOREM DisconnectedStaysGone == Spec => GoneStaysGone
<1>1. TypeOK /\ [Next]_vars => [issued \ RowIds \subseteq issued' \ RowIds']_vars
  BY IdsStep
<1>2. QED
  BY <1>1, IngestionTypes, PTL DEF Spec, GoneStaysGone
=============================================================================
