---------------------------- MODULE Collaboration ---------------------------
(***************************************************************************)
(* The collaboration module of the API: CollaborationGateway with its      *)
(* socket sessions and rooms, PresenceService and DocumentsService, for    *)
(* one workspace.  Every handler is synchronous, so each is one action; a  *)
(* socket delivers in order, so what a handler emits reaches a socket      *)
(* before anything emitted later, and emitting is modelled as receiving.   *)
(*                                                                         *)
(* The clients are not in the repository.  A client here may send any      *)
(* message its socket allows, again if it likes, and keeps of a document   *)
(* the version of the copy it was last sent (every message carries the     *)
(* whole document).                                                        *)
(***************************************************************************)
EXTENDS CrdtSync, SequencesExt

CONSTANTS Doc, Socket,
          SeedDocs,      \* documents that exist from the start
          Operation,     \* the operations clients may send
          SnapshotEvery, \* versions between two automatic snapshots (5)
          FeedCap,       \* notifications kept for a workspace (500)
          None,
          Quotas         \* bounds: edits, posts and presence moves of one behaviour

ASSUME CollaborationAssumption ==
  /\ SeedDocs \subseteq Doc
  /\ SnapshotEvery \in Nat \ {0}
  /\ FeedCap \in Nat /\ IsFiniteSet(User)
  /\ Quotas \subseteq [edits : Nat, posts : Nat, moves : Nat]
  /\ \A op \in Operation :
       /\ op.user \in User /\ op.type \in {"insert", "delete", "replace"}
       /\ op.pos \in Nat /\ op.length \in Nat /\ op.text \in Seq(Range(op.text))

VARIABLES documents,     \* documents[d]: CollaborativeDoc, None before its creation
          processed,     \* processedOpIds, one for all documents
          opLogs,        \* documentOpLogs[d]
          snapshots,     \* snapshots[d], newest first
          notifications, \* of the workspace, newest first
          connected,     \* open sockets
          sessions,      \* socketSessions[s]: user and document
          docRoom,       \* docRoom[d]: sockets in room doc:d
          views,         \* views[s][d]: version of the client's copy, 0 for none
          presence,      \* presence[u]: UserPresence, None without an entry
          quota,         \* what clients may still send
          applied,       \* history: ids of the operations applied, of all documents
          direct,        \* history: updates of d that carried no operation
          announced      \* history: newest version of d broadcast to its room

docVars == <<documents, processed, opLogs, snapshots, applied, direct>>
roomVars == <<connected, sessions, docRoom>>
clientVars == <<views, announced>>
vars == <<docVars, notifications, roomVars, clientVars, presence, quota>>

Created == {d \in Doc : documents[d] # None}

Content == Seq(UNION {Range(op.text) : op \in Operation})
CollaborativeDoc == [content : Content, version : Nat \ {0}, clock : [User -> Nat]]

ASSUME NoneAssumption == None \notin CollaborativeDoc

Spend(kind) == quota[kind] > 0 /\ quota' = [quota EXCEPT ![kind] = @ - 1]

NewDoc == [content |-> <<>>, version |-> 1, clock |-> NoClock]
Snapshot(doc) == [version |-> doc.version, content |-> doc.content]

Init ==
  /\ documents = [d \in Doc |-> IF d \in SeedDocs THEN NewDoc ELSE None]
  /\ snapshots = [d \in Doc |-> IF d \in SeedDocs THEN <<Snapshot(NewDoc)>> ELSE <<>>]
  /\ opLogs = [d \in Doc |-> <<>>]
  /\ processed = <<>> /\ notifications = <<>>
  /\ connected = {} /\ sessions = [s \in Socket |-> None]
  /\ docRoom = [d \in Doc |-> {}]
  /\ views = [s \in Socket |-> [d \in Doc |-> 0]]
  /\ presence = [u \in User |-> None]
  /\ quota \in Quotas
  /\ applied = <<>> /\ direct = [d \in Doc |-> 0]
  /\ announced = [d \in Doc |-> 0]

-----------------------------------------------------------------------------
(***************************************************************************)
(* Presence                                                                *)
(***************************************************************************)
\* updatePresence: what the request leaves out is kept from the old entry,
\* the status too.
Updated(entry, status, d) ==
  [status |-> IF status # None THEN status ELSE IF entry # None THEN entry.status ELSE "online",
   doc |-> IF d # None THEN d ELSE IF entry # None THEN entry.doc ELSE None,
   stale |-> FALSE]

\* pruneStaleConnections, which every read of the presence list runs first.
Pruned == [u \in User |->
  IF presence[u] # None /\ presence[u].stale /\ presence[u].status # "offline"
  THEN [presence[u] EXCEPT !.status = "idle"] ELSE presence[u]]

HandlePresenceUpdate(u) ==
  /\ Spend("moves")
  /\ \E status \in {None, "online", "idle"} :
       presence' = [presence EXCEPT ![u] = Updated(@, status, None)]
  /\ UNCHANGED <<docVars, notifications, roomVars, clientVars>>

\* Fault variant of HandleHeartbeat: a heartbeat refreshes the entry and keeps its status.
HandleHeartbeatKeepsStatus(u) ==
  /\ presence[u] # None
  /\ presence' = [presence EXCEPT ![u].stale = FALSE]
  /\ UNCHANGED <<docVars, notifications, roomVars, clientVars, quota>>

HandleHeartbeat(u) ==
  /\ presence[u] # None
  /\ presence' = [presence EXCEPT ![u] = [@ EXCEPT !.status = "online", !.stale = FALSE]]
  /\ UNCHANGED <<docVars, notifications, roomVars, clientVars, quota>>

\* STALE_THRESHOLD_MS pass since the entry was last refreshed.
TimePasses(u) ==
  /\ presence[u] # None
  /\ Spend("moves")
  /\ presence' = [presence EXCEPT ![u] = [@ EXCEPT !.stale = TRUE]]
  /\ UNCHANGED <<docVars, notifications, roomVars, clientVars>>

GetWorkspacePresence ==
  /\ presence' = Pruned
  /\ UNCHANGED <<docVars, notifications, roomVars, clientVars, quota>>

-----------------------------------------------------------------------------
(***************************************************************************)
(* Sockets, sessions and rooms                                             *)
(***************************************************************************)
HandleConnection(s) ==
  /\ s \notin connected
  /\ connected' = connected \cup {s}
  /\ UNCHANGED <<docVars, notifications, sessions, docRoom, clientVars, presence, quota>>

\* The user goes offline, whatever other sockets of the same user are open.
HandleDisconnect(s) ==
  /\ s \in connected
  /\ Spend("moves")
  /\ presence' = IF sessions[s] # None /\ presence[sessions[s].user] # None
                 THEN [presence EXCEPT ![sessions[s].user] =
                         [@ EXCEPT !.status = "offline", !.stale = FALSE]]
                 ELSE presence
  /\ sessions' = [sessions EXCEPT ![s] = None]
  /\ connected' = connected \ {s}
  /\ docRoom' = [d \in Doc |-> docRoom[d] \ {s}]
  /\ views' = [views EXCEPT ![s] = [d \in Doc |-> 0]]
  /\ UNCHANGED <<docVars, notifications, announced>>

HandleWorkspaceJoin(s, u) ==
  /\ s \in connected
  /\ Spend("moves")
  /\ sessions' = [sessions EXCEPT ![s] = [user |-> u, doc |-> None]]
  /\ presence' = Pruned
  /\ UNCHANGED <<docVars, notifications, connected, docRoom, clientVars>>

\* The room is joined before the document is looked up: for one that does
\* not exist the rest is not reached.
HandleDocJoin(s, u, d) ==
  /\ s \in connected
  /\ Spend("moves")
  /\ docRoom' = [docRoom EXCEPT ![d] = @ \cup {s}]
  /\ sessions' = IF sessions[s] = None THEN sessions
                 ELSE [sessions EXCEPT ![s] = [@ EXCEPT !.doc = d]]
  /\ IF d \in Created
     THEN /\ presence' = [presence EXCEPT ![u] = Updated(@, None, d)]
          /\ views' = [views EXCEPT ![s][d] = documents[d].version]
     ELSE UNCHANGED <<presence, views>>
  /\ UNCHANGED <<docVars, notifications, connected, announced>>

HandleDocLeave(s, d) ==
  /\ s \in docRoom[d]
  /\ docRoom' = [docRoom EXCEPT ![d] = @ \ {s}]
  /\ UNCHANGED <<docVars, notifications, connected, sessions, clientVars, presence, quota>>

-----------------------------------------------------------------------------
(***************************************************************************)
(* Documents                                                               *)
(***************************************************************************)
\* createDocument, of an id nothing was stored under.
CreateDocument(d) ==
  /\ d \notin Created
  /\ Spend("edits")
  /\ documents' = [documents EXCEPT ![d] = NewDoc]
  /\ snapshots' = [snapshots EXCEPT ![d] = <<Snapshot(NewDoc)>>]
  /\ UNCHANGED <<processed, opLogs, applied, direct, notifications, roomVars, clientVars, presence>>

\* Fault variant of AfterOperation: duplicates are applied as well.
AfterAnyOperation(d, op) == Edited(documents[d], op)

\* The document that updateDocument returns for an operation.
AfterOperation(d, op) ==
  IF IsDuplicate(processed, op) THEN documents[d] ELSE Edited(documents[d], op)

\* updateDocument with an operation.  A duplicate is not applied, but the
\* version is tested for a snapshot all the same.
UpdateByOperation(d, op) ==
  LET doc == AfterOperation(d, op) IN
  /\ documents' = [documents EXCEPT ![d] = doc]
  /\ IF IsDuplicate(processed, op)
     THEN UNCHANGED <<processed, applied, opLogs>>
     ELSE /\ processed' = Remember(processed, op.id)
          /\ applied' = Append(applied, op.id)
          /\ opLogs' = [opLogs EXCEPT ![d] = Append(@, op)]
  /\ snapshots' = IF doc.version % SnapshotEvery = 0
                  THEN [snapshots EXCEPT ![d] = <<Snapshot(doc)>> \o @] ELSE snapshots
  /\ UNCHANGED direct

\* Fault variant of HandleDocOperation: only the sender gets the document.
AnswerDocOperation(s, d, op) ==
  /\ s \in connected /\ d \in Created
  /\ Spend("edits")
  /\ UpdateByOperation(d, op)
  /\ announced' = [announced EXCEPT ![d] = documents'[d].version]
  /\ views' = [views EXCEPT ![s][d] = documents'[d].version]
  /\ UNCHANGED <<notifications, roomVars, presence>>

\* Everyone in the room gets the document, the sender as its answer.
HandleDocOperation(s, d, op) ==
  /\ s \in connected /\ d \in Created
  /\ Spend("edits")
  /\ UpdateByOperation(d, op)
  /\ announced' = [announced EXCEPT ![d] = documents'[d].version]
  /\ views' = [z \in Socket |-> IF z \in docRoom[d] \cup {s}
                                THEN [views[z] EXCEPT ![d] = documents'[d].version]
                                ELSE views[z]]
  /\ UNCHANGED <<notifications, roomVars, presence>>

\* PUT documents/:id with an operation: nobody is told.
PutOperation(d, op) ==
  /\ d \in Created
  /\ Spend("edits")
  /\ UpdateByOperation(d, op)
  /\ UNCHANGED <<notifications, roomVars, clientVars, presence>>

\* Fault variant of PutContent: a content is stored under the version it replaces.
PutContentKeepsVersion(d) ==
  /\ d \in Created
  /\ Spend("edits")
  /\ \E op \in Operation : documents' = [documents EXCEPT ![d].content = op.text]
  /\ direct' = [direct EXCEPT ![d] = @ + 1]
  /\ UNCHANGED <<processed, opLogs, snapshots, applied, notifications, roomVars, clientVars,
                 presence>>

\* PUT documents/:id with a content: no operation is logged, nobody is told.
PutContent(d) ==
  /\ d \in Created
  /\ Spend("edits")
  /\ \E op \in Operation :
       documents' = [documents EXCEPT ![d].content = op.text, ![d].version = @ + 1]
  /\ direct' = [direct EXCEPT ![d] = @ + 1]
  /\ UNCHANGED <<processed, opLogs, snapshots, applied, notifications, roomVars, clientVars,
                 presence>>

\* Fault variant of Notify: the cap is tested before the new one is counted.
NotifyOffByOne(list, n) ==
  IF Len(list) > FeedCap THEN SubSeq(<<n>> \o list, 1, Len(list)) ELSE <<n>> \o list

\* postComment: one notification per mention, the oldest dropped above the cap.
Notify(list, n) ==
  LET longer == <<n>> \o list
  IN IF Len(longer) > FeedCap THEN SubSeq(longer, 1, Len(longer) - 1) ELSE longer

\* The notifications after addNotification of each of the mentions, in their order.
Mentioned(d, mentions) ==
  LET sofar[n \in 0 .. Len(mentions)] ==
        IF n = 0 THEN notifications ELSE Notify(sofar[n - 1], [doc |-> d, to |-> mentions[n]])
  IN sofar[Len(mentions)]

\* A user who is mentioned twice is told once.
HandlePostComment(d) ==
  /\ d \in Created
  /\ Spend("posts")
  /\ \E told \in SUBSET User : \E mentions \in SetToSeqs(told) :
       notifications' = Mentioned(d, mentions)
  /\ UNCHANGED <<docVars, roomVars, clientVars, presence>>

-----------------------------------------------------------------------------
Next ==
  \/ \E u \in User : HandlePresenceUpdate(u) \/ HandleHeartbeat(u) \/ TimePasses(u)
  \/ GetWorkspacePresence
  \/ \E s \in Socket : HandleConnection(s) \/ HandleDisconnect(s)
  \/ \E s \in Socket, u \in User : HandleWorkspaceJoin(s, u)
  \/ \E s \in Socket, u \in User, d \in Doc : HandleDocJoin(s, u, d)
  \/ \E s \in Socket, d \in Doc : HandleDocLeave(s, d)
  \/ \E d \in Doc : CreateDocument(d) \/ PutContent(d) \/ HandlePostComment(d)
  \/ \E d \in Doc, op \in Operation :
       PutOperation(d, op) \/ \E s \in Socket : HandleDocOperation(s, d, op)

\* Clients send heartbeats as long as they are connected.
Fairness == \A s \in Socket :
  WF_vars(s \in connected /\ sessions[s] # None /\ HandleHeartbeat(sessions[s].user))

Spec == Init /\ [][Next]_vars /\ Fairness

-----------------------------------------------------------------------------
(***************************************************************************)
(* Properties                                                              *)
(***************************************************************************)
UserPresence == [status : {"online", "idle", "offline"}, doc : Doc \cup {None}, stale : BOOLEAN]

\* Types, the cap of the notification feed included.
TypeOK ==
  /\ documents \in [Doc -> CollaborativeDoc \cup {None}]
  /\ processed \in Seq({op.id : op \in Operation}) /\ Len(processed) <= ProcessedCap
  /\ opLogs \in [Doc -> Seq(Operation)]
  /\ notifications \in Seq([doc : Doc, to : User]) /\ Len(notifications) <= FeedCap
  /\ connected \subseteq Socket
  /\ sessions \in [Socket -> [user : User, doc : Doc \cup {None}] \cup {None}]
  /\ docRoom \in [Doc -> SUBSET connected]
  /\ views \in [Socket -> [Doc -> Nat]]
  /\ presence \in [User -> UserPresence \cup {None}]

\* The operations of a log, applied in order to the empty document.
Replay(log) ==
  LET content[n \in 0 .. Len(log)] == IF n = 0 THEN <<>> ELSE Mutate(content[n - 1], log[n])
  IN content[Len(log)]

\* The operation log replays to the document: every version after the first
\* is one logged operation or one direct update, and without a direct update
\* the log applied in order to the empty document gives its content.
LogExplainsDocument == \A d \in Created :
  /\ documents[d].version = 1 + Len(opLogs[d]) + direct[d]
  /\ direct[d] = 0 => documents[d].content = Replay(opLogs[d])

\* The version history is trustworthy: newest first, none ahead of the
\* document, and two snapshots of one version (a duplicate operation takes
\* another one) hold the same content.
SnapshotsAgree == \A d \in Created : \A i, j \in DOMAIN snapshots[d] :
  /\ snapshots[d][i].version <= documents[d].version
  /\ i < j => snapshots[d][i].version >= snapshots[d][j].version
  /\ snapshots[d][i].version = snapshots[d][j].version => snapshots[d][i] = snapshots[d][j]
  /\ snapshots[d][i].version = documents[d].version =>
       snapshots[d][i].content = documents[d].content

\* A retransmitted operation is applied again only after so many others that
\* the eviction of the oldest ids can have reached it.
DedupWindow == \A i, j \in DOMAIN applied :
  i < j /\ applied[i] = applied[j] => j - i > ProcessedCap + 1 - EvictCount

\* What the service says of a document's past holds together.
DocumentHistory == LogExplainsDocument /\ SnapshotsAgree /\ DedupWindow

\* No socket in a document's room is behind the last operation broadcast to
\* it (an update over HTTP is not broadcast: such a socket may be behind the
\* document itself).
RoomIsUpToDate == \A d \in Created : \A s \in docRoom[d] : views[s][d] >= announced[d]

HasSession(u) == \E s \in Socket : sessions[s] # None /\ sessions[s].user = u
IsOnline(u) == presence[u] # None /\ presence[u].status = "online"

\* A user who stays connected ends up online again whatever marked the entry
\* idle or offline: another tab that disconnects, a pruned heartbeat, a
\* status kept from before a reconnection.
ConnectedIsOnline == \A u \in User :
  HasSession(u) /\ presence[u] # None ~> IsOnline(u) \/ ~HasSession(u)
=============================================================================
