--------------------------- MODULE WorkspaceProofs ---------------------------
(***************************************************************************)
(* The invariants of Workspaces for any numbers of users, workspaces and   *)
(* overlapping calls.                                                      *)
(***************************************************************************)
EXTENDS Workspaces, FiniteSetTheorems, TLAPS

\* A call ends.
LEMMA ReturnType ==
  ASSUME CallTypeOK, NEW t \in Call, Return(t),
         \A i \in Invitation : inv[i].status # "unused" => inv'[i].status # "unused"
  PROVE  CallTypeOK'
<1>1. NoCall \in CallRecord /\ CallOK(NoCall) /\ NoCall.inv = None
  BY WorkspaceAssumption DEF NoCall, CallRecord, CallOK, Step, Ahead
<1>2. \A u \in Call : call'[u] = IF u = t THEN NoCall ELSE call[u]
  BY DEF Return, CallTypeOK
<1>3. call' \in [Call -> CallRecord] /\ overlap' \in BOOLEAN
  BY <1>1 DEF Return, CallTypeOK
<1>4. ASSUME NEW u \in Call
      PROVE  CallOK(call'[u]) /\ (call'[u].inv # None => inv'[call'[u].inv].status # "unused")
  <2>1. call[u] \in CallRecord
    BY DEF CallTypeOK
  <2>2. QED
    BY <1>1, <1>2, <2>1 DEF CallTypeOK, CallRecord
<1>5. QED
  BY <1>3, <1>4 DEF CallTypeOK

\* A call takes up or goes on with a record c that is in order.
LEMMA CallMove ==
  ASSUME CallTypeOK, NEW t \in Call, NEW c \in CallRecord, CallOK(c),
         call' = [call EXCEPT ![t] = c], overlap' \in BOOLEAN, inv' = inv,
         c.inv # None => inv[c.inv].status # "unused"
  PROVE  CallTypeOK'
<1>1. \A u \in Call : call'[u] = IF u = t THEN c ELSE call[u]
  BY DEF CallTypeOK
<1>2. call' \in [Call -> CallRecord]
  BY DEF CallTypeOK
<1>3. QED
  BY <1>1, <1>2 DEF CallTypeOK

\* The next repository call of the same service call.
LEMMA GotoType ==
  ASSUME CallTypeOK, NEW t \in Call, NEW step \in Step, Goto(t, step), inv' = inv,
         CallOK([call[t] EXCEPT !.at = step])
  PROVE  CallTypeOK'
<1> DEFINE c == [call[t] EXCEPT !.at = step]
<1>1. call[t] \in CallRecord
  BY DEF CallTypeOK
<1>2. c \in CallRecord /\ c.inv = call[t].inv
  BY <1>1 DEF CallRecord
<1>3. call' = [call EXCEPT ![t] = c] /\ overlap' \in BOOLEAN
  BY DEF Goto, CallTypeOK
<1>4. call[t].inv # None => inv[call[t].inv].status # "unused"
  BY DEF CallTypeOK
<1> HIDE DEF c
<1>5. CallOK(c)
  BY DEF c
<1>6. QED
  BY <1>2, <1>3, <1>4, <1>5, CallMove

\* A request, taken with a record that is in order.
LEMMA BeginType ==
  ASSUME TypeOK, NEW t \in Call, NEW c \in CallRecord, CallOK(c), Begin(t, c),
         c.inv # None => inv[c.inv].status # "unused",
         UNCHANGED <<spaceVars, memberVars, inviteVars>>
  PROVE  TypeOK'
<1>1. call' = [call EXCEPT ![t] = c] /\ overlap' \in BOOLEAN /\ inv' = inv
  BY DEF Begin, TypeOK, CallTypeOK, inviteVars
<1>2. CallTypeOK'
  BY <1>1, CallMove DEF TypeOK
<1>3. StoreTypeOK'
  BY DEF TypeOK, StoreTypeOK, spaceVars, memberVars, inviteVars
<1>4. QED
  BY <1>2, <1>3 DEF TypeOK

LEMMA NoCallType == NoCall \in CallRecord
BY WorkspaceAssumption DEF NoCall, CallRecord, Step

\* What a request begins with.
Asked(t, c) ==
  /\ Begin(t, c)
  /\ c.at \in {"create", "verify", "target", "expire", "join"}
  /\ c.at = "verify" => c.ws \in live
  /\ c.inv # None <=> c.at \in {"expire", "join"}
  /\ c.inv # None => inv[c.inv].status = "PENDING"

\* The calls that ask for admin access first.
LEMMA AskForm ==
  ASSUME NEW t \in Call, NEW u \in User, NEW w \in Workspace,
         NEW c \in CallRecord, Ask(t, u, w, c), c.at = "idle", c.inv = None,
         c.next \in {"update", "delete", "lookup", "target"},
         c.next = "update" => c.slug \in Slug,
         c.next \in {"lookup", "target"} => c.target \in User,
         c.next = "lookup" => c.role \in Role
  PROVE  \E d \in CallRecord : CallOK(d) /\ Asked(t, d)
<1> DEFINE d == [c EXCEPT !.at = "verify", !.by = u, !.ws = w]
<1>1. d \in CallRecord
  BY DEF CallRecord, Step
<1>2. /\ d.at = "verify" /\ d.by = u /\ d.ws = w /\ d.inv = None /\ d.next = c.next
      /\ d.slug = c.slug /\ d.target = c.target /\ d.role = c.role
  BY DEF CallRecord
<1>3. Begin(t, d) /\ w \in live
  BY DEF Ask
<1> HIDE DEF d
<1>4. CallOK(d) /\ Asked(t, d)
  BY <1>2, <1>3 DEF CallOK, Ahead, Asked
<1>5. QED
  BY <1>1, <1>4

\* Every request takes up a call record that is in order, and does no more.
LEMMA RequestForm ==
  ASSUME NEW t \in Call, Request(t)
  PROVE  /\ UNCHANGED <<spaceVars, memberVars, inviteVars>>
         /\ \E c \in CallRecord : CallOK(c) /\ Asked(t, c)
<1> USE WorkspaceAssumption
<1> DEFINE Form == \E c \in CallRecord : CallOK(c) /\ Asked(t, c)
<1>1. UNCHANGED <<spaceVars, memberVars, inviteVars>>
  BY DEF Request, CreateWorkspace, UpdateWorkspace, DeleteWorkspace, Leave, InviteMember,
         UpdateMemberRole, RemoveMember, AcceptInvitation, Ask
<1>2. ASSUME NEW u \in User, NEW s \in Slug, CreateWorkspace(t, u, s) PROVE Form
  <2> DEFINE c == [NoCall EXCEPT !.at = "create", !.by = u, !.slug = s]
  <2>1. c \in CallRecord /\ CallOK(c)
    BY DEF NoCall, CallRecord, CallOK, Step, Ahead
  <2>2. Asked(t, c)
    BY <1>2 DEF CreateWorkspace, Asked, NoCall
  <2> HIDE DEF c
  <2>3. QED
    BY <2>1, <2>2
<1>3. ASSUME NEW u \in User, NEW w \in Workspace, Leave(t, u, w) PROVE Form
  <2> DEFINE c == [NoCall EXCEPT !.at = "target", !.ws = w, !.target = u]
  <2>1. c \in CallRecord /\ CallOK(c)
    BY DEF NoCall, CallRecord, CallOK, Step, Ahead
  <2>2. Asked(t, c)
    BY <1>3 DEF Leave, Asked, NoCall
  <2> HIDE DEF c
  <2>3. QED
    BY <2>1, <2>2
<1>4. ASSUME NEW u \in User, NEW i \in Invitation, AcceptInvitation(t, u, i) PROVE Form
  <2> DEFINE c == [NoCall EXCEPT !.at = IF i \in late THEN "expire" ELSE "join",
                                 !.by = u, !.inv = i]
  <2>1. c \in CallRecord /\ CallOK(c)
    BY DEF NoCall, CallRecord, CallOK, Step, Ahead
  <2>2. Asked(t, c)
    BY <1>4 DEF AcceptInvitation, Asked, NoCall
  <2> HIDE DEF c
  <2>3. QED
    BY <2>1, <2>2
<1>5. ASSUME NEW u \in User, NEW w \in Workspace, NEW s \in Slug,
             UpdateWorkspace(t, u, w, s)
      PROVE  Form
  <2> DEFINE c == [NoCall EXCEPT !.next = "update", !.slug = s]
  <2>1. /\ c \in CallRecord /\ c.at = "idle" /\ c.inv = None
        /\ c.next = "update" /\ c.slug = s
    BY DEF NoCall, CallRecord, Step
  <2>2. Ask(t, u, w, c)
    BY <1>5 DEF UpdateWorkspace
  <2> HIDE DEF c
  <2>3. QED
    BY <2>1, <2>2, AskForm
<1>6. ASSUME NEW u \in User, NEW w \in Workspace,
             DeleteWorkspace(t, u, w)
      PROVE  Form
  <2> DEFINE c == [NoCall EXCEPT !.next = "delete"]
  <2>1. /\ c \in CallRecord /\ c.at = "idle" /\ c.inv = None
        /\ c.next = "delete"
    BY DEF NoCall, CallRecord, Step
  <2>2. Ask(t, u, w, c)
    BY <1>6 DEF DeleteWorkspace
  <2> HIDE DEF c
  <2>3. QED
    BY <2>1, <2>2, AskForm
<1>7. ASSUME NEW u \in User, NEW w \in Workspace, NEW v \in User, NEW r \in Role,
             InviteMember(t, u, w, v, r)
      PROVE  Form
  <2> DEFINE c == [NoCall EXCEPT !.next = "lookup", !.target = v, !.role = r]
  <2>1. /\ c \in CallRecord /\ c.at = "idle" /\ c.inv = None
        /\ c.next = "lookup" /\ c.target = v /\ c.role = r
    BY DEF NoCall, CallRecord, Step
  <2>2. Ask(t, u, w, c)
    BY <1>7 DEF InviteMember
  <2> HIDE DEF c
  <2>3. QED
    BY <2>1, <2>2, AskForm
<1>8. ASSUME NEW u \in User, NEW w \in Workspace, NEW v \in User, NEW r \in Role,
             UpdateMemberRole(t, u, w, v, r)
      PROVE  Form
  <2> DEFINE c == [NoCall EXCEPT !.next = "target", !.target = v, !.role = r]
  <2>1. /\ c \in CallRecord /\ c.at = "idle" /\ c.inv = None
        /\ c.next = "target" /\ c.target = v
    BY DEF NoCall, CallRecord, Step
  <2>2. Ask(t, u, w, c)
    BY <1>8 DEF UpdateMemberRole
  <2> HIDE DEF c
  <2>3. QED
    BY <2>1, <2>2, AskForm
<1>9. ASSUME NEW u \in User, NEW w \in Workspace, NEW v \in User,
             RemoveMember(t, u, w, v)
      PROVE  Form
  <2> DEFINE c == [NoCall EXCEPT !.next = "target", !.target = v]
  <2>1. /\ c \in CallRecord /\ c.at = "idle" /\ c.inv = None
        /\ c.next = "target" /\ c.target = v
    BY DEF NoCall, CallRecord, Step
  <2>2. Ask(t, u, w, c)
    BY <1>9 DEF RemoveMember
  <2> HIDE DEF c
  <2>3. QED
    BY <2>1, <2>2, AskForm
<1>10. QED
  BY <1>1, <1>2, <1>3, <1>4, <1>5, <1>6, <1>7, <1>8, <1>9 DEF Request

LEMMA RequestType ==
  ASSUME TypeOK, NEW t \in Call, Request(t)
  PROVE  TypeOK'
BY RequestForm, BeginType DEF Asked

\* A member record is written, and the count may move with it.
LEMMA RoleType ==
  ASSUME StoreTypeOK, NEW w \in Workspace, NEW u \in User, NEW r \in Role \cup {None},
         role' = [role EXCEPT ![w][u] = r]
  PROVE  role' \in [Workspace -> [User -> Role \cup {None}]]
<1> DEFINE rw == [role[w] EXCEPT ![u] = r]
<1>1. role[w] \in [User -> Role \cup {None}]
  BY DEF StoreTypeOK
<1>2. rw \in [User -> Role \cup {None}]
  BY <1>1
<1>3. role' = [role EXCEPT ![w] = rw]
  OBVIOUS
<1> HIDE DEF rw
<1>4. QED
  BY <1>2, <1>3 DEF StoreTypeOK

\* addMember keeps the store in order.
LEMMA AddMemberType ==
  ASSUME StoreTypeOK, NEW w \in Workspace, NEW u \in User, NEW r \in Role,
         AddMember(w, u, r) \/ UNCHANGED memberVars
  PROVE  /\ role' \in [Workspace -> [User -> Role \cup {None}]]
         /\ count' \in [Workspace -> Nat]
<1>1. CASE AddMember(w, u, r)
  <2>1. role' \in [Workspace -> [User -> Role \cup {None}]]
    BY <1>1, RoleType DEF AddMember
  <2>2. count' \in [Workspace -> Nat]
    BY <1>1 DEF AddMember, StoreTypeOK
  <2>3. QED
    BY <2>1, <2>2
<1>2. CASE UNCHANGED memberVars
  BY <1>2 DEF memberVars, StoreTypeOK
<1>3. QED
  BY <1>1, <1>2

\* One more repository call of a service call under way.
LEMMA AdvanceType ==
  ASSUME TypeOK, NEW t \in Call, Advance(t)
  PROVE  TypeOK'
<1> USE WorkspaceAssumption
<1>c. call[t] \in CallRecord /\ CallOK(call[t])
      /\ (call[t].inv # None => inv[call[t].inv].status # "unused")
  BY DEF TypeOK, CallTypeOK
<1> USE DEF TypeOK
<1>1. CASE CreateRow(t)
  <2>1. PICK w \in Unused :
          /\ live' = live \cup {w}
          /\ owner' = [owner EXCEPT ![w] = call[t].by]
          /\ slug' = [slug EXCEPT ![w] = call[t].slug]
          /\ bySlug' = [bySlug EXCEPT ![call[t].slug] = w]
          /\ count' = [count EXCEPT ![w] = 1]
          /\ call' = [call EXCEPT ![t].at = "addCreator", ![t].ws = w]
    BY <1>1 DEF CreateRow
  <2>2. w \in Workspace /\ call[t].by \in User /\ call[t].slug \in Slug /\ call[t].at = "create"
    BY <1>1, <1>c DEF CreateRow, Unused, CallOK, Ahead
  <2>3. StoreTypeOK'
    BY <1>1, <2>1, <2>2 DEF CreateRow, StoreTypeOK, inviteVars
  <2> DEFINE c == [call[t] EXCEPT !.at = "addCreator", !.ws = w]
  <2>4. c \in CallRecord /\ CallOK(c) /\ c.inv = call[t].inv
    BY <1>c, <2>2 DEF CallRecord, Step, CallOK, Ahead
  <2>5. call' = [call EXCEPT ![t] = c] /\ inv' = inv /\ overlap' \in BOOLEAN
    BY <1>1, <2>1, <1>c DEF CreateRow, CallTypeOK, inviteVars
  <2> HIDE DEF c
  <2>6. CallTypeOK'
    BY <2>4, <2>5, <1>c, CallMove
  <2>7. QED
    BY <2>3, <2>6
<1>2. CASE Verify(t)
  <2> DEFINE c == [call[t] EXCEPT !.at = call[t].next, !.next = "idle", !.by = None]
             d == IF HasAdminAccess(call[t].ws, call[t].by) THEN c ELSE NoCall
  <2>1. call[t].at = "verify" /\ call[t].next \in {"update", "delete", "lookup", "target"}
    BY <1>2, <1>c DEF Verify, CallOK
  <2>2. c \in CallRecord /\ CallOK(c) /\ c.inv = call[t].inv
    BY <1>c, <2>1 DEF CallRecord, Step, CallOK, Ahead
  <2>3. NoCall \in CallRecord /\ CallOK(NoCall) /\ NoCall.inv = None
    BY DEF NoCall, CallRecord, Step, CallOK, Ahead
  <2>4. call' = [call EXCEPT ![t] = d] /\ inv' = inv /\ overlap' \in BOOLEAN
    BY <1>2 DEF Verify, CallTypeOK, inviteVars
  <2> HIDE DEF c
  <2>5. d \in CallRecord /\ CallOK(d) /\ (d.inv # None => inv[d.inv].status # "unused")
    BY <2>2, <2>3, <1>c
  <2> HIDE DEF d
  <2>6. CallTypeOK'
    BY <2>4, <2>5, CallMove
  <2>7. StoreTypeOK'
    BY <1>2 DEF Verify, StoreTypeOK, spaceVars, memberVars, inviteVars
  <2>8. QED
    BY <2>6, <2>7
<1>3. CASE Lookup(t) \/ CheckNotMember(t) \/ FindTarget(t) \/ CountAdmins(t)
  <2>1. StoreTypeOK' /\ inv' = inv
    BY <1>3 DEF Lookup, CheckNotMember, FindTarget, CountAdmins, StoreTypeOK, spaceVars,
                memberVars, inviteVars
  <2>2. CASE Return(t)
    BY <2>1, <2>2, ReturnType
  <2>3. CASE Lookup(t) /\ Goto(t, "members")
    <3>1. CallOK([call[t] EXCEPT !.at = "members"])
      BY <1>c, <2>3 DEF Lookup, CallOK, CallRecord, Ahead
    <3>2. QED
      BY <2>1, <2>3, <3>1, GotoType DEF Step
  <2>4. CASE CheckNotMember(t) /\ Goto(t, "invite")
    <3>1. CallOK([call[t] EXCEPT !.at = "invite"])
      BY <1>c, <2>4 DEF CheckNotMember, CallOK, CallRecord, Ahead
    <3>2. QED
      BY <2>1, <2>4, <3>1, GotoType DEF Step
  <2>5. CASE FindTarget(t) /\ Goto(t, "count")
    <3>1. CallOK([call[t] EXCEPT !.at = "count"])
      BY <1>c, <2>5 DEF FindTarget, CallOK, CallRecord, Ahead
    <3>2. QED
      BY <2>1, <2>5, <3>1, GotoType DEF Step
  <2>6. CASE (FindTarget(t) \/ CountAdmins(t)) /\ Goto(t, "apply")
    <3>1. CallOK([call[t] EXCEPT !.at = "apply"])
      BY <1>c, <2>6 DEF FindTarget, CountAdmins, CallOK, CallRecord, Ahead
    <3>2. QED
      BY <2>1, <2>6, <3>1, GotoType DEF Step
  <2>7. QED
    BY <1>3, <2>2, <2>3, <2>4, <2>5, <2>6 DEF Lookup, CheckNotMember, FindTarget, CountAdmins
<1>4. CASE Join(t)
  <2> DEFINE i == inv[call[t].inv]
  <2>1. /\ call[t].at = "join" /\ call[t].by \in User /\ call[t].inv \in Invitation
        /\ i.ws \in Workspace /\ i.role \in Role
    BY <1>4, <1>c DEF Join, CallOK, StoreTypeOK, InvitationOK
  <2>2. StoreTypeOK'
    <3>1. AddMember(i.ws, call[t].by, i.role) \/ UNCHANGED memberVars
      BY <1>4 DEF Join
    <3>2. /\ role' \in [Workspace -> [User -> Role \cup {None}]]
          /\ count' \in [Workspace -> Nat]
      BY <2>1, <3>1, AddMemberType
    <3>3. QED
      BY <1>4, <3>2 DEF Join, StoreTypeOK, spaceVars, inviteVars
  <2>3. inv' = inv
    BY <1>4 DEF Join, inviteVars
  <2>4. CallOK([call[t] EXCEPT !.at = "accepted"])
    BY <1>c, <2>1 DEF CallOK, CallRecord, Ahead
  <2>5. Goto(t, "accepted") \/ Return(t)
    BY <1>4 DEF Join
  <2>6. CallTypeOK'
    BY <2>3, <2>4, <2>5, GotoType, ReturnType DEF Step
  <2>7. QED
    BY <2>2, <2>6
<1>5. CASE SlugTaken(t)
  BY <1>5, ReturnType DEF SlugTaken, StoreTypeOK, spaceVars, memberVars, inviteVars
<1>6. CASE AddCreator(t)
  <2>1. call[t].ws \in Workspace /\ call[t].by \in User
    BY <1>6, <1>c DEF AddCreator, CallOK
  <2>2. StoreTypeOK'
    <3>1. AddMember(call[t].ws, call[t].by, "ADMIN") \/ UNCHANGED memberVars
      BY <1>6 DEF AddCreator
    <3>2. /\ role' \in [Workspace -> [User -> Role \cup {None}]]
          /\ count' \in [Workspace -> Nat]
      BY <2>1, <3>1, AddMemberType
    <3>3. QED
      BY <1>6, <3>2 DEF AddCreator, StoreTypeOK, spaceVars, inviteVars
  <2>3. QED
    BY <1>6, <2>2, ReturnType DEF AddCreator, inviteVars
<1>7. CASE UpdateRow(t)
  <2>1. call[t].ws \in Workspace /\ call[t].slug \in Slug
    BY <1>7, <1>c DEF UpdateRow, CallOK, Ahead
  <2>2. StoreTypeOK'
    BY <1>7, <2>1 DEF UpdateRow, StoreTypeOK, memberVars, inviteVars
  <2>3. QED
    BY <1>7, <2>2, ReturnType DEF UpdateRow, inviteVars
<1>8. CASE DeleteRow(t)
  <2>1. call[t].ws \in Workspace
    BY <1>8, <1>c DEF DeleteRow, CallOK
  <2>2. CASE UNCHANGED <<live, bySlug, role, inv>>
    BY <1>8, <2>2, ReturnType DEF DeleteRow, StoreTypeOK
  <2>3. CASE /\ live' = live \ {call[t].ws}
             /\ bySlug' = [bySlug EXCEPT ![slug[call[t].ws]] = None]
             /\ Cascade(call[t].ws)
    <3>1. role' \in [Workspace -> [User -> Role \cup {None}]]
      BY <2>1, <2>3 DEF Cascade, StoreTypeOK
    <3>2. inv' \in [Invitation -> [ws : Workspace \cup {None}, role : Role \cup {None},
                                   status : Status]]
      BY <2>3 DEF Cascade, StoreTypeOK, Status
    <3>3. \A i \in Invitation :
            /\ InvitationOK(inv'[i])
            /\ inv[i].status # "unused" => inv'[i].status # "unused"
      BY <2>1, <2>3 DEF Cascade, InvitationsOf, StoreTypeOK, InvitationOK
    <3>4. StoreTypeOK'
      BY <1>8, <2>1, <2>3, <3>1, <3>2, <3>3 DEF DeleteRow, StoreTypeOK
    <3>5. QED
      BY <1>8, <3>3, <3>4, ReturnType DEF DeleteRow
  <2>4. QED
    BY <1>8, <2>2, <2>3 DEF DeleteRow
<1>9. CASE CreateInvitation(t)
  <2>1. call[t].ws \in Workspace /\ call[t].role \in Role
    BY <1>9, <1>c DEF CreateInvitation, CallOK, Ahead
  <2>2. StoreTypeOK' /\ \A i \in Invitation : inv[i].status # "unused" => inv'[i].status # "unused"
    BY <1>9, <2>1 DEF CreateInvitation, StoreTypeOK, InvitationOK, Status, Fresh, spaceVars, memberVars
  <2>3. QED
    BY <1>9, <2>2, ReturnType DEF CreateInvitation
<1>10. CASE MarkExpired(t) \/ MarkAccepted(t)
  <2>1. call[t].inv \in Invitation /\ inv[call[t].inv].status # "unused"
    BY <1>10, <1>c DEF MarkExpired, MarkAccepted, CallOK
  <2>2. PICK st \in {"EXPIRED", "ACCEPTED"} : SetStatus(call[t].inv, st)
    BY <1>10 DEF MarkExpired, MarkAccepted
  <2>3. StoreTypeOK' /\ \A i \in Invitation : inv[i].status # "unused" => inv'[i].status # "unused"
    BY <1>10, <2>1, <2>2 DEF MarkExpired, MarkAccepted, SetStatus, StoreTypeOK, InvitationOK,
                             Status, spaceVars, memberVars
  <2>4. QED
    BY <1>10, <2>3, ReturnType DEF MarkExpired, MarkAccepted
<1>11. CASE ApplyRole(t)
  <2>1. call[t].ws \in Workspace /\ call[t].target \in User /\ call[t].role \in Role \cup {None}
    BY <1>11, <1>c DEF ApplyRole, CallOK, CallRecord, Ahead
  <2>2. role' \in [Workspace -> [User -> Role \cup {None}]]
    BY <1>11, <2>1, RoleType DEF ApplyRole, memberVars, StoreTypeOK
  <2>3. count' \in [Workspace -> Nat]
    BY <1>11, <2>1 DEF ApplyRole, memberVars, StoreTypeOK
  <2>4. StoreTypeOK'
    BY <1>11, <2>2, <2>3 DEF ApplyRole, StoreTypeOK, spaceVars, inviteVars
  <2>5. QED
    BY <1>11, <2>4, ReturnType DEF ApplyRole, inviteVars
<1>12. QED
  BY <1>1, <1>2, <1>3, <1>4, <1>5, <1>6, <1>7, <1>8, <1>9, <1>10, <1>11 DEF Advance

LEMMA NextType == TypeOK /\ [Next]_vars => TypeOK'
<1> SUFFICES ASSUME TypeOK, [Next]_vars PROVE TypeOK'
  OBVIOUS
<1>1. CASE \E t \in Call : Request(t) \/ Advance(t)
  BY <1>1, RequestType, AdvanceType
<1>2. CASE \E i \in Invitation : ExpiresAtPasses(i)
  BY <1>2 DEF ExpiresAtPasses, TypeOK, StoreTypeOK, CallTypeOK, spaceVars, memberVars
<1>3. CASE UNCHANGED vars
  BY <1>3 DEF vars, TypeOK, StoreTypeOK, CallTypeOK, spaceVars, memberVars, inviteVars
<1>4. QED
  BY <1>1, <1>2, <1>3 DEF Next

LEMMA InitType == Init => TypeOK
<1> SUFFICES ASSUME Init PROVE TypeOK
  OBVIOUS
<1>1. \A t \in Call : call[t] = NoCall
  BY DEF Init
<1>2. CallOK(NoCall) /\ NoCall.inv = None
  BY WorkspaceAssumption DEF NoCall, CallOK, Ahead
<1>3. call \in [Call -> CallRecord]
  BY NoCallType DEF Init
<1>4. CallTypeOK
  BY <1>1, <1>2, <1>3 DEF Init, CallTypeOK
<1>5. StoreTypeOK
  BY WorkspaceAssumption DEF Init, StoreTypeOK, InvitationOK, Status
<1>6. QED
  BY <1>4, <1>5 DEF TypeOK

(***************************************************************************)
(* Every service call keeps the maps of the repository in order, and has   *)
(* the arguments its next repository call takes.                           *)
(***************************************************************************)
THEOREM WorkspaceTypes == Spec => []TypeOK
BY InitType, NextType, PTL DEF Spec

-----------------------------------------------------------------------------
\* An id in the map has been given out.
LiveUsed == \A w \in live : owner[w] # None

LEMMA InitSpace == Init => SlugsIndexed /\ LiveUsed
BY WorkspaceAssumption DEF Init, SlugsIndexed, LiveUsed

\* Three repository calls write the workspaces or their index.
LEMMA SpaceSteps ==
  ASSUME [Next]_vars
  PROVE  UNCHANGED spaceVars \/ \E t \in Call : CreateRow(t) \/ UpdateRow(t) \/ DeleteRow(t)
<1>1. ASSUME NEW t \in Call, Request(t) PROVE UNCHANGED spaceVars
  BY <1>1 DEF Request, CreateWorkspace, UpdateWorkspace, DeleteWorkspace, Leave, InviteMember,
              UpdateMemberRole, RemoveMember, AcceptInvitation, Ask
<1>2. ASSUME NEW t \in Call, Advance(t)
      PROVE  UNCHANGED spaceVars \/ CreateRow(t) \/ UpdateRow(t) \/ DeleteRow(t)
  BY <1>2 DEF Advance, SlugTaken, AddCreator, Verify, Lookup, CheckNotMember,
              CreateInvitation, MarkExpired, Join, MarkAccepted, FindTarget, CountAdmins,
              ApplyRole
<1>3. QED
  BY <1>1, <1>2 DEF Next, ExpiresAtPasses, vars

LEMMA NextSpace == TypeOK /\ SlugsIndexed /\ LiveUsed /\ [Next]_vars
                     => SlugsIndexed' /\ LiveUsed'
<1> SUFFICES ASSUME TypeOK, SlugsIndexed, LiveUsed, [Next]_vars PROVE SlugsIndexed' /\ LiveUsed'
  OBVIOUS
<1> USE WorkspaceAssumption DEF SlugsIndexed, LiveUsed
<1>1. CASE UNCHANGED spaceVars
  BY <1>1 DEF spaceVars
<1>2. ASSUME NEW t \in Call, CreateRow(t) PROVE SlugsIndexed' /\ LiveUsed'
  <2>1. call[t].by \in User /\ call[t].slug \in Slug
    BY <1>2 DEF CreateRow, TypeOK, CallTypeOK, CallOK, Ahead
  <2>2. PICK w \in Workspace :
          /\ owner[w] = None
          /\ live' = live \cup {w}
          /\ owner' = [owner EXCEPT ![w] = call[t].by]
          /\ slug' = [slug EXCEPT ![w] = call[t].slug]
          /\ bySlug' = [bySlug EXCEPT ![call[t].slug] = w]
    BY <1>2 DEF CreateRow, Unused
  <2>3. bySlug[call[t].slug] = None /\ w \notin live
    BY <1>2, <2>2 DEF CreateRow
  <2>4. QED
    BY <2>1, <2>2, <2>3 DEF TypeOK, StoreTypeOK
<1>3. ASSUME NEW t \in Call, UpdateRow(t) PROVE SlugsIndexed' /\ LiveUsed'
  <2>1. call[t].ws \in Workspace /\ call[t].slug \in Slug
    BY <1>3 DEF UpdateRow, TypeOK, CallTypeOK, CallOK, Ahead
  <2>2. QED
    BY <1>3, <2>1 DEF UpdateRow, TypeOK, StoreTypeOK
<1>4. ASSUME NEW t \in Call, DeleteRow(t) PROVE SlugsIndexed' /\ LiveUsed'
  <2>1. call[t].ws \in Workspace
    BY <1>4 DEF DeleteRow, TypeOK, CallTypeOK, CallOK
  <2>2. QED
    BY <1>4, <2>1 DEF DeleteRow, TypeOK, StoreTypeOK
<1>5. QED
  BY <1>1, <1>2, <1>3, <1>4, SpaceSteps

(***************************************************************************)
(* A slug names the one live workspace that has it, however many creations,*)
(* renamings and deletions are under way.                                  *)
(***************************************************************************)
THEOREM SlugIndexInSync == Spec => []SlugsIndexed
<1>1. Init => TypeOK /\ SlugsIndexed /\ LiveUsed
  BY InitType, InitSpace
<1>2. (TypeOK /\ SlugsIndexed /\ LiveUsed) /\ [Next]_vars => (TypeOK /\ SlugsIndexed /\ LiveUsed)'
  BY NextType, NextSpace
<1>3. QED
  BY <1>1, <1>2, PTL DEF Spec

-----------------------------------------------------------------------------
\* Calls, invitations and member records only ever name ids given out.
CallsGiven ==
  \A t \in Call : call[t].at \in {"addCreator", "verify", "lookup", "members", "invite"} =>
                  owner[call[t].ws] # None
InvitationsGiven == \A i \in Invitation : inv[i].status # "unused" => owner[inv[i].ws] # None
UnusedEmpty == \A w \in Unused : Members(w) = {}

IdsGiven == LiveUsed /\ CallsGiven /\ InvitationsGiven /\ UnusedEmpty

CountInv == IdsGiven /\ CountFollowsMembers

LEMMA MembersFinite ==
  ASSUME NEW w \in Workspace
  PROVE  IsFiniteSet(Members(w)) /\ Cardinality(Members(w)) \in Nat
BY WorkspaceAssumption, FS_Subset, FS_CardinalityType DEF Members

LEMMA InitCount == Init => CountInv
<1> SUFFICES ASSUME Init PROVE CountInv
  OBVIOUS
<1>1. LiveUsed
  BY InitSpace
<1>2. CallsGiven /\ InvitationsGiven
  BY DEF Init, CallsGiven, InvitationsGiven, NoCall
<1>3. UnusedEmpty
  BY DEF Init, UnusedEmpty, Unused, Members
<1>4. CountFollowsMembers
  BY DEF Init, CountFollowsMembers
<1>5. QED
  BY <1>1, <1>2, <1>3, <1>4 DEF CountInv, IdsGiven

\* Steps that leave the workspaces and the members alone.
LEMMA CountKept ==
  ASSUME CountInv, UNCHANGED <<spaceVars, memberVars>>, CallsGiven', InvitationsGiven'
  PROVE  CountInv'
BY DEF CountInv, IdsGiven, LiveUsed, UnusedEmpty, Unused, Members, CountFollowsMembers,
       spaceVars, memberVars

\* The calls that are left stay in order when one goes away or moves to a
\* step that names no new workspace.
LEMMA CallsKept ==
  ASSUME TypeOK, CallsGiven, NEW t \in Call, NEW c,
         call' = [call EXCEPT ![t] = c],
         c.at \in {"addCreator", "verify", "lookup", "members", "invite"} => owner'[c.ws] # None,
         \A w \in Workspace : owner[w] # None => owner'[w] # None
  PROVE  CallsGiven'
<1>1. \A u \in Call : call'[u] = IF u = t THEN c ELSE call[u]
  BY DEF TypeOK, CallTypeOK
<1>2. \A u \in Call : call[u].at \in {"addCreator", "verify", "lookup", "members", "invite"} =>
                       call[u].ws \in Workspace
  BY DEF TypeOK, CallTypeOK, CallOK
<1>3. QED
  BY <1>1, <1>2 DEF CallsGiven

\* addMember of a user with no record, in a workspace that has been given out.
LEMMA AddMemberCount ==
  ASSUME TypeOK, CountInv, NEW w \in Workspace, NEW u \in User, NEW r \in Role,
         owner[w] # None, role[w][u] = None, AddMember(w, u, r), UNCHANGED spaceVars
  PROVE  CountFollowsMembers' /\ UnusedEmpty'
<1> USE WorkspaceAssumption
<1>1. \A v \in Workspace, x \in User : role'[v][x] = IF v = w /\ x = u THEN r ELSE role[v][x]
  BY DEF AddMember, TypeOK, StoreTypeOK
<1>2. \A v \in Workspace \ {w} : Members(v)' = Members(v)
  BY <1>1 DEF Members
<1>3. Members(w)' = Members(w) \cup {u} /\ u \notin Members(w)
  BY <1>1 DEF Members
<1>4. Cardinality(Members(w)') = Cardinality(Members(w)) + 1
  BY <1>3, MembersFinite, FS_AddElement
<1>5. CountFollowsMembers'
  BY <1>2, <1>4, MembersFinite
     DEF AddMember, CountInv, CountFollowsMembers, TypeOK, StoreTypeOK, spaceVars
<1>6. UnusedEmpty'
  BY <1>2 DEF CountInv, IdsGiven, UnusedEmpty, Unused, spaceVars
<1>7. QED
  BY <1>5, <1>6

LEMMA RequestCount ==
  ASSUME TypeOK, CountInv, NEW t \in Call, Request(t)
  PROVE  CountInv'
<1>1. UNCHANGED <<spaceVars, memberVars, inviteVars>>
  BY RequestForm
<1>2. PICK c \in CallRecord : Asked(t, c)
  BY RequestForm
<1>3. CallsGiven'
  BY <1>1, <1>2, CallsKept DEF Asked, Begin, CountInv, IdsGiven, LiveUsed, spaceVars
<1>4. InvitationsGiven'
  BY <1>1 DEF CountInv, IdsGiven, InvitationsGiven, spaceVars, inviteVars
<1>5. QED
  BY <1>1, <1>3, <1>4, CountKept

\* A call that ends names no workspace.
LEMMA ReturnGiven ==
  ASSUME TypeOK, CallsGiven, NEW t \in Call, Return(t),
         \A w \in Workspace : owner[w] # None => owner'[w] # None
  PROVE  CallsGiven'
BY CallsKept DEF Return, NoCall

LEMMA AdvanceCount ==
  ASSUME TypeOK, CountInv, NEW t \in Call, Advance(t)
  PROVE  CountInv'
<1> USE WorkspaceAssumption
<1>c. call[t] \in CallRecord /\ CallOK(call[t])
  BY DEF TypeOK, CallTypeOK
<1>g. LiveUsed /\ CallsGiven /\ InvitationsGiven /\ UnusedEmpty /\ CountFollowsMembers
  BY DEF CountInv, IdsGiven
<1>1. ASSUME CreateRow(t) PROVE CountInv'
  <2>1. PICK w \in Unused :
          /\ live' = live \cup {w}
          /\ owner' = [owner EXCEPT ![w] = call[t].by]
          /\ count' = [count EXCEPT ![w] = 1]
          /\ call' = [call EXCEPT ![t].at = "addCreator", ![t].ws = w]
    BY <1>1 DEF CreateRow
  <2>2. w \in Workspace /\ owner[w] = None /\ call[t].by \in User
    BY <1>1, <1>c DEF CreateRow, Unused, CallOK
  <2>3. /\ \A v \in Workspace : owner[v] # None => owner'[v] # None
        /\ owner'[w] # None
        /\ \A v \in Workspace \ {w} : owner'[v] = owner[v] /\ count'[v] = count[v]
        /\ count'[w] = 1
    BY <2>1, <2>2 DEF TypeOK, StoreTypeOK
  <2> DEFINE c == [call[t] EXCEPT !.at = "addCreator", !.ws = w]
  <2>4. c.ws = w /\ call' = [call EXCEPT ![t] = c]
    BY <1>c, <2>1 DEF CallRecord
  <2> HIDE DEF c
  <2>5. CallsGiven'
    BY <1>g, <2>3, <2>4, CallsKept
  <2>6. InvitationsGiven'
    BY <1>1, <1>g, <2>3 DEF CreateRow, InvitationsGiven, inviteVars, TypeOK, StoreTypeOK,
                            InvitationOK
  <2>7. LiveUsed' /\ UnusedEmpty'
    BY <1>1, <1>g, <2>1, <2>3 DEF CreateRow, LiveUsed, UnusedEmpty, Unused, Members, TypeOK,
                                  StoreTypeOK
  <2>8. Members(w) = {} /\ \A v \in Workspace : Members(v)' = Members(v)
    BY <1>1, <1>g, <2>1 DEF CreateRow, UnusedEmpty, Members
  <2>9. ASSUME NEW v \in live' \ Seed PROVE count'[v] = Cardinality(Members(v)') + 1
    <3>1. CASE v = w
      <4>1. Members(w)' = {}
        BY <2>2, <2>8
      <4>2. Cardinality(Members(w)') = 0
        BY <4>1, FS_EmptySet
      <4>3. QED
        BY <2>3, <3>1, <4>2
    <3>2. CASE v # w
      BY <1>g, <2>1, <2>3, <2>8, <3>2 DEF CountFollowsMembers, TypeOK, StoreTypeOK
    <3>3. QED
      BY <3>1, <3>2
  <2>10. CountFollowsMembers'
    BY <2>9 DEF CountFollowsMembers
  <2>11. QED
    BY <2>5, <2>6, <2>7, <2>10 DEF CountInv, IdsGiven
<1>2. ASSUME SlugTaken(t) \/ CheckNotMember(t) \/ FindTarget(t) \/ CountAdmins(t) \/ Lookup(t)
      PROVE  CountInv'
  <2>1. UNCHANGED <<spaceVars, memberVars, inviteVars>>
    BY <1>2 DEF SlugTaken, CheckNotMember, FindTarget, CountAdmins, Lookup
  <2>2. InvitationsGiven' /\ owner' = owner
    BY <1>g, <2>1 DEF InvitationsGiven, spaceVars, inviteVars
  <2>3. CASE Return(t)
    BY <1>g, <2>1, <2>2, <2>3, ReturnGiven, CountKept
  <2>4. ASSUME NEW step \in {"members", "invite", "count", "apply"}, Goto(t, step),
               step \in {"members", "invite"} => call[t].at \in {"lookup", "members"}
        PROVE  CountInv'
    <3> DEFINE c == [call[t] EXCEPT !.at = step]
    <3>1. c.at = step /\ c.ws = call[t].ws /\ call' = [call EXCEPT ![t] = c]
      BY <1>c, <2>4 DEF Goto, CallRecord
    <3> HIDE DEF c
    <3>2. c.at \in {"addCreator", "verify", "lookup", "members", "invite"} => owner'[c.ws] # None
      BY <1>g, <2>2, <2>4, <3>1 DEF CallsGiven
    <3>3. CallsGiven'
      BY <1>g, <2>2, <3>1, <3>2, CallsKept
    <3>4. QED
      BY <2>1, <2>2, <3>3, CountKept
  <2>5. QED
    BY <1>2, <2>3, <2>4 DEF SlugTaken, CheckNotMember, FindTarget, CountAdmins, Lookup
<1>3. ASSUME Verify(t) PROVE CountInv'
  <2> DEFINE c == IF HasAdminAccess(call[t].ws, call[t].by)
                  THEN [call[t] EXCEPT !.at = call[t].next, !.next = "idle", !.by = None]
                  ELSE NoCall
  <2>1. call' = [call EXCEPT ![t] = c] /\ UNCHANGED <<spaceVars, memberVars, inviteVars>>
    BY <1>3 DEF Verify
  <2>2. c.ws = call[t].ws \/ c.at = "idle"
    BY <1>c DEF CallRecord, NoCall
  <2>3. owner[call[t].ws] # None
    BY <1>3, <1>g DEF Verify, CallsGiven
  <2> HIDE DEF c
  <2>4. InvitationsGiven' /\ owner' = owner
    BY <1>g, <2>1 DEF InvitationsGiven, spaceVars, inviteVars
  <2>5. CallsGiven'
    BY <1>g, <2>1, <2>2, <2>3, <2>4, CallsKept
  <2>6. QED
    BY <2>1, <2>4, <2>5, CountKept
<1>4. ASSUME UpdateRow(t) PROVE CountInv'
  <2>1. owner' = owner /\ live' = live /\ inv' = inv /\ UNCHANGED memberVars
    BY <1>4 DEF UpdateRow, inviteVars
  <2>2. CallsGiven'
    BY <1>4, <1>g, <2>1, ReturnGiven DEF UpdateRow
  <2>3. QED
    BY <1>g, <2>1, <2>2 DEF CountInv, IdsGiven, LiveUsed, InvitationsGiven, UnusedEmpty, Unused,
                            Members, CountFollowsMembers, memberVars
<1>5. ASSUME DeleteRow(t) PROVE CountInv'
  <2>1. call[t].ws \in Workspace /\ owner' = owner /\ count' = count
    BY <1>5, <1>c DEF DeleteRow, CallOK
  <2>2. CallsGiven'
    BY <1>5, <1>g, <2>1, ReturnGiven DEF DeleteRow
  <2>3. CASE UNCHANGED <<live, bySlug, role, inv>>
    BY <1>g, <2>1, <2>2, <2>3 DEF CountInv, IdsGiven, LiveUsed, InvitationsGiven, UnusedEmpty,
                                  Unused, Members, CountFollowsMembers
  <2>4. CASE live' = live \ {call[t].ws} /\ Cascade(call[t].ws)
    <3>1. \A i \in Invitation : /\ inv'[i].ws = inv[i].ws
                                /\ inv'[i].status # "unused" => inv[i].status # "unused"
      BY <2>1, <2>4 DEF Cascade, InvitationsOf, TypeOK, StoreTypeOK, InvitationOK
    <3>2. InvitationsGiven' /\ LiveUsed'
      <4>1. InvitationsGiven'
        BY <1>g, <2>1, <3>1 DEF InvitationsGiven
      <4>2. LiveUsed'
        BY <1>g, <2>1, <2>4 DEF LiveUsed
      <4>3. QED
        BY <4>1, <4>2
    <3>3. \A w \in Workspace : Members(w)' = IF w = call[t].ws THEN {} ELSE Members(w)
      BY <2>1, <2>4 DEF Cascade, Members, TypeOK, StoreTypeOK
    <3>4. UnusedEmpty' /\ CountFollowsMembers'
      BY <1>g, <2>1, <2>4, <3>3 DEF UnusedEmpty, Unused, CountFollowsMembers, TypeOK, StoreTypeOK
    <3>5. QED
      BY <2>2, <3>2, <3>4 DEF CountInv, IdsGiven
  <2>5. QED
    BY <1>5, <2>3, <2>4 DEF DeleteRow
<1>6. ASSUME CreateInvitation(t) \/ MarkExpired(t) \/ MarkAccepted(t) PROVE CountInv'
  <2>1. UNCHANGED <<spaceVars, memberVars>> /\ Return(t)
    BY <1>6 DEF CreateInvitation, MarkExpired, MarkAccepted
  <2>2. CallsGiven' /\ owner' = owner
    BY <1>g, <2>1, ReturnGiven DEF spaceVars
  <2>3. CASE CreateInvitation(t)
    <3>1. owner[call[t].ws] # None
      BY <1>g, <2>3 DEF CreateInvitation, CallsGiven
    <3>2. InvitationsGiven'
      BY <1>g, <2>2, <2>3, <3>1 DEF CreateInvitation, InvitationsGiven, TypeOK, StoreTypeOK
    <3>3. QED
      BY <2>1, <2>2, <3>2, CountKept
  <2>4. CASE MarkExpired(t) \/ MarkAccepted(t)
    <3>1. call[t].inv \in Invitation /\ inv[call[t].inv].status # "unused"
      BY <1>c, <2>4, WorkspaceAssumption
         DEF MarkExpired, MarkAccepted, CallOK, TypeOK, CallTypeOK
    <3>2. PICK st \in {"EXPIRED", "ACCEPTED"} : SetStatus(call[t].inv, st)
      BY <2>4 DEF MarkExpired, MarkAccepted
    <3>3. InvitationsGiven'
      BY <1>g, <2>2, <3>1, <3>2 DEF SetStatus, InvitationsGiven, TypeOK, StoreTypeOK
    <3>4. QED
      BY <2>1, <2>2, <3>3, CountKept
  <2>5. QED
    BY <1>6, <2>3, <2>4
<1>7. ASSUME AddCreator(t) PROVE CountInv'
  <2>1. /\ call[t].ws \in Workspace /\ call[t].by \in User /\ owner[call[t].ws] # None
        /\ UNCHANGED <<spaceVars, inviteVars>> /\ Return(t)
    BY <1>7, <1>c, <1>g DEF AddCreator, CallOK, CallsGiven
  <2>2. CallsGiven' /\ InvitationsGiven' /\ LiveUsed'
    BY <1>g, <2>1, ReturnGiven DEF spaceVars, inviteVars, InvitationsGiven, LiveUsed
  <2>3. CASE role[call[t].ws][call[t].by] = None /\ AddMember(call[t].ws, call[t].by, "ADMIN")
    BY <2>1, <2>2, <2>3, AddMemberCount DEF CountInv, IdsGiven
  <2>4. CASE UNCHANGED memberVars
    BY <2>1, <2>2, <2>4, CountKept
  <2>5. QED
    BY <1>7, <2>3, <2>4 DEF AddCreator
<1>8. ASSUME Join(t) PROVE CountInv'
  <2> DEFINE i == inv[call[t].inv]
  <2>1. /\ call[t].inv \in Invitation /\ call[t].by \in User
        /\ i.ws \in Workspace /\ i.role \in Role /\ owner[i.ws] # None
    BY <1>8, <1>c, <1>g DEF Join, CallOK, TypeOK, CallTypeOK, StoreTypeOK, InvitationOK,
                            InvitationsGiven
  <2>2. UNCHANGED <<spaceVars, inviteVars>> /\ owner' = owner
    BY <1>8 DEF Join, spaceVars
  <2>3. InvitationsGiven' /\ LiveUsed'
    BY <1>g, <2>2 DEF spaceVars, inviteVars, InvitationsGiven, LiveUsed
  <2>4. CASE role[i.ws][call[t].by] = None /\ AddMember(i.ws, call[t].by, i.role)
             /\ Goto(t, "accepted")
    <3> DEFINE c == [call[t] EXCEPT !.at = "accepted"]
    <3>1. c.at = "accepted" /\ call' = [call EXCEPT ![t] = c]
      BY <1>c, <2>4 DEF Goto, CallRecord
    <3> HIDE DEF c
    <3>2. CallsGiven'
      BY <1>g, <2>2, <3>1, CallsKept
    <3>3. CountFollowsMembers' /\ UnusedEmpty'
      BY <2>1, <2>2, <2>4, AddMemberCount
    <3>4. QED
      BY <2>3, <3>2, <3>3 DEF CountInv, IdsGiven
  <2>5. CASE Return(t) /\ UNCHANGED memberVars
    BY <1>g, <2>2, <2>3, <2>5, ReturnGiven, CountKept
  <2>6. QED
    BY <1>8, <2>4, <2>5 DEF Join
<1>9. ASSUME ApplyRole(t) PROVE CountInv'
  <2> DEFINE c == call[t]
  <2>1. /\ c.ws \in Workspace /\ c.target \in User /\ c.role \in Role \cup {None}
        /\ UNCHANGED <<spaceVars, inviteVars>> /\ Return(t)
    BY <1>9, <1>c DEF ApplyRole, CallOK, CallRecord, Ahead
  <2>2. CallsGiven' /\ InvitationsGiven' /\ LiveUsed'
    BY <1>g, <2>1, ReturnGiven DEF spaceVars, inviteVars, InvitationsGiven, LiveUsed
  <2>3. CASE UNCHANGED memberVars
    BY <2>1, <2>2, <2>3, CountKept
  <2>4. CASE /\ role[c.ws][c.target] # None
             /\ role' = [role EXCEPT ![c.ws][c.target] = c.role]
             /\ count' = IF c.role = None /\ c.ws \in live /\ count[c.ws] > 0
                         THEN [count EXCEPT ![c.ws] = @ - 1] ELSE count
    <3>1. \A v \in Workspace, x \in User :
            role'[v][x] = IF v = c.ws /\ x = c.target THEN c.role ELSE role[v][x]
      BY <2>1, <2>4 DEF TypeOK, StoreTypeOK
    <3>2. \A v \in Workspace \ {c.ws} : Members(v)' = Members(v)
      BY <3>1 DEF Members
    <3>3. c.target \in Members(c.ws)
      BY <2>1, <2>4 DEF Members
    <3>4. UnusedEmpty'
      BY <1>g, <2>1, <3>2, <3>3 DEF UnusedEmpty, Unused, spaceVars
    <3>5. ASSUME NEW v \in live' \ Seed PROVE count'[v] = Cardinality(Members(v)') + 1
      <4>1. v \in live /\ v \in Workspace /\ count[v] = Cardinality(Members(v)) + 1
        BY <1>g, <2>1 DEF CountFollowsMembers, spaceVars, TypeOK, StoreTypeOK
      <4>2. CASE v # c.ws
        BY <2>1, <2>4, <3>2, <4>1, <4>2 DEF TypeOK, StoreTypeOK
      <4>3. CASE v = c.ws /\ c.role # None
        <5>1. Members(v)' = Members(v)
          BY <2>4, <3>1, <4>1, <4>3 DEF Members
        <5>2. QED
          BY <2>4, <4>1, <4>3, <5>1
      <4>4. CASE v = c.ws /\ c.role = None
        <5>1. Members(v)' = Members(v) \ {c.target}
          BY <3>1, <4>1, <4>4 DEF Members
        <5>2. Cardinality(Members(v)') = Cardinality(Members(v)) - 1
          <6>1. c.target \in Members(v) /\ IsFiniteSet(Members(v))
            BY <3>3, <4>1, <4>4, MembersFinite
          <6>2. Cardinality(Members(v) \ {c.target}) = Cardinality(Members(v)) - 1
            BY <6>1, FS_RemoveElement
          <6>3. QED
            BY <5>1, <6>2
        <5>3. count'[v] = count[v] - 1
          BY <2>1, <2>4, <4>1, <4>4, MembersFinite DEF TypeOK, StoreTypeOK
        <5>4. QED
          BY <4>1, <5>2, <5>3, MembersFinite
      <4>5. QED
        BY <4>2, <4>3, <4>4
    <3>6. CountFollowsMembers'
      BY <3>5 DEF CountFollowsMembers
    <3>7. QED
      BY <2>2, <3>4, <3>6 DEF CountInv, IdsGiven
  <2>5. QED
    BY <1>9, <2>3, <2>4 DEF ApplyRole
<1>10. QED
  BY <1>1, <1>2, <1>3, <1>4, <1>5, <1>6, <1>7, <1>8, <1>9 DEF Advance

LEMMA NextCount == TypeOK /\ CountInv /\ [Next]_vars => CountInv'
<1> SUFFICES ASSUME TypeOK, CountInv, [Next]_vars PROVE CountInv'
  OBVIOUS
<1>1. CASE \E t \in Call : Request(t) \/ Advance(t)
  BY <1>1, RequestCount, AdvanceCount
<1>2. CASE UNCHANGED <<spaceVars, memberVars, inv, call>>
  BY <1>2, CountKept
     DEF CountInv, IdsGiven, CallsGiven, InvitationsGiven, spaceVars
<1>3. QED
  BY <1>1, <1>2 DEF Next, ExpiresAtPasses, vars, inviteVars

(***************************************************************************)
(* membersCount of a created workspace stays one above the number of its   *)
(* member records, however many additions and removals are under way.      *)
(***************************************************************************)
THEOREM CountInStep == Spec => []CountFollowsMembers
<1>1. Init => TypeOK /\ CountInv
  BY InitType, InitCount
<1>2. (TypeOK /\ CountInv) /\ [Next]_vars => (TypeOK /\ CountInv)'
  BY NextType, NextCount
<1>3. CountInv => CountFollowsMembers
  BY DEF CountInv
<1>4. QED
  BY <1>1, <1>2, <1>3, PTL DEF Spec

-----------------------------------------------------------------------------
(* Calls one after the other                                               *)

\* What a call has made sure of stays so until it acts on it.
CallSafe(t) ==
  LET c == call[t] IN
  /\ c.at = "addCreator" => c.ws \in live /\ Members(c.ws) = {}
  /\ c.at \in {"members", "invite"} => c.ws \in live
  /\ c.at \in {"expire", "join", "accepted"} => inv[c.inv].status = "PENDING"
  /\ c.at = "apply" /\ c.role # "ADMIN" /\ role[c.ws][c.target] = "ADMIN" =>
       Admins(c.ws) \ {c.target} # {}

Alone(t) == \A u \in Call \ {t} : call[u].at = "idle"

OneCall == \A t \in Call : call[t].at = "idle" \/ Alone(t)

NoOrphans ==
  \A w \in Workspace \ live :
    Members(w) = {} /\ \A i \in InvitationsOf(w) : inv[i].status = "deleted"

SerialOK ==
  /\ OneCall
  /\ \A t \in Call : CallSafe(t)
  /\ \A w \in Workspace : HasAdmin(w)
  /\ NoOrphans

SerialInv == overlap \/ SerialOK

\* No workspace is being created when the one call under way does something else.
LEMMA AdminNow ==
  ASSUME SerialOK, NEW t \in Call, Alone(t), call[t].at # "addCreator",
         NEW w \in Workspace, w \in live \ Seed
  PROVE  Admins(w) # {}
BY DEF SerialOK, HasAdmin, BeingCreated, Alone

LEMMA InitSerial == Init => SerialInv
<1> SUFFICES ASSUME Init PROVE SerialOK
  BY DEF SerialInv
<1>1. \A t \in Call : call[t].at = "idle"
  BY DEF Init, NoCall
<1>2. OneCall /\ \A t \in Call : CallSafe(t)
  BY <1>1 DEF OneCall, CallSafe
<1>3. \A w \in Workspace : HasAdmin(w)
  BY DEF Init, HasAdmin
<1>4. NoOrphans
  BY WorkspaceAssumption DEF Init, NoOrphans, Members, InvitationsOf
<1>5. QED
  BY <1>2, <1>3, <1>4 DEF SerialOK

\* Steps that touch calls only, none of them the last of a creation.
LEMMA SerialKept ==
  ASSUME SerialOK, NEW t \in Call, Alone(t), call[t].at # "addCreator",
         UNCHANGED <<spaceVars, memberVars, inviteVars>>, Alone(t)', CallSafe(t)'
  PROVE  SerialOK'
<1>1. OneCall' /\ \A u \in Call : CallSafe(u)'
  <2>1. ASSUME NEW u \in Call \ {t} PROVE CallSafe(u)'
    BY DEF Alone, CallSafe
  <2>2. OneCall'
    BY DEF OneCall, Alone
  <2>3. QED
    BY <2>1, <2>2
<1>2. \A w \in Workspace : HasAdmin(w)'
  BY AdminNow DEF HasAdmin, Admins, spaceVars, memberVars
<1>3. NoOrphans'
  BY DEF SerialOK, NoOrphans, Members, InvitationsOf, spaceVars, memberVars, inviteVars
<1>4. QED
  BY <1>1, <1>2, <1>3 DEF SerialOK

LEMMA RequestSerial ==
  ASSUME TypeOK, SerialInv, NEW t \in Call, Request(t), ~overlap'
  PROVE  SerialOK'
<1>1. UNCHANGED <<spaceVars, memberVars, inviteVars>>
  BY RequestForm
<1>2. PICK c \in CallRecord : Asked(t, c)
  BY RequestForm
<1>3. /\ ~overlap /\ Alone(t) /\ call[t].at = "idle"
      /\ \A u \in Call : call'[u] = IF u = t THEN c ELSE call[u]
  BY <1>2 DEF Asked, Begin, Alone, TypeOK, CallTypeOK
<1>4. Alone(t)'
  BY <1>3 DEF Alone
<1>5. CallSafe(t)'
  BY <1>1, <1>2, <1>3 DEF Asked, CallSafe, inviteVars
<1>6. QED
  BY <1>1, <1>3, <1>4, <1>5, SerialKept DEF SerialInv

LEMMA AloneKept ==
  ASSUME TypeOK, NEW t \in Call, Alone(t), NEW c, call' = [call EXCEPT ![t] = c]
  PROVE  Alone(t)' /\ call'[t] = c
BY DEF Alone, TypeOK, CallTypeOK

LEMMA ReturnSafe ==
  ASSUME TypeOK, NEW t \in Call, Alone(t), Return(t)
  PROVE  Alone(t)' /\ CallSafe(t)'
<1>1. Alone(t)' /\ call'[t] = NoCall
  BY AloneKept DEF Return
<1>2. QED
  BY <1>1 DEF NoCall, CallSafe

LEMMA AloneOK ==
  ASSUME NEW t \in Call, Alone(t)', CallSafe(t)'
  PROVE  OneCall' /\ \A u \in Call : CallSafe(u)'
<1>1. OneCall'
  BY DEF Alone, OneCall
<1>2. ASSUME NEW u \in Call \ {t} PROVE CallSafe(u)'
  BY DEF Alone, CallSafe
<1>3. QED
  BY <1>1, <1>2

\* A role is given, changed or taken away.
LEMMA RoleSet ==
  ASSUME TypeOK, NEW w \in Workspace, NEW u \in User, NEW r,
         role' = [role EXCEPT ![w][u] = r]
  PROVE  /\ \A v \in Workspace \ {w} : Members(v)' = Members(v) /\ Admins(v)' = Admins(v)
         /\ Admins(w) \ {u} \subseteq Admins(w)'
         /\ r = "ADMIN" => u \in Admins(w)'
<1>1. \A v \in Workspace, x \in User : role'[v][x] = IF v = w /\ x = u THEN r ELSE role[v][x]
  BY DEF TypeOK, StoreTypeOK
<1>2. QED
  BY <1>1 DEF Members, Admins

LEMMA AdvanceSerial ==
  ASSUME TypeOK, CountInv, SerialOK, NEW t \in Call, Advance(t)
  PROVE  SerialOK'
<1> USE WorkspaceAssumption
<1>c. call[t] \in CallRecord /\ CallOK(call[t])
  BY DEF TypeOK, CallTypeOK
<1>s. Alone(t) /\ CallSafe(t) /\ NoOrphans
  BY DEF Advance, CreateRow, SlugTaken, AddCreator, Verify, UpdateRow, DeleteRow, Lookup,
         CheckNotMember, CreateInvitation, MarkExpired, Join, MarkAccepted, FindTarget,
         CountAdmins, ApplyRole, SerialOK, OneCall
<1>1. ASSUME SlugTaken(t) \/ CheckNotMember(t) \/ FindTarget(t) \/ CountAdmins(t) \/ Lookup(t)
      PROVE  SerialOK'
  <2>1. UNCHANGED <<spaceVars, memberVars, inviteVars>> /\ call[t].at # "addCreator"
    BY <1>1 DEF SlugTaken, CheckNotMember, FindTarget, CountAdmins, Lookup
  <2>2. CASE Return(t)
    BY <1>s, <2>1, <2>2, ReturnSafe, SerialKept
  <2>3. ASSUME NEW step, Goto(t, step)
        PROVE  Alone(t)' /\ call'[t] = [call[t] EXCEPT !.at = step]
    BY <1>s, <2>3, AloneKept DEF Goto
  <2>4. ASSUME NEW step \in {"members", "invite", "count", "apply"},
               call'[t] = [call[t] EXCEPT !.at = step],
               step \in {"members", "invite"} => call[t].ws \in live,
               step = "apply" /\ call[t].role # "ADMIN"
                 /\ role[call[t].ws][call[t].target] = "ADMIN"
                   => Admins(call[t].ws) \ {call[t].target} # {}
        PROVE  CallSafe(t)'
    <3>1. call'[t].at = step /\ call'[t].ws = call[t].ws /\ call'[t].target = call[t].target
          /\ call'[t].role = call[t].role
      BY <1>c, <2>4 DEF CallRecord
    <3>2. QED
      BY <2>1, <2>4, <3>1 DEF CallSafe, Admins, spaceVars, memberVars
  <2>5. CASE Lookup(t) /\ call[t].ws \in live /\ Goto(t, "members")
    BY <1>s, <2>1, <2>3, <2>4, <2>5, SerialKept
  <2>6. CASE CheckNotMember(t) /\ Goto(t, "invite")
    BY <1>s, <2>1, <2>3, <2>4, <2>6, SerialKept DEF CheckNotMember, CallSafe
  <2>7. CASE FindTarget(t) /\ Goto(t, "count")
    BY <1>s, <2>1, <2>3, <2>4, <2>7, SerialKept
  <2>8. CASE FindTarget(t) /\ Goto(t, "apply")
    <3>1. \/ role[call[t].ws][call[t].target] # "ADMIN"
          \/ call[t].role = "ADMIN"
      BY <2>8 DEF FindTarget, Goto, TypeOK, CallTypeOK, CallRecord, Return, NoCall
    <3>2. QED
      BY <1>s, <2>1, <2>3, <2>4, <2>8, <3>1, SerialKept
  <2>9. CASE CountAdmins(t) /\ Goto(t, "apply") /\ ~(Cardinality(Admins(call[t].ws)) <= 1)
    <3>1. Admins(call[t].ws) \ {call[t].target} # {}
      <4>1. SUFFICES ASSUME Admins(call[t].ws) \subseteq {call[t].target} PROVE FALSE
        OBVIOUS
      <4>2. Cardinality({call[t].target}) = 1 /\ IsFiniteSet({call[t].target})
        BY FS_Singleton
      <4>3. Cardinality(Admins(call[t].ws)) \in Nat /\ Cardinality(Admins(call[t].ws)) <= 1
        BY <4>1, <4>2, FS_Subset, FS_CardinalityType
      <4>4. QED
        BY <2>9, <4>3
    <3>2. QED
      BY <1>s, <2>1, <2>3, <2>4, <2>9, <3>1, SerialKept
  <2>10. QED
    BY <1>1, <2>2, <2>5, <2>6, <2>7, <2>8, <2>9
       DEF SlugTaken, CheckNotMember, FindTarget, CountAdmins, Lookup
<1>2. ASSUME Verify(t) PROVE SerialOK'
  <2> DEFINE c == IF HasAdminAccess(call[t].ws, call[t].by)
                  THEN [call[t] EXCEPT !.at = call[t].next, !.next = "idle", !.by = None]
                  ELSE NoCall
  <2>1. /\ call' = [call EXCEPT ![t] = c] /\ UNCHANGED <<spaceVars, memberVars, inviteVars>>
        /\ call[t].at = "verify"
    BY <1>2 DEF Verify
  <2>2. c.at \in {"idle", "update", "delete", "lookup", "target"}
    BY <1>c DEF CallRecord, NoCall, CallOK
  <2> HIDE DEF c
  <2>3. Alone(t)' /\ CallSafe(t)'
    BY <1>s, <2>1, <2>2, AloneKept DEF CallSafe
  <2>4. QED
    BY <1>s, <2>1, <2>3, SerialKept
<1>3. ASSUME CreateRow(t) PROVE SerialOK'
  <2>1. PICK w \in Unused :
          /\ live' = live \cup {w}
          /\ call' = [call EXCEPT ![t].at = "addCreator", ![t].ws = w]
    BY <1>3 DEF CreateRow
  <2>2. /\ w \in Workspace /\ Members(w) = {} /\ call[t].at = "create"
        /\ UNCHANGED <<role, inv>>
    BY <1>3 DEF CreateRow, Unused, CountInv, IdsGiven, UnusedEmpty, inviteVars
  <2> DEFINE c == [call[t] EXCEPT !.at = "addCreator", !.ws = w]
  <2>3. c.at = "addCreator" /\ c.ws = w /\ call' = [call EXCEPT ![t] = c]
    BY <1>c, <2>1 DEF CallRecord
  <2> HIDE DEF c
  <2>4. Alone(t)' /\ call'[t] = c
    BY <1>s, <2>3, AloneKept
  <2>5. CallSafe(t)'
    BY <2>1, <2>2, <2>3, <2>4 DEF CallSafe, Members
  <2>6. ASSUME NEW v \in Workspace PROVE HasAdmin(v)'
    <3>1. CASE v = w
      BY <2>3, <2>4, <3>1 DEF HasAdmin, BeingCreated
    <3>2. CASE v # w
      BY <1>s, <2>1, <2>2, <3>2, AdminNow DEF HasAdmin, Admins
    <3>3. QED
      BY <3>1, <3>2
  <2>7. NoOrphans'
    BY <1>s, <2>1, <2>2 DEF NoOrphans, Members, InvitationsOf
  <2>8. QED
    BY <2>4, <2>5, <2>6, <2>7, AloneOK DEF SerialOK
<1>4. ASSUME UpdateRow(t) PROVE SerialOK'
  <2>1. /\ call[t].at = "update" /\ Return(t) /\ live' = live /\ inv' = inv
        /\ UNCHANGED memberVars
    BY <1>4 DEF UpdateRow, inviteVars
  <2>2. OneCall' /\ \A u \in Call : CallSafe(u)'
    BY <1>s, <2>1, ReturnSafe, AloneOK
  <2>3. \A v \in Workspace : HasAdmin(v)'
    BY <1>s, <2>1, AdminNow DEF HasAdmin, Admins, memberVars
  <2>4. NoOrphans'
    BY <1>s, <2>1 DEF NoOrphans, Members, InvitationsOf, memberVars
  <2>5. QED
    BY <2>2, <2>3, <2>4 DEF SerialOK
<1>5. ASSUME DeleteRow(t) PROVE SerialOK'
  <2>1. call[t].ws \in Workspace /\ call[t].at = "delete" /\ Return(t)
    BY <1>5, <1>c DEF DeleteRow, CallOK
  <2>2. OneCall' /\ \A u \in Call : CallSafe(u)'
    BY <1>s, <2>1, ReturnSafe, AloneOK
  <2>3. CASE UNCHANGED <<live, bySlug, role, inv>>
    <3>1. \A v \in Workspace : HasAdmin(v)'
      BY <1>s, <2>1, <2>3, AdminNow DEF HasAdmin, Admins
    <3>2. NoOrphans'
      BY <1>s, <2>3 DEF NoOrphans, Members, InvitationsOf
    <3>3. QED
      BY <2>2, <3>1, <3>2 DEF SerialOK
  <2>4. CASE live' = live \ {call[t].ws} /\ Cascade(call[t].ws)
    <3>1. \A v \in Workspace : role'[v] = IF v = call[t].ws THEN [u \in User |-> None]
                                          ELSE role[v]
      BY <2>1, <2>4 DEF Cascade, TypeOK, StoreTypeOK
    <3>2. /\ \A v \in Workspace : Members(v)' = IF v = call[t].ws THEN {} ELSE Members(v)
          /\ \A v \in Workspace \ {call[t].ws} : Admins(v)' = Admins(v)
      BY <3>1 DEF Members, Admins
    <3>3. \A i \in Invitation :
            /\ inv'[i].ws = inv[i].ws
            /\ inv[i].ws = call[t].ws => inv'[i].status = "deleted"
            /\ inv[i].ws # call[t].ws => inv'[i].status = inv[i].status
      BY <2>4 DEF Cascade, InvitationsOf, TypeOK, StoreTypeOK
    <3>4. \A v \in Workspace : HasAdmin(v)'
      BY <1>s, <2>1, <2>4, <3>2, AdminNow DEF HasAdmin
    <3>5. NoOrphans'
      BY <1>s, <2>4, <3>2, <3>3 DEF NoOrphans, InvitationsOf
    <3>6. QED
      BY <2>2, <3>4, <3>5 DEF SerialOK
  <2>5. QED
    BY <1>5, <2>3, <2>4 DEF DeleteRow
<1>6. ASSUME CreateInvitation(t) \/ MarkExpired(t) \/ MarkAccepted(t) PROVE SerialOK'
  <2>1. UNCHANGED <<spaceVars, memberVars>> /\ Return(t) /\ call[t].at # "addCreator"
    BY <1>6 DEF CreateInvitation, MarkExpired, MarkAccepted
  <2>2. OneCall' /\ \A u \in Call : CallSafe(u)'
    BY <1>s, <2>1, ReturnSafe, AloneOK
  <2>3. \A v \in Workspace : HasAdmin(v)'
    BY <1>s, <2>1, AdminNow DEF HasAdmin, Admins, spaceVars, memberVars
  <2>4. PICK i \in Invitation :
          /\ inv'[i].ws \in live
          /\ \A j \in Invitation \ {i} : inv'[j] = inv[j]
    <3>1. CASE CreateInvitation(t)
      BY <1>s, <3>1 DEF CreateInvitation, CallSafe, Fresh, TypeOK, StoreTypeOK
    <3>2. CASE MarkExpired(t) \/ MarkAccepted(t)
      <4>1. call[t].inv \in Invitation /\ inv[call[t].inv].status = "PENDING"
        BY <1>c, <1>s, <3>2 DEF MarkExpired, MarkAccepted, CallOK, CallSafe
      <4>2. inv[call[t].inv].ws \in live
        BY <1>s, <4>1 DEF NoOrphans, InvitationsOf, TypeOK, StoreTypeOK, InvitationOK
      <4>3. QED
        BY <3>2, <4>1, <4>2 DEF MarkExpired, MarkAccepted, SetStatus, TypeOK, StoreTypeOK
    <3>3. QED
      BY <1>6, <3>1, <3>2
  <2>5. NoOrphans'
    BY <1>s, <2>1, <2>4 DEF NoOrphans, Members, InvitationsOf, spaceVars, memberVars
  <2>6. QED
    BY <2>2, <2>3, <2>5 DEF SerialOK
<1>7. ASSUME AddCreator(t) PROVE SerialOK'
  <2>0. PICK w \in Workspace : w = call[t].ws
    BY <1>7, <1>c DEF AddCreator, CallOK
  <2>1. /\ call[t].by \in User /\ w \in live /\ Members(w) = {}
        /\ UNCHANGED <<spaceVars, inviteVars>> /\ Return(t)
    BY <1>7, <1>c, <1>s, <2>0 DEF AddCreator, CallOK, CallSafe
  <2>2. role' = [role EXCEPT ![w][call[t].by] = "ADMIN"]
    BY <1>7, <2>0, <2>1 DEF AddCreator, AddMember, Members
  <2>3. /\ \A v \in Workspace \ {w} : Members(v)' = Members(v) /\ Admins(v)' = Admins(v)
        /\ Admins(w)' # {}
    BY <2>1, <2>2, RoleSet
  <2>4. OneCall' /\ \A u \in Call : CallSafe(u)'
    BY <1>s, <2>1, ReturnSafe, AloneOK
  <2>5. \A v \in Workspace \ {w} : ~BeingCreated(v)
    BY <1>7, <1>s, <2>0 DEF AddCreator, BeingCreated, Alone
  <2>6. \A v \in Workspace : HasAdmin(v)'
    BY <2>1, <2>3, <2>5 DEF HasAdmin, SerialOK, spaceVars
  <2>7. NoOrphans'
    BY <1>s, <2>1, <2>3 DEF NoOrphans, InvitationsOf, spaceVars, inviteVars
  <2>8. QED
    BY <2>4, <2>6, <2>7 DEF SerialOK
<1>8. ASSUME Join(t) PROVE SerialOK'
  <2> DEFINE i == inv[call[t].inv]
  <2>1. /\ call[t].inv \in Invitation /\ call[t].by \in User /\ call[t].at = "join"
        /\ i.ws \in Workspace /\ i.status = "PENDING"
        /\ UNCHANGED <<spaceVars, inviteVars>>
    BY <1>8, <1>c, <1>s DEF Join, CallOK, CallSafe, TypeOK, StoreTypeOK, InvitationOK
  <2>2. PICK w \in live, u \in User : w = i.ws /\ u = call[t].by
    BY <1>s, <2>1 DEF NoOrphans, InvitationsOf
  <2>3. CASE /\ role[w][u] = None
             /\ AddMember(w, u, i.role)
             /\ Goto(t, "accepted")
    <3>1. role' = [role EXCEPT ![w][u] = i.role]
      BY <2>3 DEF AddMember
    <3>2. /\ \A v \in Workspace \ {w} : Members(v)' = Members(v) /\ Admins(v)' = Admins(v)
          /\ Admins(w) \ {u} \subseteq Admins(w)'
      BY <2>1, <2>2, <3>1, RoleSet DEF TypeOK, StoreTypeOK
    <3>3. u \notin Admins(w)
      BY <2>3 DEF Admins
    <3>4. \A v \in Workspace : HasAdmin(v)'
      BY <1>s, <2>1, <2>2, <3>2, <3>3, AdminNow DEF HasAdmin, spaceVars
    <3>5. NoOrphans'
      BY <1>s, <2>1, <2>2, <3>2 DEF NoOrphans, InvitationsOf, spaceVars, inviteVars
    <3>6. Alone(t)' /\ call'[t] = [call[t] EXCEPT !.at = "accepted"]
      BY <1>s, <2>3, AloneKept DEF Goto
    <3>7. CallSafe(t)'
      BY <1>c, <2>1, <3>6 DEF CallSafe, CallRecord, inviteVars
    <3>8. QED
      BY <3>4, <3>5, <3>6, <3>7, AloneOK DEF SerialOK
  <2>4. CASE Return(t) /\ UNCHANGED memberVars
    BY <1>s, <2>1, <2>4, ReturnSafe, SerialKept
  <2>5. QED
    BY <1>8, <2>2, <2>3, <2>4 DEF Join
<1>9. ASSUME ApplyRole(t) PROVE SerialOK'
  <2> DEFINE c == call[t]
  <2>0. PICK w \in Workspace, u \in User : w = c.ws /\ u = c.target
    BY <1>9, <1>c DEF ApplyRole, CallOK, CallRecord, Ahead
  <2>1. /\ c.at = "apply"
        /\ UNCHANGED <<spaceVars, inviteVars>> /\ Return(t)
    BY <1>9 DEF ApplyRole
  <2>2. OneCall' /\ \A v \in Call : CallSafe(v)'
    BY <1>s, <2>1, ReturnSafe, AloneOK
  <2>3. CASE UNCHANGED memberVars
    BY <1>s, <2>1, <2>3, ReturnSafe, SerialKept
  <2>4. CASE role[w][u] # None /\ role' = [role EXCEPT ![w][u] = c.role]
    <3>1. w \in live
      BY <1>s, <2>1, <2>4 DEF NoOrphans, Members
    <3>2. /\ \A v \in Workspace \ {w} : Members(v)' = Members(v) /\ Admins(v)' = Admins(v)
          /\ Admins(w) \ {u} \subseteq Admins(w)'
          /\ c.role = "ADMIN" => u \in Admins(w)'
      BY <2>0, <2>1, <2>4, RoleSet
    <3>3. Admins(w) # {} => Admins(w)' # {}
      <4>1. CASE c.role = "ADMIN"
        BY <3>2, <4>1
      <4>2. CASE role[w][u] # "ADMIN"
        <5>1. u \notin Admins(w)
          BY <4>2 DEF Admins
        <5>2. QED
          BY <3>2, <5>1
      <4>3. CASE c.role # "ADMIN" /\ role[w][u] = "ADMIN"
        <5>1. Admins(w) \ {u} # {}
          BY <1>s, <2>0, <2>1, <4>3 DEF CallSafe
        <5>2. QED
          BY <3>2, <5>1
      <4>4. QED
        BY <4>1, <4>2, <4>3
    <3>4. \A v \in Workspace : HasAdmin(v)'
      BY <1>s, <2>1, <3>2, <3>3, AdminNow DEF HasAdmin, spaceVars
    <3>5. NoOrphans'
      BY <1>s, <2>1, <3>1, <3>2 DEF NoOrphans, InvitationsOf, spaceVars, inviteVars
    <3>6. QED
      BY <2>2, <3>4, <3>5 DEF SerialOK
  <2>5. QED
    BY <1>9, <2>0, <2>3, <2>4 DEF ApplyRole
<1>10. QED
  BY <1>1, <1>2, <1>3, <1>4, <1>5, <1>6, <1>7, <1>8, <1>9 DEF Advance

\* Overlap is never forgotten.
LEMMA OverlapStays == overlap /\ [Next]_vars => overlap'
<1> SUFFICES ASSUME overlap, [Next]_vars PROVE overlap'
  OBVIOUS
<1>1. ASSUME NEW t \in Call, Request(t) PROVE overlap'
  BY <1>1, RequestForm DEF Asked, Begin
<1>2. ASSUME NEW t \in Call, Advance(t) PROVE overlap'
  BY <1>2 DEF Advance, CreateRow, SlugTaken, AddCreator, Verify, UpdateRow, DeleteRow, Lookup,
              CheckNotMember, CreateInvitation, MarkExpired, Join, MarkAccepted, FindTarget,
              CountAdmins, ApplyRole, Goto, Return
<1>3. QED
  BY <1>1, <1>2 DEF Next, ExpiresAtPasses, vars

LEMMA NextSerial == TypeOK /\ CountInv /\ SerialInv /\ [Next]_vars => SerialInv'
<1> SUFFICES ASSUME TypeOK, CountInv, SerialInv, [Next]_vars, ~overlap' PROVE SerialOK'
  BY DEF SerialInv
<1>1. SerialOK
  BY OverlapStays DEF SerialInv
<1>2. CASE \E t \in Call : Request(t) \/ Advance(t)
  BY <1>1, <1>2, RequestSerial, AdvanceSerial
<1>3. CASE UNCHANGED <<spaceVars, memberVars, inv, call>>
  BY <1>1, <1>3 DEF SerialOK, OneCall, Alone, CallSafe, HasAdmin, BeingCreated, NoOrphans,
                    Members, Admins, InvitationsOf, spaceVars, memberVars
<1>4. QED
  BY <1>2, <1>3 DEF Next, ExpiresAtPasses, vars, inviteVars

LEMMA SerialHolds == Spec => [](TypeOK /\ CountInv /\ SerialInv)
<1>1. Init => TypeOK /\ CountInv /\ SerialInv
  BY InitType, InitCount, InitSerial
<1>2. (TypeOK /\ CountInv /\ SerialInv) /\ [Next]_vars => (TypeOK /\ CountInv /\ SerialInv)'
  BY NextType, NextCount, NextSerial
<1>3. QED
  BY <1>1, <1>2, PTL DEF Spec

(***************************************************************************)
(* Calls that come one after the other leave every created workspace an    *)
(* administrator.                                                          *)
(***************************************************************************)
THEOREM SerialCallsKeepAdmin == Spec => []SerialAdminRemains
<1>1. SerialInv => SerialAdminRemains
  BY DEF SerialInv, SerialOK, SerialAdminRemains
<1>2. QED
  BY <1>1, SerialHolds, PTL

(***************************************************************************)
(* Calls that come one after the other leave nothing of a deleted          *)
(* workspace.                                                              *)
(***************************************************************************)
THEOREM SerialCallsLeaveNoOrphans == Spec => []SerialNoOrphans
<1>1. SerialInv => SerialNoOrphans
  BY DEF SerialInv, SerialOK, NoOrphans, SerialNoOrphans
<1>2. QED
  BY <1>1, SerialHolds, PTL

\* The statuses an invitation does not come back from.
LEMMA SettledStep ==
  ASSUME TypeOK, SerialInv, ~overlap, [Next]_vars, NEW i \in Invitation,
         inv[i].status \in {"ACCEPTED", "EXPIRED"}
  PROVE  inv'[i].status \in {inv[i].status, "deleted"}
<1>1. ASSUME NEW t \in Call, Request(t) PROVE inv' = inv
  BY <1>1, RequestForm DEF inviteVars
<1>2. ASSUME NEW t \in Call, Advance(t) PROVE inv'[i].status \in {inv[i].status, "deleted"}
  <2>1. CASE CreateInvitation(t)
    BY <2>1 DEF CreateInvitation, Fresh, TypeOK, StoreTypeOK
  <2>2. CASE MarkExpired(t) \/ MarkAccepted(t)
    <3>1. inv[call[t].inv].status = "PENDING"
      BY <2>2 DEF MarkExpired, MarkAccepted, SerialInv, SerialOK, CallSafe
    <3>2. QED
      BY <2>2, <3>1 DEF MarkExpired, MarkAccepted, SetStatus, TypeOK, StoreTypeOK
  <2>3. CASE DeleteRow(t)
    BY <2>3 DEF DeleteRow, Cascade, TypeOK, StoreTypeOK
  <2>4. CASE inv' = inv
    BY <2>4
  <2>5. QED
    BY <1>2, <2>1, <2>2, <2>3, <2>4
       DEF Advance, CreateRow, SlugTaken, AddCreator, Verify, UpdateRow, Lookup,
           CheckNotMember, Join, FindTarget, CountAdmins, ApplyRole, inviteVars
<1>3. QED
  BY <1>1, <1>2 DEF Next, ExpiresAtPasses, vars, inviteVars

(***************************************************************************)
(* Calls that come one after the other never reopen an invitation that was *)
(* accepted or has expired.                                                *)
(***************************************************************************)
THEOREM SerialCallsSettleInvitations == Spec => SerialSettledInvitations
<1>1. (TypeOK /\ CountInv /\ SerialInv) /\ [Next]_vars =>
        [\A i \in Invitation :
           inv[i].status \in {"ACCEPTED", "EXPIRED"} /\ ~overlap =>
             inv'[i].status \in {inv[i].status, "deleted"}]_vars
  BY SettledStep
<1>2. QED
  BY <1>1, SerialHolds, PTL DEF Spec, SerialSettledInvitations
=============================================================================
