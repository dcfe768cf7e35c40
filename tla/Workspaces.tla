----------------------------- MODULE Workspaces -----------------------------
(***************************************************************************)
(* WorkspaceService and WorkspaceRepository                                *)
(* (apps/api/src/modules/workspaces): workspaces with a unique slug, their *)
(* members and roles, and the invitations that make members.               *)
(*                                                                         *)
(* A service call is a chain of repository calls with an await after each; *)
(* an action is one repository call and the decision the service takes on  *)
(* its result.  A call that is refused ends and changes nothing.           *)
(***************************************************************************)
EXTENDS Integers, FiniteSets, TLC

CONSTANTS Workspace,  \* ids, each used once
          User,       \* users, who are also their e-mail addresses
          Slug,
          Role,       \* the member roles; all but ADMIN are treated alike
          Invitation, \* invitation tokens, each used once
          Call,       \* service calls that may be under way at once
          Seed,       \* the workspaces of seedDefaultWorkspaces
          None

ASSUME WorkspaceAssumption ==
  /\ IsFiniteSet(User)
  /\ None \notin Workspace \cup User \cup Slug \cup Role \cup Invitation
  /\ "ADMIN" \in Role
  /\ Seed \subseteq Workspace

VARIABLES live,    \* the keys of the workspaces map
          owner,   \* owner[w]: ownerId; None while the id is unused
          slug,    \* slug[w]
          bySlug,  \* workspacesBySlug
          count,   \* count[w]: membersCount
          role,    \* members: role[w][u], or None for no entry
          inv,     \* invitations: inv[i]
          late,    \* invitations whose expiresAt has passed
          call,    \* call[t]: what service call t has still to do
          overlap  \* history: two calls have been under way at once

spaceVars == <<live, owner, slug, bySlug>>
memberVars == <<count, role>>
inviteVars == <<inv, late>>
vars == <<spaceVars, memberVars, inviteVars, call, overlap>>

Status == {"unused", "PENDING", "ACCEPTED", "EXPIRED", "deleted"}
Step == {"idle", "create", "addCreator", "verify", "update", "delete", "lookup", "members",
         "invite", "target", "count", "apply", "expire", "join", "accepted"}

NoCall == [at |-> "idle", next |-> "idle", ws |-> None, by |-> None, target |-> None,
           role |-> None, slug |-> None, inv |-> None]

\* What is left of a call: its steps need these arguments.
Ahead(c) == {c.at, c.next}

CallOK(c) ==
  /\ c.next \in {"idle", "update", "delete", "lookup", "target"}
  /\ c.next # "idle" <=> c.at = "verify"
  /\ c.at \in {"create", "addCreator", "verify", "join"} => c.by \in User
  /\ c.at \notin {"idle", "create", "expire", "join", "accepted"} => c.ws \in Workspace
  /\ Ahead(c) \cap {"create", "update"} # {} => c.slug \in Slug
  /\ Ahead(c) \cap {"lookup", "members", "invite", "target", "count", "apply"} # {} =>
       c.target \in User
  /\ Ahead(c) \cap {"lookup", "members", "invite"} # {} => c.role \in Role
  /\ c.at \in {"expire", "join", "accepted"} => c.inv \in Invitation

InvitationOK(i) ==
  IF i.status = "unused" THEN i.ws = None ELSE i.ws \in Workspace /\ i.role \in Role

CallRecord == [at : Step, next : Step, ws : Workspace \cup {None}, by : User \cup {None},
               target : User \cup {None}, role : Role \cup {None}, slug : Slug \cup {None},
               inv : Invitation \cup {None}]

StoreTypeOK ==
  /\ live \in SUBSET Workspace
  /\ owner \in [Workspace -> User \cup {None}]
  /\ slug \in [Workspace -> Slug \cup {None}]
  /\ bySlug \in [Slug -> Workspace \cup {None}]
  /\ count \in [Workspace -> Nat]
  /\ role \in [Workspace -> [User -> Role \cup {None}]]
  /\ inv \in [Invitation -> [ws : Workspace \cup {None}, role : Role \cup {None},
                             status : Status]]
  /\ late \in SUBSET Invitation
  /\ \A i \in Invitation : InvitationOK(inv[i])

CallTypeOK ==
  /\ call \in [Call -> CallRecord]
  /\ overlap \in BOOLEAN
  /\ \A t \in Call :
       /\ CallOK(call[t])
       /\ call[t].inv # None => inv[call[t].inv].status # "unused"

TypeOK == StoreTypeOK /\ CallTypeOK

\* The seeds have owners and slugs, and no member records.
Init ==
  /\ live = Seed
  /\ owner \in [Workspace -> User \cup {None}]
  /\ \A w \in Workspace : owner[w] = None <=> w \notin Seed
  /\ slug \in [Workspace -> Slug \cup {None}]
  /\ \A w \in Workspace : slug[w] = None <=> w \notin Seed
  /\ \A v, w \in Seed : slug[v] = slug[w] => v = w
  /\ bySlug \in [Slug -> Workspace \cup {None}]
  /\ \A s \in Slug, w \in Workspace : bySlug[s] = w <=> slug[w] = s
  /\ count = [w \in Workspace |-> IF w \in Seed THEN 4 ELSE 0]
  /\ role = [w \in Workspace |-> [u \in User |-> None]]
  /\ inv = [i \in Invitation |-> [ws |-> None, role |-> None, status |-> "unused"]]
  /\ late = {}
  /\ call = [t \in Call |-> NoCall]
  /\ overlap = FALSE

-----------------------------------------------------------------------------
Begin(t, c) ==
  /\ call[t].at = "idle"
  /\ call' = [call EXCEPT ![t] = c]
  /\ overlap' = (overlap \/ \E u \in Call \ {t} : call[u].at # "idle")

Goto(t, step) == call' = [call EXCEPT ![t].at = step] /\ UNCHANGED overlap

Return(t) == call' = [call EXCEPT ![t] = NoCall] /\ UNCHANGED overlap

Members(w) == {u \in User : role[w][u] # None}
Admins(w) == {u \in User : role[w][u] = "ADMIN"}

\* verifyMembership stands in for a missing record of the owner with ADMIN.
HasAdminAccess(w, u) == role[w][u] = "ADMIN" \/ (role[w][u] = None /\ owner[w] = u)

-----------------------------------------------------------------------------
(* createWorkspace                                                         *)

Unused == {w \in Workspace : owner[w] = None}

\* Fault variant of CreateWorkspace: the creator is enrolled first.
EnrolBeforeCreate(t, u, s) ==
  /\ bySlug[s] = None
  /\ Begin(t, [NoCall EXCEPT !.at = "addCreator", !.by = u, !.slug = s])
  /\ UNCHANGED <<spaceVars, memberVars, inviteVars>>

\* The look-up of the slug (one made from the name is tested by create alone);
\* the other calls under way leave an id for this one.
CreateWorkspace(t, u, s) ==
  /\ bySlug[s] = None
  /\ Cardinality({c \in Call : call[c].at = "create"}) < Cardinality(Unused)
  /\ Begin(t, [NoCall EXCEPT !.at = "create", !.by = u, !.slug = s])
  /\ UNCHANGED <<spaceVars, memberVars, inviteVars>>

\* repository.create: looks again, and stores with membersCount 1.
CreateRow(t) ==
  LET c == call[t] IN
  /\ c.at = "create"
  /\ bySlug[c.slug] = None
  /\ \E w \in Unused :
       /\ live' = live \cup {w}
       /\ owner' = [owner EXCEPT ![w] = c.by]
       /\ slug' = [slug EXCEPT ![w] = c.slug]
       /\ bySlug' = [bySlug EXCEPT ![c.slug] = w]
       /\ count' = [count EXCEPT ![w] = 1]
       /\ call' = [call EXCEPT ![t].at = "addCreator", ![t].ws = w]
  /\ UNCHANGED <<role, inviteVars, overlap>>

SlugTaken(t) ==
  /\ call[t].at = "create"
  /\ bySlug[call[t].slug] # None
  /\ Return(t)
  /\ UNCHANGED <<spaceVars, memberVars, inviteVars>>

\* Fault variant of AddMember: the count is left alone.
AddUncounted(w, u, r) ==
  /\ role' = [role EXCEPT ![w][u] = r]
  /\ UNCHANGED count

\* addMember of a user with no record; a workspace deleted meanwhile gets the
\* record and has no count.
AddMember(w, u, r) ==
  /\ role' = [role EXCEPT ![w][u] = r]
  /\ count' = IF w \in live THEN [count EXCEPT ![w] = @ + 1] ELSE count

AddCreator(t) ==
  LET c == call[t] IN
  /\ c.at = "addCreator"
  /\ IF role[c.ws][c.by] = None THEN AddMember(c.ws, c.by, "ADMIN") ELSE UNCHANGED memberVars
  /\ Return(t)
  /\ UNCHANGED <<spaceVars, inviteVars>>

-----------------------------------------------------------------------------
(* verifyAdminAccess, then updateWorkspace and deleteWorkspace             *)

\* findById of verifyMembership; the rest of the call follows as `next`, in
\* which the caller matters no more.
Ask(t, u, w, c) ==
  /\ w \in live
  /\ Begin(t, [c EXCEPT !.at = "verify", !.by = u, !.ws = w])
  /\ UNCHANGED <<spaceVars, memberVars, inviteVars>>

Verify(t) ==
  LET c == call[t] IN
  /\ c.at = "verify"
  /\ call' = [call EXCEPT ![t] = IF HasAdminAccess(c.ws, c.by)
                  THEN [c EXCEPT !.at = c.next, !.next = "idle", !.by = None] ELSE NoCall]
  /\ UNCHANGED <<spaceVars, memberVars, inviteVars, overlap>>

UpdateWorkspace(t, u, w, s) ==
  Ask(t, u, w, [NoCall EXCEPT !.next = "update", !.slug = s])

\* Fault variant of UpdateRow: the old slug stays in the index.
UpdateRowKeepsOldSlug(t) ==
  LET c == call[t] IN
  /\ c.at = "update"
  /\ IF c.ws \in live /\ bySlug[c.slug] = None
     THEN /\ bySlug' = [bySlug EXCEPT ![c.slug] = c.ws]
          /\ slug' = [slug EXCEPT ![c.ws] = c.slug]
     ELSE UNCHANGED <<slug, bySlug>>
  /\ Return(t)
  /\ UNCHANGED <<live, owner, memberVars, inviteVars>>

\* repository.update with a new slug; the other fields are not modelled.
UpdateRow(t) ==
  LET c == call[t] IN
  /\ c.at = "update"
  /\ IF c.ws \in live /\ bySlug[c.slug] = None
     THEN /\ bySlug' = [bySlug EXCEPT ![slug[c.ws]] = None, ![c.slug] = c.ws]
          /\ slug' = [slug EXCEPT ![c.ws] = c.slug]
     ELSE UNCHANGED <<slug, bySlug>>
  /\ Return(t)
  /\ UNCHANGED <<live, owner, memberVars, inviteVars>>

DeleteWorkspace(t, u, w) == Ask(t, u, w, [NoCall EXCEPT !.next = "delete"])

InvitationsOf(w) == {i \in Invitation : inv[i].ws = w}

\* Fault variant of Cascade: the invitations survive their workspace.
CascadeMembersOnly(w) ==
  /\ role' = [role EXCEPT ![w] = [u \in User |-> None]]
  /\ UNCHANGED inv

\* The members and the invitations of a deleted workspace go with it.
Cascade(w) ==
  /\ role' = [role EXCEPT ![w] = [u \in User |-> None]]
  /\ inv' = [i \in Invitation |-> IF i \in InvitationsOf(w)
                                  THEN [inv[i] EXCEPT !.status = "deleted"] ELSE inv[i]]

DeleteRow(t) ==
  LET w == call[t].ws IN
  /\ call[t].at = "delete"
  /\ IF w \in live
     THEN /\ live' = live \ {w}
          /\ bySlug' = [bySlug EXCEPT ![slug[w]] = None]
          /\ Cascade(w)
     ELSE UNCHANGED <<live, bySlug, role, inv>>
  /\ Return(t)
  /\ UNCHANGED <<owner, slug, count, late>>

-----------------------------------------------------------------------------
(* inviteMember, acceptInvitation                                          *)

Fresh == {i \in Invitation : inv[i].status = "unused"}

Inviting == {c \in Call : call[c].next = "lookup" \/ call[c].at \in {"lookup", "members", "invite"}}

InviteMember(t, u, w, email, r) ==
  /\ Cardinality(Inviting) < Cardinality(Fresh)
  /\ Ask(t, u, w, [NoCall EXCEPT !.next = "lookup", !.target = email, !.role = r])

Lookup(t) ==
  /\ call[t].at = "lookup"
  /\ IF call[t].ws \in live THEN Goto(t, "members") ELSE Return(t)
  /\ UNCHANGED <<spaceVars, memberVars, inviteVars>>

CheckNotMember(t) ==
  LET c == call[t] IN
  /\ c.at = "members"
  /\ IF c.target \in Members(c.ws) THEN Return(t) ELSE Goto(t, "invite")
  /\ UNCHANGED <<spaceVars, memberVars, inviteVars>>

CreateInvitation(t) ==
  LET c == call[t] IN
  /\ c.at = "invite"
  /\ \E i \in Fresh :
       inv' = [inv EXCEPT ![i] = [ws |-> c.ws, role |-> c.role, status |-> "PENDING"]]
  /\ Return(t)
  /\ UNCHANGED <<spaceVars, memberVars, late>>

\* Fault variant of AcceptInvitation: any invitation that exists will do.
AcceptAnyInvitation(t, u, i) ==
  /\ inv[i].status \notin {"unused", "deleted"}
  /\ Begin(t, [NoCall EXCEPT !.at = IF i \in late THEN "expire" ELSE "join",
                             !.by = u, !.inv = i])
  /\ UNCHANGED <<spaceVars, memberVars, inviteVars>>

\* Whoever has the token may accept: nothing compares the e-mail of the
\* invitation, which the models therefore leave out.
AcceptInvitation(t, u, i) ==
  /\ inv[i].status = "PENDING"
  /\ Begin(t, [NoCall EXCEPT !.at = IF i \in late THEN "expire" ELSE "join",
                             !.by = u, !.inv = i])
  /\ UNCHANGED <<spaceVars, memberVars, inviteVars>>

\* updateInvitationStatus, of an invitation that still exists.
SetStatus(i, status) ==
  inv' = IF inv[i].status = "deleted" THEN inv ELSE [inv EXCEPT ![i].status = status]

MarkExpired(t) ==
  /\ call[t].at = "expire"
  /\ SetStatus(call[t].inv, "EXPIRED")
  /\ Return(t)
  /\ UNCHANGED <<spaceVars, memberVars, late>>

\* addMember throws for a user who has a record, and the invitation stays
\* PENDING.
Join(t) ==
  LET c == call[t]
      i == inv[c.inv] IN
  /\ c.at = "join"
  /\ IF role[i.ws][c.by] = None
     THEN AddMember(i.ws, c.by, i.role) /\ Goto(t, "accepted")
     ELSE Return(t) /\ UNCHANGED memberVars
  /\ UNCHANGED <<spaceVars, inviteVars>>

MarkAccepted(t) ==
  /\ call[t].at = "accepted"
  /\ SetStatus(call[t].inv, "ACCEPTED")
  /\ Return(t)
  /\ UNCHANGED <<spaceVars, memberVars, late>>

ExpiresAtPasses(i) ==
  /\ inv[i].status = "PENDING"
  /\ i \notin late
  /\ late' = late \cup {i}
  /\ UNCHANGED <<spaceVars, memberVars, inv, call, overlap>>

-----------------------------------------------------------------------------
(* updateMemberRole, removeMember (the new role is None)                   *)

UpdateMemberRole(t, u, w, target, r) ==
  Ask(t, u, w, [NoCall EXCEPT !.next = "target", !.target = target, !.role = r])

RemoveMember(t, u, w, target) ==
  /\ u # target
  /\ Ask(t, u, w, [NoCall EXCEPT !.next = "target", !.target = target])

\* Leaving needs no verification.
Leave(t, u, w) ==
  /\ Begin(t, [NoCall EXCEPT !.at = "target", !.ws = w, !.target = u])
  /\ UNCHANGED <<spaceVars, memberVars, inviteVars>>

FindTarget(t) ==
  LET c == call[t]
      now == role[c.ws][c.target] IN
  /\ c.at = "target"
  /\ CASE now = None -> Return(t)
       [] now = "ADMIN" /\ c.role # "ADMIN" -> Goto(t, "count")
       [] OTHER -> Goto(t, "apply")
  /\ UNCHANGED <<spaceVars, memberVars, inviteVars>>

\* Fault variant of CountAdmins: one administrator is enough to take one away.
CountAdminsOffByOne(t) ==
  /\ call[t].at = "count"
  /\ IF Cardinality(Admins(call[t].ws)) < 1 THEN Return(t) ELSE Goto(t, "apply")
  /\ UNCHANGED <<spaceVars, memberVars, inviteVars>>

\* The administrators are counted in a copy of the list, before the change.
CountAdmins(t) ==
  /\ call[t].at = "count"
  /\ IF Cardinality(Admins(call[t].ws)) <= 1 THEN Return(t) ELSE Goto(t, "apply")
  /\ UNCHANGED <<spaceVars, memberVars, inviteVars>>

ApplyRole(t) ==
  LET c == call[t] IN
  /\ c.at = "apply"
  /\ IF role[c.ws][c.target] = None THEN UNCHANGED memberVars
     ELSE /\ role' = [role EXCEPT ![c.ws][c.target] = c.role]
          /\ count' = IF c.role = None /\ c.ws \in live /\ count[c.ws] > 0
                      THEN [count EXCEPT ![c.ws] = @ - 1] ELSE count
  /\ Return(t)
  /\ UNCHANGED <<spaceVars, inviteVars>>

-----------------------------------------------------------------------------
Request(t) ==
  \E u \in User :
    \/ \E s \in Slug : CreateWorkspace(t, u, s)
    \/ \E w \in Workspace, s \in Slug : UpdateWorkspace(t, u, w, s)
    \/ \E w \in Workspace : DeleteWorkspace(t, u, w) \/ Leave(t, u, w)
    \/ \E w \in Workspace, v \in User, r \in Role :
         InviteMember(t, u, w, v, r) \/ UpdateMemberRole(t, u, w, v, r)
    \/ \E w \in Workspace, v \in User : RemoveMember(t, u, w, v)
    \/ \E i \in Invitation : AcceptInvitation(t, u, i)

Advance(t) ==
  \/ CreateRow(t) \/ SlugTaken(t) \/ AddCreator(t)
  \/ Verify(t) \/ UpdateRow(t) \/ DeleteRow(t)
  \/ Lookup(t) \/ CheckNotMember(t) \/ CreateInvitation(t)
  \/ MarkExpired(t) \/ Join(t) \/ MarkAccepted(t)
  \/ FindTarget(t) \/ CountAdmins(t) \/ ApplyRole(t)

Next ==
  \/ \E t \in Call : Request(t) \/ Advance(t)
  \/ \E i \in Invitation : ExpiresAtPasses(i)

Spec == Init /\ [][Next]_vars

\* For TLC: ids, users, slugs and calls are told apart by name only.
Symmetry == Permutations(User) \cup Permutations(Slug) \cup Permutations(Call)
            \cup Permutations(Invitation)

-----------------------------------------------------------------------------
(***************************************************************************)
(* The slug index and the workspaces agree both ways, whatever creations,  *)
(* renamings and deletions overlap: create and update test and set within  *)
(* one repository call.                                                    *)
(***************************************************************************)
SlugsIndexed ==
  \A s \in Slug, w \in Workspace : bySlug[s] = w <=> w \in live /\ slug[w] = s

(***************************************************************************)
(* membersCount of a created workspace moves with the member records, also *)
(* when calls overlap.  It is one too high: create stores 1, and adding    *)
(* the creator counts it again.                                            *)
(***************************************************************************)
CountFollowsMembers ==
  \A w \in live \ Seed : count[w] = Cardinality(Members(w)) + 1

BeingCreated(w) == \E t \in Call : call[t].at = "addCreator" /\ call[t].ws = w

HasAdmin(w) == w \in live \ Seed => Admins(w) # {} \/ BeingCreated(w)

(***************************************************************************)
(* A created workspace keeps an administrator through every sequence of    *)
(* role changes, removals, leavings, invitations and deletions, as long as *)
(* no two calls have overlapped.                                           *)
(***************************************************************************)
SerialAdminRemains == overlap \/ \A w \in Workspace : HasAdmin(w)

(***************************************************************************)
(* A deleted workspace has neither members nor open invitations (delete    *)
(* cascades), as long as no two calls have overlapped.                     *)
(***************************************************************************)
SerialNoOrphans ==
  overlap \/ \A w \in Workspace \ live :
               /\ Members(w) = {}
               /\ \A i \in InvitationsOf(w) : inv[i].status = "deleted"

(***************************************************************************)
(* An accepted or expired invitation stays so, and so serves nobody else,  *)
(* as long as no two calls have overlapped.                                *)
(***************************************************************************)
SerialSettledInvitations ==
  [][\A i \in Invitation :
       inv[i].status \in {"ACCEPTED", "EXPIRED"} /\ ~overlap =>
         inv'[i].status \in {inv[i].status, "deleted"}]_vars

(***************************************************************************)
(* "Protect last remaining admin" (workspace.service.ts:207), whether or   *)
(* not calls overlap: as long as a workspace exists, its administrators    *)
(* are not demoted and removed down to none.                               *)
(***************************************************************************)
LastAdminStays ==
  [][\A w \in live : Admins(w) # {} => Admins(w)' # {} \/ w \notin live']_vars
=============================================================================
