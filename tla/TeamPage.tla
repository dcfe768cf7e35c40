------------------------------ MODULE TeamPage ------------------------------
(***************************************************************************)
(* The members page of a workspace in the web application, with what the   *)
(* server has.  Every role has a selector and every row a button, and none *)
(* of them waits for another: changes of roles, removals and loads of the  *)
(* lists overlap, and their answers may overtake each other.               *)
(***************************************************************************)
EXTENDS Naturals, FiniteSets

CONSTANTS Member, Me, Role,
          Email,    \* addresses invited
          Demo,     \* the members shown when the server does not answer
          MaxCalls, \* bound: requests of one behaviour
          None

VARIABLES roleOf,      \* the server's: role of every member, None for others
          invitedTo,   \* the server's: addresses with a pending invitation
          members, invitations, \* the page's copies
          isLoading, isInviting,
          calls,       \* requests under way, numbered
          sent,        \* how many there were
          demo,        \* history: an answer was made up, lost, or kept nothing
          overlapped   \* history: a request was sent while another one was under
                       \* way that its answer could contradict

serverVars == <<roleOf, invitedTo>>
pageVars == <<members, invitations, isLoading, isInviting>>
vars == <<serverVars, pageVars, calls, sent, demo, overlapped>>

Admins(team) == {m \in Member : team[m] = "ADMIN"}
Nobody == [m \in Member |-> None]

Init ==
  /\ roleOf \in {t \in [Member -> {"ADMIN", None}] : t[Me] = "ADMIN"} /\ invitedTo = {}
  /\ members = Nobody /\ invitations = {} /\ isLoading = TRUE /\ isInviting = FALSE
  /\ calls = {[n |-> 1, kind |-> "load", state |-> "sent"]} /\ sent = 1
  /\ demo = FALSE /\ overlapped = FALSE

-----------------------------------------------------------------------------
\* Requests that concern the same rows: any and a load, and two of a member.
Contradict(c, d) ==
  \/ "load" \in {c.kind, d.kind}
  \/ c.kind = "change" /\ d.kind = "change" /\ c.member = d.member

SendCall(fields) ==
  /\ sent < MaxCalls /\ sent' = sent + 1
  /\ calls' = calls \cup {fields}
  /\ overlapped' = (overlapped \/ \E c \in calls : Contradict(c, fields))

\* loadData runs when the page opens and whenever getWorkspace changes.
LoadData ==
  /\ SendCall([n |-> sent + 1, kind |-> "load", state |-> "sent"])
  /\ isLoading' = TRUE
  /\ UNCHANGED <<serverVars, members, invitations, isInviting, demo>>

\* A row is off while it shows the only administrator, by the page's copy.
Offered(m) == ~isLoading /\ members[m] # None /\ Admins(members) # {m}

HandleRoleChange(m, role) ==
  /\ Offered(m) /\ role # members[m]
  /\ SendCall([n |-> sent + 1, kind |-> "change", member |-> m, role |-> role, state |-> "sent"])
  /\ UNCHANGED <<serverVars, pageVars, demo>>

HandleRemoveMember(m) ==
  /\ Offered(m)
  /\ SendCall([n |-> sent + 1, kind |-> "change", member |-> m, role |-> None, state |-> "sent"])
  /\ UNCHANGED <<serverVars, pageVars, demo>>

HandleSendInvite(e) ==
  /\ ~isLoading /\ ~isInviting
  /\ SendCall([n |-> sent + 1, kind |-> "invite", email |-> e, state |-> "sent"])
  /\ isInviting' = TRUE
  /\ UNCHANGED <<serverVars, members, invitations, isLoading, demo>>

-----------------------------------------------------------------------------
Becomes(c, fields) == calls' = (calls \ {c}) \cup {fields}

\* The server handles a request: changes, of administrators only, and never
\* the last one.
Handle(c) ==
  /\ c.state = "sent"
  /\ \/ c.kind = "load"
        /\ Becomes(c, [n |-> c.n, kind |-> "load", state |-> "done", team |-> roleOf, invited |-> invitedTo])
        /\ UNCHANGED serverVars
     \/ c.kind = "change" /\ roleOf[Me] = "ADMIN" /\ roleOf[c.member] # None
        /\ (c.role = "ADMIN" \/ Admins(roleOf) # {c.member})
        /\ roleOf' = [roleOf EXCEPT ![c.member] = c.role]
        /\ Becomes(c, [c EXCEPT !.state = "done"]) /\ UNCHANGED invitedTo
     \/ c.kind = "invite" /\ roleOf[Me] = "ADMIN"
        /\ invitedTo' = invitedTo \cup {c.email}
        /\ Becomes(c, [c EXCEPT !.state = "done"]) /\ UNCHANGED roleOf
  /\ UNCHANGED <<pageVars, sent, demo, overlapped>>

\* Or refuses it, or does not get it.
Refuse(c) ==
  /\ c.state = "sent"
  /\ Becomes(c, [c EXCEPT !.state = "refused"])
  /\ UNCHANGED <<serverVars, pageVars, sent, demo, overlapped>>

\* Or has handled it, and the answer is lost.
LoseAnswer(c) ==
  /\ c.state = "done" /\ c.kind # "load"
  /\ Becomes(c, [c EXCEPT !.state = "refused"])
  /\ demo' = TRUE
  /\ UNCHANGED <<serverVars, pageVars, sent, overlapped>>

Answered(c) == c.state # "sent" /\ calls' = calls \ {c}

\* When getWorkspace fails nothing is loaded; listMembers makes three members
\* up when it fails, listInvitations none.
LoadAnswered(c) ==
  /\ c.kind = "load" /\ Answered(c)
  /\ \/ c.state = "done" /\ members' = c.team /\ invitations' = c.invited
     \/ c.state = "refused" /\ UNCHANGED <<members, invitations>>
     \/ c.state = "refused" /\ members' = Demo /\ invitations' = {}
  /\ demo' = (c.state = "refused") /\ isLoading' = FALSE
  /\ UNCHANGED <<serverVars, isInviting, sent, overlapped>>

\* Fault variant of Changed: the row is removed, or changed, unasked.
ChangedAnyway(c) == members' = [members EXCEPT ![c.member] = c.role]

Changed(c) ==
  members' = IF c.state = "done" /\ members[c.member] # None
             THEN [members EXCEPT ![c.member] = c.role] ELSE members

ChangeAnswered(c) ==
  /\ c.kind = "change" /\ Answered(c)
  /\ Changed(c)
  /\ UNCHANGED <<serverVars, invitations, isLoading, isInviting, sent, demo, overlapped>>

\* inviteMember makes an invitation up when it fails, and the page says that
\* it was created.
InviteAnswered(c) ==
  /\ c.kind = "invite" /\ Answered(c)
  /\ invitations' = invitations \cup {c.email}
  /\ isInviting' = FALSE /\ demo' = (demo \/ c.state = "refused")
  /\ UNCHANGED <<serverVars, members, isLoading, sent, overlapped>>

Next ==
  \/ LoadData
  \/ \E m \in Member : HandleRemoveMember(m) \/ \E role \in Role : HandleRoleChange(m, role)
  \/ \E e \in Email : HandleSendInvite(e)
  \/ \E c \in calls : Handle(c) \/ Refuse(c) \/ LoseAnswer(c) \/ LoadAnswered(c) \/ ChangeAnswered(c) \/ InviteAnswered(c)

Spec == Init /\ [][Next]_vars

-----------------------------------------------------------------------------
(***************************************************************************)
(* Properties                                                              *)
(***************************************************************************)
\* Types of what the server and the page have.
TypeOK ==
  /\ roleOf \in [Member -> Role \cup {None}] /\ members \in [Member -> Role \cup {None}]
  /\ invitedTo \subseteq Email /\ invitations \subseteq Email
  /\ {isLoading, isInviting, demo, overlapped} \subseteq BOOLEAN /\ sent \in 0 .. MaxCalls
  /\ \A c \in calls : c.kind \in {"load", "change", "invite"} /\ c.state \in {"sent", "done", "refused"}

\* The page waits only for what is under way, and invites one at a time.
NothingHangs ==
  /\ isLoading => \E c \in calls : c.kind = "load"
  /\ isInviting <=> \E c \in calls : c.kind = "invite"

\* When nothing is under way the page shows what the server has, changes
\* refused by it included, unless an answer was made up, or requests
\* overlapped whose answers may have overtaken each other.
PageShowsTheTeam ==
  calls = {} /\ ~demo /\ ~overlapped => members = roleOf /\ invitations = invitedTo
=============================================================================
