------------------------------ MODULE Accounts ------------------------------
(***************************************************************************)
(* AuthService with UserRepository: accounts and refresh tokens.  bcrypt   *)
(* takes hundreds of milliseconds, so every request that hashes or         *)
(* compares a password is two actions, what it reads before and what it    *)
(* writes after; the rotation of a refresh token is split at its await as  *)
(* well.  Both read a copy of the user and decide on the copy, so a        *)
(* request that is going to be refused is no action at all.                *)
(***************************************************************************)
EXTENDS FiniteSets, Naturals, Functions

CONSTANTS UserId, Email, Password, Token,
          Seeds,   \* ids of the seeded accounts, with their e-mail addresses
          Caller,  \* requests that may be under way at once
          None,
          MaxRequests \* bound: requests of one behaviour

VARIABLES users,    \* users[i]: e-mail, status and password, None
          byEmail,  \* usersByEmail
          active,   \* activeRefreshTokens: the owner of a token, None
          revoked,  \* revokedRefreshTokens
          call,     \* call[c]: what the request of c has read, None when idle
          children, \* history: children[t], tokens issued for t by a refresh
          ended,    \* history: tokens a logout has revoked
          raced,    \* history: e-mails and tokens two requests worked on at once
          requests  \* requests made so far

vars == <<users, byEmail, active, revoked, call, children, ended, raced, requests>>

NewUser(e, p) == [email |-> e, status |-> "ACTIVE", password |-> p]

\* The seeded accounts share one password.
SeedPassword == CHOOSE p \in Password : TRUE
Init ==
  /\ users = [i \in UserId |-> IF i \in DOMAIN Seeds THEN NewUser(Seeds[i], SeedPassword) ELSE None]
  /\ byEmail = [e \in Email |-> IF e \in Range(Seeds) THEN CHOOSE i \in DOMAIN Seeds : Seeds[i] = e
                                ELSE None]
  /\ active = [t \in Token |-> None]
  /\ revoked = {}
  /\ call = [c \in Caller |-> None]
  /\ children = [t \in Token |-> {}]
  /\ ended = {} /\ raced = {}
  /\ requests = 0

Under(c, kind) == call[c] # None /\ call[c].kind = kind
CountRequest == requests < MaxRequests /\ requests' = requests + 1
Begin(c, request) == CountRequest /\ call[c] = None /\ call' = [call EXCEPT ![c] = request]
End(c) == call' = [call EXCEPT ![c] = None]

\* Another request under way works on the same e-mail or token.
Overlaps(kind, x) == \E c \in Caller : Under(c, kind) /\ call[c].on = x
Racing(kind, x) == raced' = IF Overlaps(kind, x) THEN raced \cup {x} ELSE raced

\* A refresh token carries a random id, so it is always a new one.
Unused == {t \in Token : active[t] = None /\ t \notin revoked}
GenerateTokens(tokens, t, i) == [tokens EXCEPT ![t] = i]

-----------------------------------------------------------------------------
\* Fault variant of FindNoAccount: the e-mail is not looked up.
FindNothing(c, e, p) ==
  /\ Begin(c, [kind |-> "register", on |-> e, password |-> p])
  /\ Racing("register", e)
  /\ UNCHANGED <<users, byEmail, active, revoked, children, ended>>

\* register up to the hashing: the e-mail is looked up twice, both times
\* before it.
FindNoAccount(c, e, p) ==
  /\ byEmail[e] = None
  /\ Begin(c, [kind |-> "register", on |-> e, password |-> p])
  /\ Racing("register", e)
  /\ UNCHANGED <<users, byEmail, active, revoked, children, ended>>

CreateUser(c) ==
  /\ Under(c, "register")
  /\ \E i \in {j \in UserId : users[j] = None}, t \in Unused :
       /\ users' = [users EXCEPT ![i] = NewUser(call[c].on, call[c].password)]
       /\ byEmail' = [byEmail EXCEPT ![call[c].on] = i]
       /\ active' = GenerateTokens(active, t, i)
  /\ End(c)
  /\ UNCHANGED <<revoked, children, ended, raced, requests>>

\* login up to the comparison of the password with the hash it has read.
FindByEmail(c, e, p) ==
  /\ byEmail[e] # None
  /\ users[byEmail[e]].status # "SUSPENDED"
  /\ users[byEmail[e]].password = p
  /\ Begin(c, [kind |-> "login", on |-> byEmail[e]])
  /\ UNCHANGED <<users, byEmail, active, revoked, children, ended, raced>>

IssueTokens(c) ==
  /\ Under(c, "login")
  /\ \E t \in Unused : active' = GenerateTokens(active, t, call[c].on)
  /\ End(c)
  /\ UNCHANGED <<users, byEmail, revoked, children, ended, raced, requests>>

-----------------------------------------------------------------------------
\* refresh up to its await.
FindRefreshToken(c, t) ==
  /\ active[t] # None /\ t \notin revoked
  /\ users[active[t]].status # "SUSPENDED"
  /\ Begin(c, [kind |-> "refresh", on |-> t, user |-> active[t]])
  /\ Racing("refresh", t)
  /\ UNCHANGED <<users, byEmail, active, revoked, children, ended>>

\* Fault variant of RotateToken: the old token stays valid.
RotateTokenKeepsOld(c) ==
  /\ Under(c, "refresh")
  /\ LET t == call[c].on IN
     \E new \in Unused \ {t} :
       /\ active' = GenerateTokens(active, new, call[c].user)
       /\ children' = [children EXCEPT ![t] = @ \cup {new}]
  /\ End(c)
  /\ UNCHANGED <<users, byEmail, revoked, ended, raced, requests>>

RotateToken(c) ==
  /\ Under(c, "refresh")
  /\ LET t == call[c].on IN
     \E new \in Unused \ {t} :
       /\ active' = GenerateTokens([active EXCEPT ![t] = None], new, call[c].user)
       /\ revoked' = revoked \cup {t}
       /\ children' = [children EXCEPT ![t] = @ \cup {new}]
  /\ End(c)
  /\ UNCHANGED <<users, byEmail, ended, raced, requests>>

Logout(t) ==
  /\ active[t] # None /\ CountRequest
  /\ active' = [active EXCEPT ![t] = None]
  /\ revoked' = revoked \cup {t}
  /\ ended' = ended \cup {t}
  /\ Racing("refresh", t)
  /\ UNCHANGED <<users, byEmail, call, children>>

-----------------------------------------------------------------------------
\* changePassword up to its awaits (the current password is compared with
\* the hash read here).  Tokens issued before stay valid.
CompareCurrent(c, i, p, new) ==
  /\ users[i] # None /\ users[i].status # "SUSPENDED" /\ users[i].password = p
  /\ Begin(c, [kind |-> "changePassword", on |-> i, password |-> new])
  /\ UNCHANGED <<users, byEmail, active, revoked, children, ended, raced>>

UpdatePasswordHash(c) ==
  /\ Under(c, "changePassword")
  /\ users' = [users EXCEPT ![call[c].on].password = call[c].password]
  /\ End(c)
  /\ UNCHANGED <<byEmail, active, revoked, children, ended, raced, requests>>

\* updateStatus, which no handler calls: the operator suspends an account or
\* lets it back.
UpdateStatus(i, status) ==
  /\ users[i] # None /\ users[i].status # status /\ CountRequest
  /\ users' = [users EXCEPT ![i].status = status]
  /\ UNCHANGED <<byEmail, active, revoked, call, children, ended, raced>>

Next ==
  \/ \E c \in Caller : CreateUser(c) \/ IssueTokens(c) \/ RotateToken(c) \/ UpdatePasswordHash(c)
  \/ \E c \in Caller, e \in Email, p \in Password : FindNoAccount(c, e, p) \/ FindByEmail(c, e, p)
  \/ \E c \in Caller, t \in Token : FindRefreshToken(c, t)
  \/ \E t \in Token : Logout(t)
  \/ \E c \in Caller, i \in UserId, p, new \in Password : CompareCurrent(c, i, p, new)
  \/ \E i \in UserId, status \in {"ACTIVE", "SUSPENDED"} : UpdateStatus(i, status)

Spec == Init /\ [][Next]_vars

-----------------------------------------------------------------------------
(***************************************************************************)
(* Properties                                                              *)
(***************************************************************************)
Row == [email : Email, status : {"ACTIVE", "SUSPENDED"}, password : Password]
Request ==
  [kind : {"register"}, on : Email, password : Password]
    \cup [kind : {"login"}, on : UserId]
    \cup [kind : {"refresh"}, on : Token, user : UserId]
    \cup [kind : {"changePassword"}, on : UserId, password : Password]

\* Types; a token is never both valid and revoked, and its owner exists.
TypeOK ==
  /\ users \in [UserId -> Row \cup {None}]
  /\ byEmail \in [Email -> UserId \cup {None}]
  /\ active \in [Token -> UserId \cup {None}]
  /\ revoked \subseteq {t \in Token : active[t] = None}
  /\ \A t \in Token : active[t] # None => users[active[t]] # None
  /\ call \in [Caller -> Request \cup {None}]
  /\ children \in [Token -> SUBSET Token]
  /\ ended \subseteq revoked /\ raced \subseteq Email \cup Token

\* The e-mail index and the accounts agree: an entry leads to an account with
\* that e-mail, and every account is the one its e-mail leads to, so that it
\* can be logged in to, unless two registrations of the e-mail overlapped.
EmailsIndexed ==
  /\ \A e \in Email : byEmail[e] # None => users[byEmail[e]] # None /\ users[byEmail[e]].email = e
  /\ \A i \in UserId : users[i] # None /\ users[i].email \notin raced => byEmail[users[i].email] = i

\* A refresh token is good for one rotation, which ends it, and for none
\* after its session was logged out, unless another request was rotating it
\* at that very time.
TokenUsedOnce == \A t \in Token \ raced :
  /\ Cardinality(children[t]) <= 1
  /\ children[t] # {} => active[t] = None /\ t \notin ended
=============================================================================
