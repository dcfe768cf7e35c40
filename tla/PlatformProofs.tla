---------------------------- MODULE PlatformProofs ----------------------------
(***************************************************************************)
(* Accounts, conversations, reviews and the runs of agents, for every      *)
(* value of the constants of MCPlatform.  A component that is not in focus *)
(* does not move, so each has an invariant of its own.                     *)
(***************************************************************************)
EXTENDS MCPlatform, FiniteSetTheorems, SequenceTheorems, WellFoundedInduction, TLAPS

-----------------------------------------------------------------------------
(***************************************************************************)
(* Accounts                                                                *)
(***************************************************************************)
\* A request that has found an account: accounts are not deleted.
CallsKnowUsers == \A c \in Caller :
  /\ Acc!Under(c, "login") \/ Acc!Under(c, "changePassword") => users[call[c].on] # None
  /\ Acc!Under(c, "refresh") => users[call[c].user] # None

\* Registrations of an e-mail address that has not been raced on: one at
\* most, and the address is not in the index before it ends.
RegistrationsApart == \A e \in Email \ raced : \A b, c \in Caller :
  Acc!Under(c, "register") /\ call[c].on = e =>
    /\ byEmail[e] = None
    /\ Acc!Under(b, "register") /\ call[b].on = e => b = c

\* Rotations of a token that has not been raced on: one at most, of a valid
\* token; what it has been exchanged for is one token, and it is revoked then.
RotationsApart == \A t \in Token \ raced :
  /\ \A b, c \in Caller : Acc!Under(c, "refresh") /\ call[c].on = t =>
       /\ active[t] # None
       /\ Acc!Under(b, "refresh") /\ call[b].on = t => b = c
  /\ children[t] # {} => t \in revoked \ ended /\ \E new \in Token : children[t] = {new}

AccountsInv == Acc!TypeOK /\ CallsKnowUsers /\ Acc!EmailsIndexed /\ RegistrationsApart /\ RotationsApart

LEMMA SameCardinality == \A S : Acc!Cardinality(S) = Cardinality(S)
BY DEF Acc!Cardinality, Cardinality

LEMMA AccountsNone == None \notin UserId /\ None \notin Acc!Row /\ None \notin Acc!Request
BY AccountsAssumption

LEMMA SeedFacts ==
  /\ \A i \in DOMAIN Seeds : i \in UserId /\ Seeds[i] \in Email
  /\ \A i, j \in DOMAIN Seeds : Seeds[i] = Seeds[j] => i = j
BY AccountsAssumption

LEMMA AccountsInit == Acc!Init => AccountsInv
<1> SUFFICES ASSUME Acc!Init PROVE AccountsInv
  OBVIOUS
<1>1. \A c \in Caller : call[c] = None
  BY DEF Acc!Init
<1>2. Acc!SeedPassword \in Password
  BY AccountsAssumption DEF Acc!SeedPassword
<1>3. \A i \in UserId : users[i] = IF i \in DOMAIN Seeds
                                  THEN [email |-> Seeds[i], status |-> "ACTIVE", password |-> Acc!SeedPassword]
                                  ELSE None
  BY DEF Acc!Init, Acc!NewUser
<1>4. ASSUME NEW i \in DOMAIN Seeds PROVE users[i] \in Acc!Row /\ users[i].email = Seeds[i]
  <2>1. users[i] = [email |-> Seeds[i], status |-> "ACTIVE", password |-> Acc!SeedPassword] /\ Seeds[i] \in Email
    BY <1>3, SeedFacts
  <2>2. QED
    BY <1>2, <2>1 DEF Acc!Row
<1>5. \A e \in Email : /\ byEmail[e] # None => byEmail[e] \in DOMAIN Seeds /\ Seeds[byEmail[e]] = e
                       /\ \A i \in DOMAIN Seeds : Seeds[i] = e => byEmail[e] = i
  <2> TAKE e \in Email
  <2>1. byEmail[e] = IF e \in Acc!Range(Seeds) THEN CHOOSE i \in DOMAIN Seeds : Seeds[i] = e ELSE None
    BY DEF Acc!Init
  <2>2. \A i \in DOMAIN Seeds : Seeds[i] = e => e \in Acc!Range(Seeds) /\ byEmail[e] = i
    BY <2>1, AccountsAssumption DEF Acc!Range
  <2>3. QED
    BY <2>1, <2>2 DEF Acc!Range
<1>6. users \in [UserId -> Acc!Row \cup {None}]
  BY <1>2, AccountsAssumption DEF Acc!Init, Acc!NewUser, Acc!Row
<1>7. byEmail \in [Email -> UserId \cup {None}]
  BY <1>5, AccountsAssumption DEF Acc!Init
<1>8. Acc!TypeOK
  BY <1>6, <1>7 DEF Acc!Init, Acc!TypeOK
<1>9. Acc!EmailsIndexed
  <2>1. \A i \in UserId : users[i] # None <=> i \in DOMAIN Seeds
    BY <1>3, <1>4, AccountsNone
  <2>2. QED
    BY <1>4, <1>5, <2>1, SeedFacts DEF Acc!EmailsIndexed
<1>10. QED
  BY <1>1, <1>8, <1>9 DEF Acc!Init, AccountsInv, CallsKnowUsers, RegistrationsApart, RotationsApart, Acc!Under

\* The record of a call under way.
LEMMA CallFacts ==
  ASSUME AccountsInv, NEW c \in Caller
  PROVE  /\ Acc!Under(c, "register") => call[c].on \in Email /\ call[c].password \in Password
         /\ Acc!Under(c, "login") => call[c].on \in UserId /\ users[call[c].on] # None
         /\ Acc!Under(c, "refresh") => /\ call[c].on \in Token
                                       /\ call[c].user \in UserId /\ users[call[c].user] # None
         /\ Acc!Under(c, "changePassword") =>
              /\ call[c].on \in UserId /\ call[c].password \in Password /\ users[call[c].on] # None
<1>1. call[c] # None => call[c] \in Acc!Request
  BY DEF AccountsInv, Acc!TypeOK
<1>2. QED
  BY <1>1 DEF Acc!Request, Acc!Under, AccountsInv, CallsKnowUsers

\* A call ends: what is said of the calls holds of those that are left, if
\* what they have found is still so.
LEMMA EndKeeps ==
  ASSUME AccountsInv, NEW c \in Caller, Acc!End(c)
  PROVE  /\ call' \in [Caller -> Acc!Request \cup {None}]
         /\ \A kind : \A b \in Caller : Acc!Under(b, kind)' => Acc!Under(b, kind) /\ b # c /\ call'[b] = call[b]
<1>1. \A b \in Caller : call'[b] = IF b = c THEN None ELSE call[b]
  BY DEF Acc!End, AccountsInv, Acc!TypeOK
<1>2. QED
  BY <1>1 DEF Acc!End, AccountsInv, Acc!TypeOK, Acc!Under

LEMMA BeginKeeps ==
  ASSUME AccountsInv, NEW c \in Caller, NEW q \in Acc!Request, Acc!Begin(c, q)
  PROVE  /\ call' \in [Caller -> Acc!Request \cup {None}]
         /\ \A b \in Caller : b # c => call'[b] = call[b]
         /\ call'[c] = q /\ call[c] = None
         /\ \A kind : \A b \in Caller :
              Acc!Under(b, kind)' => (Acc!Under(b, kind) /\ b # c) \/ (b = c /\ q.kind = kind)
<1>1. \A b \in Caller : call'[b] = IF b = c THEN q ELSE call[b]
  BY DEF Acc!Begin, AccountsInv, Acc!TypeOK
<1>2. QED
  BY <1>1 DEF Acc!Begin, AccountsInv, Acc!TypeOK, Acc!Under

LEMMA RegisterKeeps ==
  ASSUME AccountsInv, NEW c \in Caller, NEW e \in Email, NEW p \in Password, Acc!FindNoAccount(c, e, p)
  PROVE  AccountsInv'
<1> DEFINE q == [kind |-> "register", on |-> e, password |-> p]
<1>1. q \in Acc!Request /\ q.kind = "register" /\ q.on = e
  BY DEF Acc!Request
<1>2. /\ Acc!Begin(c, q) /\ byEmail[e] = None
      /\ raced' = IF Acc!Overlaps("register", e) THEN raced \cup {e} ELSE raced
      /\ UNCHANGED <<users, byEmail, active, revoked, children, ended>>
  BY DEF Acc!FindNoAccount, Acc!Racing
<1> HIDE DEF q
<1>3. /\ call' \in [Caller -> Acc!Request \cup {None}] /\ call'[c] = q
      /\ \A b \in Caller : b # c => call'[b] = call[b]
      /\ \A kind : \A b \in Caller :
           Acc!Under(b, kind)' => (Acc!Under(b, kind) /\ b # c) \/ (b = c /\ kind = "register")
  BY <1>1, <1>2, BeginKeeps
<1>4. Acc!TypeOK'
  BY <1>2, <1>3 DEF AccountsInv, Acc!TypeOK
<1>5. CallsKnowUsers'
  BY <1>2, <1>3 DEF AccountsInv, CallsKnowUsers
<1>6. Acc!EmailsIndexed'
  BY <1>2 DEF AccountsInv, Acc!EmailsIndexed
<1>7. e \notin raced' => \A b \in Caller : ~(Acc!Under(b, "register") /\ call[b].on = e)
  BY <1>2 DEF Acc!Overlaps
<1>8. RegistrationsApart'
  BY <1>1, <1>2, <1>3, <1>7 DEF AccountsInv, RegistrationsApart
<1>9. RotationsApart'
  BY <1>2, <1>3 DEF AccountsInv, RotationsApart
<1>10. QED
  BY <1>4, <1>5, <1>6, <1>8, <1>9 DEF AccountsInv

LEMMA CreateKeeps ==
  ASSUME AccountsInv, NEW c \in Caller, Acc!CreateUser(c)
  PROVE  AccountsInv'
<1> DEFINE e == call[c].on
           row == Acc!NewUser(call[c].on, call[c].password)
<1>1. PICK i \in UserId, t \in Token :
        /\ users[i] = None /\ active[t] = None /\ t \notin revoked
        /\ users' = [users EXCEPT ![i] = row]
        /\ byEmail' = [byEmail EXCEPT ![e] = i]
        /\ active' = [active EXCEPT ![t] = i]
  BY DEF Acc!CreateUser, Acc!Unused, Acc!GenerateTokens
<1>2. Acc!Under(c, "register") /\ Acc!End(c) /\ UNCHANGED <<revoked, children, ended, raced>>
  BY DEF Acc!CreateUser
<1>3. e \in Email /\ row \in Acc!Row /\ row.email = e /\ row # None
  BY <1>2, CallFacts, AccountsNone DEF Acc!NewUser, Acc!Row
<1>4. /\ call' \in [Caller -> Acc!Request \cup {None}]
      /\ \A kind : \A b \in Caller : Acc!Under(b, kind)' => Acc!Under(b, kind) /\ b # c /\ call'[b] = call[b]
  BY <1>2, EndKeeps
<1>5. e \notin raced => byEmail[e] = None /\ \A b \in Caller : Acc!Under(b, "register") /\ call[b].on = e => b = c
  BY <1>2, <1>3 DEF AccountsInv, RegistrationsApart
<1> PICK e0, row0 : e0 = e /\ row0 = row
  OBVIOUS
<1>6. /\ e0 \in Email /\ row0 \in Acc!Row /\ row0.email = e0 /\ row0 # None
      /\ users' = [users EXCEPT ![i] = row0] /\ byEmail' = [byEmail EXCEPT ![e0] = i]
      /\ e0 \notin raced => byEmail[e0] = None /\ \A b \in Caller : Acc!Under(b, "register") /\ call[b].on = e0 => b = c
  BY <1>1, <1>3, <1>5
<1> HIDE DEF e, row
<1>7. /\ users' \in [UserId -> Acc!Row \cup {None}]
      /\ \A j \in UserId : users'[j] = IF j = i THEN row0 ELSE users[j]
      /\ byEmail' \in [Email -> UserId \cup {None}]
      /\ \A f \in Email : byEmail'[f] = IF f = e0 THEN i ELSE byEmail[f]
      /\ active' \in [Token -> UserId \cup {None}]
      /\ \A s \in Token : active'[s] = IF s = t THEN i ELSE active[s]
  BY <1>1, <1>6 DEF AccountsInv, Acc!TypeOK
<1>8. Acc!TypeOK'
  BY <1>1, <1>2, <1>4, <1>6, <1>7, AccountsNone DEF AccountsInv, Acc!TypeOK
<1>9. CallsKnowUsers'
  BY <1>4, <1>6, <1>7, CallFacts DEF CallsKnowUsers
<1>10. Acc!EmailsIndexed'
  <2>1. ASSUME NEW f \in Email, byEmail'[f] # None
        PROVE  users'[byEmail'[f]] # None /\ users'[byEmail'[f]].email = f
    BY <1>1, <1>6, <1>7, <2>1 DEF AccountsInv, Acc!TypeOK, Acc!EmailsIndexed
  <2>2. ASSUME NEW j \in UserId, users'[j] # None, users'[j].email \notin raced
        PROVE  byEmail'[users'[j].email] = j
    <3>1. CASE j = i
      BY <1>6, <1>7, <3>1
    <3>2. CASE j # i
      <4>1. users'[j] = users[j] /\ users[j] # None /\ byEmail[users[j].email] = j /\ users[j].email \in Email
        BY <1>7, <2>2, <3>2 DEF AccountsInv, Acc!EmailsIndexed, Acc!TypeOK, Acc!Row
      <4>2. users[j].email # e0
        BY <1>6, <2>2, <4>1, AccountsNone
      <4>3. QED
        BY <1>7, <4>1, <4>2
    <3>3. QED
      BY <3>1, <3>2
  <2>3. QED
    BY <1>2, <2>1, <2>2 DEF Acc!EmailsIndexed
<1>11. RegistrationsApart'
  BY <1>2, <1>4, <1>6, <1>7 DEF AccountsInv, RegistrationsApart
<1>12. RotationsApart'
  BY <1>1, <1>2, <1>4, <1>7, AccountsNone DEF AccountsInv, RotationsApart
<1>13. QED
  BY <1>8, <1>9, <1>10, <1>11, <1>12 DEF AccountsInv

\* login and changePassword up to their awaits, and refresh: only the table
\* of the calls changes, by one that has found an account.
LEMMA LookupKeeps ==
  ASSUME AccountsInv, NEW c \in Caller, NEW q \in Acc!Request, Acc!Begin(c, q),
         q.kind \in {"login", "changePassword"}, users[q.on] # None,
         UNCHANGED <<users, byEmail, active, revoked, children, ended, raced>>
  PROVE  AccountsInv'
<1>1. /\ call' \in [Caller -> Acc!Request \cup {None}] /\ call'[c] = q
      /\ \A b \in Caller : b # c => call'[b] = call[b]
      /\ \A kind : \A b \in Caller :
           Acc!Under(b, kind)' => (Acc!Under(b, kind) /\ b # c) \/ (b = c /\ q.kind = kind)
  BY BeginKeeps
<1>2. Acc!TypeOK'
  BY <1>1 DEF AccountsInv, Acc!TypeOK
<1>3. CallsKnowUsers'
  BY <1>1 DEF AccountsInv, CallsKnowUsers
<1>4. RegistrationsApart' /\ RotationsApart'
  BY <1>1 DEF AccountsInv, RegistrationsApart, RotationsApart
<1>5. QED
  BY <1>2, <1>3, <1>4 DEF AccountsInv, Acc!EmailsIndexed

LEMMA LoginKeeps ==
  ASSUME AccountsInv, NEW c \in Caller, NEW e \in Email, NEW p \in Password, Acc!FindByEmail(c, e, p)
  PROVE  AccountsInv'
<1>1. PICK i : i = byEmail[e]
  OBVIOUS
<1>2. i \in UserId /\ users[i] # None
  BY <1>1 DEF Acc!FindByEmail, AccountsInv, Acc!TypeOK, Acc!EmailsIndexed
<1>3. PICK q : q = [kind |-> "login", on |-> i]
  OBVIOUS
<1>4. q \in Acc!Request /\ q.kind = "login" /\ q.on = i
  BY <1>2, <1>3 DEF Acc!Request
<1>5. Acc!Begin(c, q) /\ UNCHANGED <<users, byEmail, active, revoked, children, ended, raced>>
  BY <1>1, <1>3 DEF Acc!FindByEmail
<1>6. QED
  BY <1>2, <1>4, <1>5, LookupKeeps

LEMMA CompareKeeps ==
  ASSUME AccountsInv, NEW c \in Caller, NEW i \in UserId, NEW p \in Password, NEW new \in Password,
         Acc!CompareCurrent(c, i, p, new)
  PROVE  AccountsInv'
<1>1. PICK q : q = [kind |-> "changePassword", on |-> i, password |-> new]
  OBVIOUS
<1>2. q \in Acc!Request /\ q.kind = "changePassword" /\ q.on = i
  BY <1>1 DEF Acc!Request
<1>3. /\ users[i] # None /\ Acc!Begin(c, q)
      /\ UNCHANGED <<users, byEmail, active, revoked, children, ended, raced>>
  BY <1>1 DEF Acc!CompareCurrent
<1>4. QED
  BY <1>2, <1>3, LookupKeeps

LEMMA RefreshKeeps ==
  ASSUME AccountsInv, NEW c \in Caller, NEW t \in Token, Acc!FindRefreshToken(c, t)
  PROVE  AccountsInv'
<1>1. PICK q : q = [kind |-> "refresh", on |-> t, user |-> active[t]]
  OBVIOUS
<1>2. /\ active[t] # None /\ t \notin revoked /\ Acc!Begin(c, q)
      /\ raced' = IF Acc!Overlaps("refresh", t) THEN raced \cup {t} ELSE raced
      /\ UNCHANGED <<users, byEmail, active, revoked, children, ended>>
  BY <1>1 DEF Acc!FindRefreshToken, Acc!Racing
<1>3. active[t] \in UserId /\ users[active[t]] # None
  BY <1>2 DEF AccountsInv, Acc!TypeOK
<1>4. q \in Acc!Request /\ q.kind = "refresh" /\ q.on = t /\ users[q.user] # None
  BY <1>1, <1>3 DEF Acc!Request
<1>5. /\ call' \in [Caller -> Acc!Request \cup {None}] /\ call'[c] = q
      /\ \A b \in Caller : b # c => call'[b] = call[b]
      /\ \A kind : \A b \in Caller :
           Acc!Under(b, kind)' => (Acc!Under(b, kind) /\ b # c) \/ (b = c /\ kind = "refresh")
  BY <1>2, <1>4, BeginKeeps
<1>6. Acc!TypeOK'
  BY <1>2, <1>5 DEF AccountsInv, Acc!TypeOK
<1>7. CallsKnowUsers'
  BY <1>2, <1>4, <1>5 DEF AccountsInv, CallsKnowUsers
<1>8. Acc!EmailsIndexed'
  BY <1>2 DEF AccountsInv, Acc!EmailsIndexed
<1>9. RegistrationsApart'
  BY <1>2, <1>5 DEF AccountsInv, RegistrationsApart
<1>10. t \notin raced' => \A b \in Caller : ~(Acc!Under(b, "refresh") /\ call[b].on = t)
  BY <1>2 DEF Acc!Overlaps
<1>11. RotationsApart'
  <2> SUFFICES ASSUME NEW s \in Token \ raced'
               PROVE  /\ \A a, b \in Caller : Acc!Under(b, "refresh")' /\ call'[b].on = s =>
                           /\ active[s] # None
                           /\ Acc!Under(a, "refresh")' /\ call'[a].on = s => a = b
                      /\ children[s] # {} => s \in revoked \ ended /\ \E new \in Token : children[s] = {new}
    BY <1>2 DEF RotationsApart
  <2>1. s \in Token \ raced
    BY <1>2
  <2>2. QED
    BY <1>2, <1>4, <1>5, <1>10, <2>1 DEF AccountsInv, RotationsApart
<1>12. QED
  BY <1>6, <1>7, <1>8, <1>9, <1>11 DEF AccountsInv

\* A valid token is given out: nothing else that is said changes.
LEMMA IssueKeeps ==
  ASSUME AccountsInv, NEW c \in Caller, Acc!IssueTokens(c)
  PROVE  AccountsInv'
<1> DEFINE i == call[c].on
<1>1. PICK u : u = i
  OBVIOUS
<1>2. PICK t \in Token : active[t] = None /\ t \notin revoked /\ active' = [active EXCEPT ![t] = u]
  BY <1>1 DEF Acc!IssueTokens, Acc!Unused, Acc!GenerateTokens
<1>3. Acc!Under(c, "login") /\ Acc!End(c) /\ UNCHANGED <<users, byEmail, revoked, children, ended, raced>>
  BY DEF Acc!IssueTokens
<1>4. u \in UserId /\ users[u] # None
  BY <1>1, <1>3, CallFacts
<1>5. /\ call' \in [Caller -> Acc!Request \cup {None}]
      /\ \A kind : \A b \in Caller : Acc!Under(b, kind)' => Acc!Under(b, kind) /\ b # c /\ call'[b] = call[b]
  BY <1>3, EndKeeps
<1> HIDE DEF i
<1>6. /\ active' \in [Token -> UserId \cup {None}]
      /\ \A s \in Token : active'[s] = IF s = t THEN u ELSE active[s]
  BY <1>2, <1>4 DEF AccountsInv, Acc!TypeOK
<1>7. Acc!TypeOK'
  BY <1>2, <1>3, <1>4, <1>5, <1>6 DEF AccountsInv, Acc!TypeOK
<1>8. CallsKnowUsers'
  BY <1>3, <1>5 DEF AccountsInv, CallsKnowUsers
<1>9. Acc!EmailsIndexed'
  BY <1>3 DEF AccountsInv, Acc!EmailsIndexed
<1>10. RegistrationsApart'
  BY <1>3, <1>5 DEF AccountsInv, RegistrationsApart
<1>11. RotationsApart'
  BY <1>3, <1>4, <1>5, <1>6, AccountsNone DEF AccountsInv, RotationsApart
<1>12. QED
  BY <1>7, <1>8, <1>9, <1>10, <1>11 DEF AccountsInv

\* The token that is rotated is ended and has one child, if no other request
\* worked on it.
LEMMA RotateKeeps ==
  ASSUME AccountsInv, NEW c \in Caller, Acc!RotateToken(c)
  PROVE  AccountsInv'
<1>1. PICK t, u : t = call[c].on /\ u = call[c].user
  OBVIOUS
<1>2. Acc!Under(c, "refresh") /\ Acc!End(c) /\ UNCHANGED <<users, byEmail, ended, raced>>
  BY DEF Acc!RotateToken
<1>3. t \in Token /\ u \in UserId /\ users[u] # None
  BY <1>1, <1>2, CallFacts
<1>4. PICK new \in Token :
        /\ new # t /\ active[new] = None /\ new \notin revoked
        /\ active' = [[active EXCEPT ![t] = None] EXCEPT ![new] = u]
        /\ revoked' = revoked \cup {t}
        /\ children' = [children EXCEPT ![t] = @ \cup {new}]
  BY <1>1 DEF Acc!RotateToken, Acc!Unused, Acc!GenerateTokens
<1>5. /\ call' \in [Caller -> Acc!Request \cup {None}]
      /\ \A kind : \A b \in Caller : Acc!Under(b, kind)' => Acc!Under(b, kind) /\ b # c /\ call'[b] = call[b]
  BY <1>2, EndKeeps
<1>6. /\ active' \in [Token -> UserId \cup {None}]
      /\ \A s \in Token : active'[s] = IF s = new THEN u ELSE IF s = t THEN None ELSE active[s]
  BY <1>3, <1>4 DEF AccountsInv, Acc!TypeOK
<1>7. /\ children' \in [Token -> SUBSET Token]
      /\ \A s \in Token : children'[s] = IF s = t THEN children[t] \cup {new} ELSE children[s]
  BY <1>3, <1>4 DEF AccountsInv, Acc!TypeOK
<1>8. Acc!TypeOK'
  BY <1>2, <1>3, <1>4, <1>5, <1>6, <1>7 DEF AccountsInv, Acc!TypeOK
<1>9. CallsKnowUsers'
  BY <1>2, <1>5 DEF AccountsInv, CallsKnowUsers
<1>10. Acc!EmailsIndexed'
  BY <1>2 DEF AccountsInv, Acc!EmailsIndexed
<1>11. RegistrationsApart'
  BY <1>2, <1>5 DEF AccountsInv, RegistrationsApart
<1>12. t \notin raced => /\ active[t] # None /\ t \notin revoked /\ t \notin ended /\ children[t] = {}
                         /\ \A b \in Caller : Acc!Under(b, "refresh") /\ call[b].on = t => b = c
  BY <1>1, <1>2, <1>3 DEF AccountsInv, RotationsApart, Acc!TypeOK
<1>13. ASSUME NEW s \in Token \ raced, NEW a \in Caller, NEW b \in Caller,
              Acc!Under(b, "refresh")', call'[b].on = s
       PROVE  active'[s] # None /\ (Acc!Under(a, "refresh")' /\ call'[a].on = s => a = b)
  <2>1. /\ Acc!Under(b, "refresh") /\ b # c /\ call[b].on = s /\ active[s] # None
        /\ Acc!Under(a, "refresh")' => Acc!Under(a, "refresh") /\ call'[a] = call[a]
    BY <1>5, <1>13 DEF AccountsInv, RotationsApart
  <2>2. s # t /\ s # new
    BY <1>4, <1>12, <2>1
  <2>3. QED
    BY <1>6, <2>1, <2>2 DEF AccountsInv, RotationsApart
<1>14. ASSUME NEW s \in Token \ raced, children'[s] # {}
       PROVE  s \in revoked' \ ended' /\ \E one \in Token : children'[s] = {one}
  <2>1. CASE s = t
    BY <1>2, <1>4, <1>7, <1>12, <2>1
  <2>2. CASE s # t
    BY <1>2, <1>4, <1>7, <1>14, <2>2 DEF AccountsInv, RotationsApart
  <2>3. QED
    BY <2>1, <2>2
<1>15. RotationsApart'
  BY <1>2, <1>13, <1>14 DEF RotationsApart
<1>16. QED
  BY <1>8, <1>9, <1>10, <1>11, <1>15 DEF AccountsInv

LEMMA LogoutKeeps ==
  ASSUME AccountsInv, NEW t \in Token, Acc!Logout(t)
  PROVE  AccountsInv'
<1>1. /\ active[t] # None /\ active' = [active EXCEPT ![t] = None]
      /\ revoked' = revoked \cup {t} /\ ended' = ended \cup {t}
      /\ raced' = IF Acc!Overlaps("refresh", t) THEN raced \cup {t} ELSE raced
      /\ UNCHANGED <<users, byEmail, call, children>>
  BY DEF Acc!Logout, Acc!Racing
<1>2. /\ active' \in [Token -> UserId \cup {None}]
      /\ \A s \in Token : active'[s] = IF s = t THEN None ELSE active[s]
  BY <1>1 DEF AccountsInv, Acc!TypeOK
<1>3. Acc!TypeOK'
  BY <1>1, <1>2 DEF AccountsInv, Acc!TypeOK
<1>4. \A kind : \A b \in Caller : Acc!Under(b, kind)' <=> Acc!Under(b, kind)
  BY <1>1 DEF Acc!Under
<1>5. CallsKnowUsers'
  BY <1>1, <1>4 DEF AccountsInv, CallsKnowUsers
<1>6. Acc!EmailsIndexed'
  BY <1>1 DEF AccountsInv, Acc!EmailsIndexed
<1>7. RegistrationsApart'
  BY <1>1, <1>4 DEF AccountsInv, RegistrationsApart
<1>8. t \notin raced' => \A b \in Caller : ~(Acc!Under(b, "refresh") /\ call[b].on = t)
  BY <1>1 DEF Acc!Overlaps
<1>9. t \notin raced' => children[t] = {}
  BY <1>1 DEF AccountsInv, RotationsApart, Acc!TypeOK
<1>10. RotationsApart'
  BY <1>1, <1>2, <1>4, <1>8, <1>9 DEF AccountsInv, RotationsApart
<1>11. QED
  BY <1>3, <1>5, <1>6, <1>7, <1>10 DEF AccountsInv

\* A row is given another password or status: who has which e-mail address
\* stays.
LEMMA RowChangeKeeps ==
  ASSUME AccountsInv, NEW i \in UserId, users[i] # None,
         NEW row \in Acc!Row, row.email = users[i].email, users' = [users EXCEPT ![i] = row]
  PROVE  /\ users' \in [UserId -> Acc!Row \cup {None}]
         /\ \A j \in UserId : (users'[j] # None <=> users[j] # None)
                              /\ (users[j] # None => users'[j].email = users[j].email)
<1>1. \A j \in UserId : users'[j] = IF j = i THEN row ELSE users[j]
  BY DEF AccountsInv, Acc!TypeOK
<1>2. QED
  BY <1>1, AccountsNone DEF AccountsInv, Acc!TypeOK

LEMMA UsersKept ==
  ASSUME AccountsInv, UNCHANGED <<byEmail, active, revoked, children, ended, raced>>,
         users' \in [UserId -> Acc!Row \cup {None}],
         \A j \in UserId : (users'[j] # None <=> users[j] # None)
                           /\ (users[j] # None => users'[j].email = users[j].email),
         call' \in [Caller -> Acc!Request \cup {None}],
         \A kind : \A b \in Caller : Acc!Under(b, kind)' => Acc!Under(b, kind) /\ call'[b] = call[b]
  PROVE  AccountsInv'
<1>1. Acc!TypeOK'
  BY DEF AccountsInv, Acc!TypeOK
<1>2. CallsKnowUsers'
  BY CallFacts DEF CallsKnowUsers
<1>3. Acc!EmailsIndexed'
  BY DEF AccountsInv, Acc!EmailsIndexed, Acc!TypeOK
<1>4. RegistrationsApart' /\ RotationsApart'
  BY DEF AccountsInv, RegistrationsApart, RotationsApart
<1>5. QED
  BY <1>1, <1>2, <1>3, <1>4 DEF AccountsInv

LEMMA PasswordKeeps ==
  ASSUME AccountsInv, NEW c \in Caller, Acc!UpdatePasswordHash(c)
  PROVE  AccountsInv'
<1>1. PICK i, p : i = call[c].on /\ p = call[c].password
  OBVIOUS
<1>2. /\ Acc!Under(c, "changePassword") /\ Acc!End(c) /\ users' = [users EXCEPT ![i].password = p]
      /\ UNCHANGED <<byEmail, active, revoked, children, ended, raced>>
  BY <1>1 DEF Acc!UpdatePasswordHash
<1>3. i \in UserId /\ p \in Password /\ users[i] # None
  BY <1>1, <1>2, CallFacts
<1>4. PICK row : row = [users[i] EXCEPT !.password = p]
  OBVIOUS
<1>5. users[i] \in Acc!Row
  BY <1>3 DEF AccountsInv, Acc!TypeOK
<1>6. row \in Acc!Row /\ row.email = users[i].email
  BY <1>3, <1>4, <1>5 DEF Acc!Row
<1>7. users' = [users EXCEPT ![i] = row]
  BY <1>2, <1>4
<1>8. QED
  BY <1>2, <1>3, <1>6, <1>7, EndKeeps, RowChangeKeeps, UsersKept

LEMMA StatusKeeps ==
  ASSUME AccountsInv, NEW i \in UserId, NEW to \in {"ACTIVE", "SUSPENDED"}, Acc!UpdateStatus(i, to)
  PROVE  AccountsInv'
<1>1. PICK row : row = [users[i] EXCEPT !.status = to]
  OBVIOUS
<1>2. /\ users[i] # None /\ users' = [users EXCEPT ![i] = row]
      /\ UNCHANGED <<byEmail, active, revoked, call, children, ended, raced>>
  BY <1>1 DEF Acc!UpdateStatus
<1>3. users[i] \in Acc!Row
  BY <1>2 DEF AccountsInv, Acc!TypeOK
<1>4. row \in Acc!Row /\ row.email = users[i].email
  BY <1>1, <1>3 DEF Acc!Row
<1>5. /\ call' \in [Caller -> Acc!Request \cup {None}]
      /\ \A kind : \A b \in Caller : Acc!Under(b, kind)' => Acc!Under(b, kind) /\ call'[b] = call[b]
  BY <1>2 DEF AccountsInv, Acc!TypeOK, Acc!Under
<1>6. QED
  BY <1>2, <1>4, <1>5, RowChangeKeeps, UsersKept

LEMMA AccountsStep == AccountsInv /\ [Next]_vars => AccountsInv'
<1> SUFFICES ASSUME AccountsInv, [Next]_vars PROVE AccountsInv'
  OBVIOUS
<1>1. Acc!Next \/ UNCHANGED accountsVars
  BY DEF Next, vars
<1>2. CASE UNCHANGED accountsVars
  BY <1>2 DEF accountsVars, AccountsInv, Acc!TypeOK, CallsKnowUsers, Acc!EmailsIndexed, RegistrationsApart,
              RotationsApart, Acc!Under
<1>3. CASE Acc!Next
  <2>1. ASSUME NEW c \in Caller, Acc!CreateUser(c) \/ Acc!IssueTokens(c) \/ Acc!RotateToken(c)
                                   \/ Acc!UpdatePasswordHash(c)
        PROVE  AccountsInv'
    BY <2>1, CreateKeeps, IssueKeeps, RotateKeeps, PasswordKeeps
  <2>2. ASSUME NEW c \in Caller, NEW e \in Email, NEW p \in Password,
               Acc!FindNoAccount(c, e, p) \/ Acc!FindByEmail(c, e, p)
        PROVE  AccountsInv'
    BY <2>2, RegisterKeeps, LoginKeeps
  <2>3. ASSUME NEW c \in Caller, NEW t \in Token, Acc!FindRefreshToken(c, t) PROVE AccountsInv'
    BY <2>3, RefreshKeeps
  <2>4. ASSUME NEW t \in Token, Acc!Logout(t) PROVE AccountsInv'
    BY <2>4, LogoutKeeps
  <2>5. ASSUME NEW c \in Caller, NEW i \in UserId, NEW p \in Password, NEW new \in Password,
               Acc!CompareCurrent(c, i, p, new)
        PROVE  AccountsInv'
    BY <2>5, CompareKeeps
  <2>6. ASSUME NEW i \in UserId, NEW to \in {"ACTIVE", "SUSPENDED"}, Acc!UpdateStatus(i, to)
        PROVE  AccountsInv'
    BY <2>6, StatusKeeps
  <2>7. QED
    BY <1>3, <2>1, <2>2, <2>3, <2>4, <2>5, <2>6 DEF Acc!Next
<1>4. QED
  BY <1>1, <1>2, <1>3

LEMMA AccountsAlways == Spec => []AccountsInv
<1>1. Init => AccountsInv
  BY AccountsInit DEF Init
<1>2. QED
  BY <1>1, AccountsStep, PTL DEF Spec

\* The e-mail index (usersByEmail) and the accounts agree: no account is lost
\* to its owner by any interleaving of registrations, logins, refreshes and
\* changes of password, unless two registrations of one e-mail overlapped.
THEOREM AccountsCanBeFound == Spec => []EmailsIndexed
<1>1. AccountsInv => EmailsIndexed
  BY DEF AccountsInv, EmailsIndexed
<1>2. QED
  BY <1>1, AccountsAlways, PTL

\* A refresh token is exchanged for one other at most, is of no use after
\* that, and is exchanged for none once its session was logged out, unless
\* two requests worked on it at once.
THEOREM TokensAreUsedOnce == Spec => []TokenUsedOnce
<1>1. AccountsInv => TokenUsedOnce
  <2> SUFFICES ASSUME AccountsInv, NEW t \in Token \ raced
               PROVE  Cardinality(children[t]) <= 1 /\ (children[t] # {} => active[t] = None /\ t \notin ended)
    BY SameCardinality DEF TokenUsedOnce, Acc!TokenUsedOnce
  <2>1. children[t] # {} => /\ t \in revoked \ ended /\ active[t] = None
                            /\ \E new \in Token : children[t] = {new}
    BY DEF AccountsInv, Acc!TypeOK, RotationsApart
  <2>2. CASE children[t] = {}
    <3>1. Cardinality({}) = 0
      BY FS_EmptySet
    <3>2. Cardinality(children[t]) = 0
      BY <2>2, <3>1, Zenon
    <3>3. QED
      BY <2>2, <3>2
  <2>3. CASE children[t] # {}
    <3>1. PICK new \in Token : children[t] = {new}
      BY <2>1, <2>3
    <3>2. Cardinality({new}) = 1
      BY FS_Singleton
    <3>3. Cardinality(children[t]) = 1
      BY <3>1, <3>2, Zenon
    <3>4. QED
      BY <2>1, <2>3, <3>3
  <2>4. QED
    BY <2>2, <2>3
<1>2. QED
  BY <1>1, AccountsAlways, PTL

-----------------------------------------------------------------------------
(***************************************************************************)
(* Conversations                                                           *)
(***************************************************************************)
\* The messages are numbered as they are created.
MessagesInOrder == \E n \in 0 .. MaxMessages : \A m \in Chat!Message : msg[m] # Chat!NoMessage <=> m <= n

ChatMessage == [conv : Conv \cup {None}, role : {"none", "user", "assistant"}, words : 0 .. Words,
                status : {"none", "asked", "streaming", "stopped", "completed"}]

MessagesTyped ==
  /\ msg \in [Chat!Message -> ChatMessage]
  /\ \A m \in Chat!Message : msg[m].status \in {"asked", "streaming"} => msg[m].role = "assistant"
  /\ stopped \in [Chat!Message -> 0 .. Words \cup {None}]
  /\ controllers \subseteq Chat!Message /\ aborted \subseteq Chat!Message

\* What was promised to stop is what carries an aborted signal.
StopsAreSignals == \A m \in Chat!Message : stopped[m] # None <=> m \in aborted

ChatInv == MessagesTyped /\ MessagesInOrder /\ StopsAreSignals /\ Chat!StopIsHonoured

\* The seeded conversation exists.
LEMMA ChatInit == Chat!Init => ChatInv
<1> SUFFICES ASSUME Chat!Init PROVE ChatInv
  OBVIOUS
<1>1. 1 \in Chat!Message /\ 2 \in Chat!Message /\ Chat!Message \subseteq Nat /\ 2 \in 0 .. MaxMessages
  BY ChatAssumption DEF Chat!Message
<1>2. \A m \in Chat!Message : msg[m] = IF m = 1 THEN Chat!User(Welcome)
                                       ELSE IF m = 2 THEN Chat!Assistant(Welcome, "completed", Words)
                                       ELSE Chat!NoMessage
  BY <1>1 DEF Chat!Init
<1>3. /\ DOMAIN msg = Chat!Message /\ msg = [m \in Chat!Message |-> msg[m]]
      /\ controllers = {} /\ aborted = {} /\ stopped = [m \in Chat!Message |-> None]
  BY DEF Chat!Init
<1>4. Welcome \in Conv
  BY ChatAssumption
<1>5. MessagesTyped
  BY <1>2, <1>3, <1>4, ChatAssumption DEF MessagesTyped, ChatMessage, Chat!User, Chat!Assistant, Chat!NoMessage
<1>6. \A m \in Chat!Message : msg[m] # Chat!NoMessage <=> m <= 2
  BY <1>1, <1>2, ChatAssumption DEF Chat!User, Chat!Assistant, Chat!NoMessage, Chat!Message
<1>7. MessagesInOrder
  BY <1>1, <1>6 DEF MessagesInOrder
<1>8. Chat!StopIsHonoured
  BY <1>2, <1>3 DEF Chat!StopIsHonoured, Chat!Streaming, Chat!User, Chat!Assistant, Chat!NoMessage
<1>9. QED
  BY <1>3, <1>5, <1>7, <1>8 DEF ChatInv, StopsAreSignals

\* Two new messages: a question and the place of its answer.
LEMMA AnswerIds ==
  ASSUME ChatInv, Chat!AnswerId <= MaxMessages
  PROVE  \E n \in Nat : /\ Chat!AnswerId = n + 2 /\ n + 2 <= MaxMessages
                        /\ \A m \in Chat!Message : msg[m] # Chat!NoMessage <=> m <= n
<1>1. PICK n \in 0 .. MaxMessages : \A m \in Chat!Message : msg[m] # Chat!NoMessage <=> m <= n
  BY DEF ChatInv, MessagesInOrder
<1>2. Chat!Used = 1 .. n
  BY <1>1, ChatAssumption DEF Chat!Used, Chat!Message
<1>3. Cardinality(1 .. n) = n
  BY FS_Interval
<1>4. Chat!Cardinality(Chat!Used) = n
  BY <1>2, <1>3 DEF Chat!Cardinality, Cardinality
<1>5. QED
  BY <1>1, <1>4 DEF Chat!AnswerId

LEMMA AskKeeps ==
  ASSUME ChatInv, NEW c \in Conv, NEW to \in {"asked", "streaming"},
         Chat!AnswerId <= MaxMessages,
         msg' = [msg EXCEPT ![Chat!AnswerId - 1] = Chat!User(c),
                            ![Chat!AnswerId] = Chat!Assistant(c, to, 0)],
         controllers' = IF to = "streaming" THEN controllers \cup {Chat!AnswerId} ELSE controllers,
         UNCHANGED <<aborted, stopped>>
  PROVE  ChatInv'
<1>1. PICK n \in Nat : /\ Chat!AnswerId = n + 2 /\ n + 2 <= MaxMessages
                      /\ \A m \in Chat!Message : msg[m] # Chat!NoMessage <=> m <= n
  BY AnswerIds
<1>2. n + 1 \in Chat!Message /\ n + 2 \in Chat!Message /\ (n + 2) - 1 = n + 1 /\ n + 1 # n + 2
      /\ n + 2 \in 0 .. MaxMessages
  BY <1>1, ChatAssumption DEF Chat!Message
<1>3. PICK a, b : a = n + 1 /\ b = n + 2
  OBVIOUS
<1>4. msg' = [[msg EXCEPT ![a] = Chat!User(c)] EXCEPT ![b] = Chat!Assistant(c, to, 0)]
  BY <1>1, <1>2, <1>3
<1>5. /\ DOMAIN msg' = Chat!Message /\ msg' = [m \in Chat!Message |-> msg'[m]]
      /\ \A m \in Chat!Message : msg'[m] = IF m = b THEN Chat!Assistant(c, to, 0)
                                            ELSE IF m = a THEN Chat!User(c) ELSE msg[m]
  BY <1>2, <1>3, <1>4 DEF ChatInv, MessagesTyped
<1>6. msg[a] = Chat!NoMessage /\ msg[b] = Chat!NoMessage
  BY <1>1, <1>2, <1>3
<1>7. stopped[a] = None /\ stopped[b] = None /\ a \notin aborted /\ b \notin aborted /\ a \notin controllers
  BY <1>2, <1>3, <1>6 DEF ChatInv, StopsAreSignals, Chat!StopIsHonoured, Chat!Streaming, Chat!NoMessage
<1>8. controllers' = IF to = "streaming" THEN controllers \cup {b} ELSE controllers
  BY <1>1, <1>3
<1>9. MessagesTyped'
  <2>1. Chat!User(c) \in ChatMessage /\ Chat!Assistant(c, to, 0) \in ChatMessage
    BY ChatAssumption DEF ChatMessage, Chat!User, Chat!Assistant
  <2>2. msg' \in [Chat!Message -> ChatMessage]
    BY <1>5, <2>1 DEF ChatInv, MessagesTyped
  <2>3. \A m \in Chat!Message : msg'[m].status \in {"asked", "streaming"} => msg'[m].role = "assistant"
    BY <1>5 DEF ChatInv, MessagesTyped, Chat!User, Chat!Assistant
  <2>4. controllers' \subseteq Chat!Message
    BY <1>2, <1>3, <1>8 DEF ChatInv, MessagesTyped
  <2>5. QED
    BY <2>2, <2>3, <2>4 DEF ChatInv, MessagesTyped
<1>10. \A m \in Chat!Message : msg'[m] # Chat!NoMessage <=> m <= n + 2
  BY <1>1, <1>2, <1>3, <1>5, ChatAssumption DEF Chat!User, Chat!Assistant, Chat!NoMessage, Chat!Message
<1>11. MessagesInOrder'
  BY <1>2, <1>10 DEF MessagesInOrder
<1>12. Chat!StopIsHonoured'
  <2>1. \A m \in Chat!Message : stopped[m] # None => msg'[m] = msg[m]
    BY <1>5, <1>7
  <2>2. \A m \in Chat!Message : msg'[m].status = "streaming" <=> msg[m].status = "streaming" \/ (m = b /\ to = "streaming")
    BY <1>5, <1>6 DEF Chat!User, Chat!Assistant, Chat!NoMessage
  <2>3. controllers = {m \in Chat!Message : msg[m].status = "streaming" /\ m \notin aborted}
    BY DEF ChatInv, Chat!StopIsHonoured, Chat!Streaming
  <2>4. \A m \in Chat!Message : m \in controllers' <=> msg'[m].status = "streaming" /\ m \notin aborted
    BY <1>2, <1>3, <1>7, <1>8, <2>2, <2>3
  <2>5. controllers' = {m \in Chat!Message : msg'[m].status = "streaming" /\ m \notin aborted}
    BY <1>9, <2>4 DEF MessagesTyped
  <2>6. \A m \in Chat!Message : msg'[m].role = "assistant" /\ msg'[m].status = "completed" => msg'[m].words = Words
    BY <1>5 DEF ChatInv, Chat!StopIsHonoured, Chat!User, Chat!Assistant
  <2>7. QED
    BY <2>1, <2>5, <2>6 DEF ChatInv, Chat!StopIsHonoured, Chat!Streaming
<1>13. QED
  BY <1>9, <1>11, <1>12 DEF ChatInv, StopsAreSignals

LEMMA StreamedKeeps ==
  ASSUME ChatInv, NEW c \in Conv, NEW messages, Chat!Streamed(c, messages)
  PROVE  ChatInv'
BY AskKeeps DEF Chat!Streamed

LEMMA SendKeeps ==
  ASSUME ChatInv, NEW c \in Conv, Chat!SendMessage(c)
  PROVE  ChatInv'
BY AskKeeps DEF Chat!SendMessage

\* Only conversations change: what is said of messages stays.
LEMMA ConversationKeeps ==
  ASSUME ChatInv, UNCHANGED <<msg, controllers, aborted, stopped>>
  PROVE  ChatInv'
BY DEF ChatInv, MessagesTyped, MessagesInOrder, StopsAreSignals, Chat!StopIsHonoured, Chat!Streaming

\* One message that exists changes.
LEMMA MessageChanges ==
  ASSUME ChatInv, NEW m \in Chat!Message, NEW new, msg' = [msg EXCEPT ![m] = new],
         new \in ChatMessage,
         new.role = "assistant", msg[m].role = "assistant"
  PROVE  /\ \A k \in Chat!Message : msg'[k] = IF k = m THEN new ELSE msg[k]
         /\ MessagesInOrder'
         /\ controllers' \subseteq controllers /\ UNCHANGED <<aborted, stopped>> => MessagesTyped'
<1>1. \A k \in Chat!Message : msg'[k] = IF k = m THEN new ELSE msg[k]
  BY DEF ChatInv, MessagesTyped
<1>2. new # Chat!NoMessage /\ msg[m] # Chat!NoMessage
  BY DEF Chat!NoMessage
<1>3. \A k \in Chat!Message : msg'[k] # Chat!NoMessage <=> msg[k] # Chat!NoMessage
  BY <1>1, <1>2
<1>4. MessagesInOrder'
  BY <1>3 DEF ChatInv, MessagesInOrder
<1>5. msg' \in [Chat!Message -> ChatMessage]
  BY DEF ChatInv, MessagesTyped
<1>6. QED
  BY <1>1, <1>4, <1>5 DEF ChatInv, MessagesTyped

LEMMA AnswerKeeps ==
  ASSUME ChatInv, NEW m \in Chat!Message, Chat!AnswerMessage(m)
  PROVE  ChatInv'
<1>1. PICK new : new = [msg[m] EXCEPT !.status = "completed", !.words = Words]
  OBVIOUS
<1>2. /\ msg[m].status = "asked" /\ msg' = [msg EXCEPT ![m] = new]
      /\ UNCHANGED <<controllers, aborted, stopped>>
  BY <1>1 DEF Chat!AnswerMessage, ChatInv, MessagesTyped
<1>3. msg[m] \in ChatMessage /\ msg[m].role = "assistant"
  BY <1>2 DEF ChatInv, MessagesTyped
<1>4. new \in ChatMessage /\ new.role = "assistant" /\ new.status = "completed" /\ new.words = Words
  <2>1. Words \in 0 .. Words
    BY ChatAssumption
  <2>2. QED
    BY <1>1, <1>3, <2>1 DEF ChatMessage
<1>5. /\ \A k \in Chat!Message : msg'[k] = IF k = m THEN new ELSE msg[k]
      /\ MessagesInOrder' /\ MessagesTyped'
  BY <1>2, <1>3, <1>4, MessageChanges
<1>6. stopped[m] = None
  BY <1>2 DEF ChatInv, Chat!StopIsHonoured
<1>7. Chat!StopIsHonoured'
  BY <1>2, <1>4, <1>5, <1>6 DEF ChatInv, Chat!StopIsHonoured, Chat!Streaming
<1>8. QED
  BY <1>2, <1>5, <1>7 DEF ChatInv, StopsAreSignals

LEMMA WordKeeps ==
  ASSUME ChatInv, NEW m \in Chat!Message, Chat!StreamWord(m)
  PROVE  ChatInv'
<1>1. PICK new : new = [msg[m] EXCEPT !.words = @ + 1]
  OBVIOUS
<1>2. /\ msg[m].status = "streaming" /\ m \notin aborted /\ msg[m].words < Words
      /\ msg' = [msg EXCEPT ![m] = new] /\ UNCHANGED <<controllers, aborted, stopped>>
  BY <1>1 DEF Chat!StreamWord, Chat!Streaming, ChatInv, MessagesTyped
<1>3. msg[m] \in ChatMessage /\ msg[m].role = "assistant"
  BY <1>2 DEF ChatInv, MessagesTyped
<1>4. new \in ChatMessage /\ new.role = "assistant" /\ new.status = "streaming"
  BY <1>1, <1>2, <1>3, ChatAssumption DEF ChatMessage
<1>5. /\ \A k \in Chat!Message : msg'[k] = IF k = m THEN new ELSE msg[k]
      /\ MessagesInOrder' /\ MessagesTyped'
  BY <1>2, <1>3, <1>4, MessageChanges
<1>6. stopped[m] = None
  BY <1>2 DEF ChatInv, StopsAreSignals
<1>7. Chat!StopIsHonoured'
  BY <1>2, <1>4, <1>5, <1>6 DEF ChatInv, Chat!StopIsHonoured, Chat!Streaming
<1>8. QED
  BY <1>2, <1>5, <1>7 DEF ChatInv, StopsAreSignals

LEMMA FinalizeKeeps ==
  ASSUME ChatInv, NEW m \in Chat!Message, Chat!FinalizeMessage(m)
  PROVE  ChatInv'
<1>1. PICK new : new = [msg[m] EXCEPT !.status = Chat!FinalStatus(m)]
  OBVIOUS
<1>2. /\ msg[m].status = "streaming" /\ (m \in aborted \/ msg[m].words = Words)
      /\ msg' = [msg EXCEPT ![m] = new] /\ controllers' = controllers \ {m}
      /\ UNCHANGED <<aborted, stopped>>
  BY <1>1 DEF Chat!FinalizeMessage, Chat!Streaming, ChatInv, MessagesTyped
<1>3. msg[m] \in ChatMessage /\ msg[m].role = "assistant"
  BY <1>2 DEF ChatInv, MessagesTyped
<1>4. /\ new \in ChatMessage /\ new.role = "assistant" /\ new.words = msg[m].words
      /\ new.status = IF m \in aborted THEN "stopped" ELSE "completed"
  BY <1>1, <1>3 DEF ChatMessage, Chat!FinalStatus
<1>5. /\ \A k \in Chat!Message : msg'[k] = IF k = m THEN new ELSE msg[k]
      /\ MessagesInOrder' /\ MessagesTyped'
  BY <1>2, <1>3, <1>4, MessageChanges
<1>6. Chat!StopIsHonoured'
  BY <1>2, <1>4, <1>5 DEF ChatInv, StopsAreSignals, Chat!StopIsHonoured, Chat!Streaming
<1>7. QED
  BY <1>2, <1>5, <1>6 DEF ChatInv, StopsAreSignals

\* A stop, or the client's going: the words so far are what was promised.
LEMMA AbortKeeps ==
  ASSUME ChatInv, NEW m \in Chat!Message, Chat!Streaming(m), Chat!Abort(m)
  PROVE  ChatInv'
<1>1. /\ aborted' = aborted \cup {m} /\ controllers' = controllers \ {m} /\ UNCHANGED msg
      /\ stopped' = IF m \in aborted THEN stopped ELSE [stopped EXCEPT ![m] = msg[m].words]
  BY DEF Chat!Abort
<1>2. msg[m].words \in 0 .. Words /\ msg[m].words # None
  BY ChatAssumption DEF ChatInv, MessagesTyped, ChatMessage
<1>3. /\ stopped' \in [Chat!Message -> 0 .. Words \cup {None}]
      /\ \A k \in Chat!Message :
           stopped'[k] = IF k = m /\ m \notin aborted THEN msg[m].words ELSE stopped[k]
  BY <1>1, <1>2 DEF ChatInv, MessagesTyped
<1>4. MessagesTyped' /\ MessagesInOrder'
  BY <1>1, <1>3 DEF ChatInv, MessagesTyped, MessagesInOrder
<1>5. StopsAreSignals'
  BY <1>1, <1>2, <1>3 DEF ChatInv, StopsAreSignals
<1>6. Chat!StopIsHonoured'
  BY <1>1, <1>2, <1>3 DEF ChatInv, Chat!StopIsHonoured, Chat!Streaming
<1>7. QED
  BY <1>4, <1>5, <1>6 DEF ChatInv

LEMMA RetryKeeps ==
  ASSUME ChatInv, NEW c \in Conv, NEW m \in Chat!Message, Chat!RetryMessage(c, m)
  PROVE  ChatInv'
<1>1. \/ \E messages : Chat!Streamed(c, messages)
      \/ UNCHANGED <<msg, controllers, aborted, stopped>>
  BY DEF Chat!RetryMessage
<1>2. QED
  BY <1>1, StreamedKeeps, ConversationKeeps

LEMMA ChatStep == ChatInv /\ [Next]_vars => ChatInv'
<1> SUFFICES ASSUME ChatInv, [Next]_vars PROVE ChatInv'
  OBVIOUS
<1>1. Chat!Next \/ UNCHANGED chatVars
  BY DEF Next, vars
<1>2. CASE UNCHANGED chatVars
  BY <1>2, ConversationKeeps DEF chatVars
<1>3. CASE Chat!Next
  <2>1. ASSUME NEW c \in Conv,
               \/ \E titled \in BOOLEAN : Chat!CreateConversation(c, titled)
               \/ Chat!DeleteConversation(c) \/ Chat!UpdateConversationTitle(c)
        PROVE  ChatInv'
    BY <2>1, ConversationKeeps DEF Chat!CreateConversation, Chat!DeleteConversation, Chat!UpdateConversationTitle
  <2>2. ASSUME NEW c \in Conv, \/ Chat!SendMessage(c) \/ Chat!StreamMessage(c)
                               \/ \E m \in Chat!Message : Chat!RetryMessage(c, m)
        PROVE  ChatInv'
    BY <2>2, SendKeeps, StreamedKeeps, RetryKeeps DEF Chat!StreamMessage
  <2>3. ASSUME NEW m \in Chat!Message, Chat!AnswerMessage(m) \/ Chat!StreamStep(m) PROVE ChatInv'
    BY <2>3, AnswerKeeps, WordKeeps, FinalizeKeeps DEF Chat!StreamStep
  <2>4. ASSUME NEW m \in Chat!Message, Chat!StopGeneration(m) \/ Chat!ClientCloses(m) PROVE ChatInv'
    <3>1. Chat!Abort(m) /\ Chat!Streaming(m)
      BY <2>4 DEF Chat!StopGeneration, Chat!ClientCloses, ChatInv, Chat!StopIsHonoured
    <3>2. QED
      BY <3>1, AbortKeeps
  <2>5. QED
    BY <1>3, <2>1, <2>2, <2>3, <2>4 DEF Chat!Next
<1>4. QED
  BY <1>1, <1>2, <1>3

\* Whatever is streamed, stopped, retried or deleted meanwhile, and however
\* often: no answer grows or is marked completed after its stop was answered
\* with true or its client left, every other streaming answer has the
\* controller that can stop it, and no controller outlives its stream.
THEOREM StopsAreHonoured == Spec => []StopIsHonoured
<1>1. Init => ChatInv
  BY ChatInit DEF Init
<1>2. ChatInv => StopIsHonoured
  BY DEF ChatInv, StopIsHonoured
<1>3. QED
  BY <1>1, <1>2, ChatStep, PTL DEF Spec

-----------------------------------------------------------------------------
(***************************************************************************)
(* What conversations are charged                                          *)
(***************************************************************************)
\* Induction over the natural numbers, for a set of them.
LEMMA AllNumbers ==
  ASSUME NEW S, 0 \in S, \A n \in Nat : n \in S => n + 1 \in S
  PROVE  Nat \subseteq S
<1> SUFFICES ASSUME NEW m \in Nat, m \notin S PROVE FALSE
  OBVIOUS
<1>1. PICK rest : rest = Nat \ S
  OBVIOUS
<1>2. PICK n \in rest : \A k \in rest : <<k, n>> \notin OpToRel(<, Nat)
  <2>1. rest \subseteq Nat /\ rest # {}
    BY <1>1
  <2>2. QED
    BY <2>1, WFMin, NatLessThanWellFounded, Zenon
<1>3. \A k \in rest : ~(k < n)
  BY <1>1, <1>2 DEF OpToRel
<1>4. n \in Nat /\ n # 0 /\ n - 1 \in Nat /\ n - 1 < n
  BY <1>1
<1>5. n - 1 \in S
  BY <1>1, <1>3, <1>4
<1>6. n \in S
  BY <1>4, <1>5
<1>7. QED
  BY <1>1, <1>6

\* sum lists the totals of the first n costs.
Sums(cost, n, sum) == sum = [i \in 0 .. n |-> IF i = 0 THEN 0 ELSE sum[i - 1] + cost[i]]

LEMMA SumsStep ==
  ASSUME NEW cost, NEW n \in Nat, NEW sum, Sums(cost, n, sum)
  PROVE  sum[0] = 0 /\ \A i \in 1 .. n : sum[i] = sum[i - 1] + cost[i]
<1>1. \A i \in 0 .. n : sum[i] = IF i = 0 THEN 0 ELSE sum[i - 1] + cost[i]
  BY Zenon DEF Sums
<1>2. 0 \in 0 .. n /\ \A i \in 1 .. n : i \in 0 .. n /\ i # 0
  OBVIOUS
<1>3. QED
  BY <1>1, <1>2

LEMMA SumsExist ==
  ASSUME NEW cost, NEW n \in Nat
  PROVE  \E sum : Sums(cost, n, sum)
<1>1. PICK S : S = {m \in Nat : \E sum : Sums(cost, m, sum)}
  OBVIOUS
<1>2. 0 \in S
  <2>1. PICK f : f = [i \in 0 .. 0 |-> 0]
    OBVIOUS
  <2>2. \A i \in 0 .. 0 : i = 0
    OBVIOUS
  <2>3. f = [i \in 0 .. 0 |-> IF i = 0 THEN 0 ELSE f[i - 1] + cost[i]]
    BY <2>1, <2>2
  <2>4. QED
    BY <1>1, <2>3 DEF Sums
<1>3. ASSUME NEW m \in Nat, m \in S PROVE m + 1 \in S
  <2>1. PICK f : Sums(cost, m, f)
    BY <1>1, <1>3
  <2>2. PICK g : g = [i \in 0 .. m + 1 |-> IF i = m + 1 THEN f[m] + cost[m + 1] ELSE f[i]]
    OBVIOUS
  <2>3. \A i \in 0 .. m + 1 : g[i] = IF i = m + 1 THEN f[m] + cost[m + 1] ELSE f[i]
    BY <2>2
  <2>4. \A i \in 0 .. m + 1 : g[i] = IF i = 0 THEN 0 ELSE g[i - 1] + cost[i]
    <3> TAKE i \in 0 .. m + 1
    <3>1. CASE i = 0
      BY <2>1, <2>3, <3>1, SumsStep
    <3>2. CASE i = m + 1
      <4>1. m \in 0 .. m + 1 /\ m # m + 1 /\ i - 1 = m /\ i # 0
        BY <3>2
      <4>2. g[m] = f[m] /\ g[i] = f[m] + cost[i]
        BY <2>3, <3>2, <4>1
      <4>3. QED
        BY <4>1, <4>2
    <3>3. CASE i # 0 /\ i # m + 1
      <4>1. i \in 1 .. m /\ i - 1 \in 0 .. m + 1 /\ i - 1 # m + 1
        BY <3>3
      <4>2. g[i] = f[i] /\ g[i - 1] = f[i - 1]
        BY <2>3, <3>3, <4>1
      <4>3. f[i] = f[i - 1] + cost[i]
        BY <2>1, <4>1, SumsStep
      <4>4. QED
        BY <3>3, <4>2, <4>3
    <3>4. QED
      BY <3>1, <3>2, <3>3
  <2>5. g = [i \in 0 .. m + 1 |-> g[i]]
    BY <2>2
  <2>6. [i \in 0 .. m + 1 |-> g[i]] = [i \in 0 .. m + 1 |-> IF i = 0 THEN 0 ELSE g[i - 1] + cost[i]]
    BY <2>4
  <2>7. Sums(cost, m + 1, g)
    BY <2>5, <2>6, Zenon DEF Sums
  <2>8. QED
    BY <1>1, <2>7
<1>4. n \in S
  BY <1>2, <1>3, AllNumbers
<1>5. QED
  BY <1>1, <1>4

LEMMA TotalIs ==
  ASSUME NEW cost
  PROVE  \E sum : Sums(cost, MaxMessages, sum) /\ Chat!Total(cost) = sum[MaxMessages]
<1>1. PICK f : f = CHOOSE sum : sum = [m \in 0 .. MaxMessages |-> IF m = 0 THEN 0 ELSE sum[m - 1] + cost[m]]
  OBVIOUS
<1>2. Chat!Total(cost) = f[MaxMessages]
  BY <1>1, Zenon DEF Chat!Total
<1>3. MaxMessages \in Nat
  BY ChatAssumption
<1>4. Sums(cost, MaxMessages, f)
  BY <1>1, <1>3, SumsExist, Zenon DEF Sums
<1>5. QED
  BY <1>2, <1>4

\* Two tables of costs that differ at one place, by x.
DifferAt(cost, new, m, x) ==
  /\ cost \in [Chat!Message -> Nat] /\ new \in [Chat!Message -> Nat]
  /\ m \in Chat!Message /\ x \in Nat
  /\ new[m] = cost[m] + x /\ \A i \in Chat!Message : i # m => new[i] = cost[i]

LEMMA TotalGrows ==
  ASSUME NEW cost, NEW new, NEW m, NEW x, DifferAt(cost, new, m, x)
  PROVE  Chat!Total(cost) \in Nat /\ Chat!Total(new) = Chat!Total(cost) + x
<1>1. PICK n \in Nat : n = MaxMessages /\ Chat!Message = 1 .. n
  BY ChatAssumption DEF Chat!Message
<1>2. PICK f : Sums(cost, n, f) /\ Chat!Total(cost) = f[n]
  BY <1>1, TotalIs
<1>3. PICK g : Sums(new, n, g) /\ Chat!Total(new) = g[n]
  BY <1>1, TotalIs
<1>4. m \in 1 .. n /\ x \in Nat /\ new[m] = cost[m] + x
  BY <1>1 DEF DifferAt
<1>5. \A i \in 1 .. n : cost[i] \in Nat /\ (i # m => new[i] = cost[i])
  BY <1>1 DEF DifferAt
<1>6. PICK S : S = {i \in Nat : i <= n => f[i] \in Nat /\ g[i] = IF i < m THEN f[i] ELSE f[i] + x}
  OBVIOUS
<1>7. 0 \in S
  <2>1. f[0] = 0 /\ g[0] = 0
    BY <1>2, <1>3, SumsStep
  <2>2. 0 < m
    BY <1>4
  <2>3. QED
    BY <1>6, <2>1, <2>2
<1>8. ASSUME NEW i \in Nat, i \in S PROVE i + 1 \in S
  <2>1. SUFFICES ASSUME i + 1 <= n
                 PROVE  f[i + 1] \in Nat /\ g[i + 1] = IF i + 1 < m THEN f[i + 1] ELSE f[i + 1] + x
    BY <1>6
  <2>2. i + 1 \in 1 .. n /\ (i + 1) - 1 = i /\ i <= n
    BY <2>1
  <2>3. f[i + 1] = f[i] + cost[i + 1] /\ g[i + 1] = g[i] + new[i + 1]
    BY <1>2, <1>3, <2>2, SumsStep
  <2>4. f[i] \in Nat /\ g[i] = IF i < m THEN f[i] ELSE f[i] + x
    BY <1>6, <1>8, <2>2
  <2>5. cost[i + 1] \in Nat
    BY <1>5, <2>2
  <2>6. CASE i + 1 = m
    BY <1>4, <2>3, <2>4, <2>5, <2>6
  <2>7. CASE i + 1 # m
    <3>1. new[i + 1] = cost[i + 1]
      BY <1>5, <2>2, <2>7
    <3>2. i < m <=> i + 1 < m
      BY <1>4, <2>7
    <3>3. QED
      BY <1>4, <2>3, <2>4, <2>5, <3>1, <3>2
  <2>8. QED
    BY <2>6, <2>7
<1>9. n \in S
  BY <1>7, <1>8, AllNumbers
<1>10. f[n] \in Nat /\ g[n] = f[n] + x
  BY <1>4, <1>6, <1>9
<1>11. QED
  BY <1>2, <1>3, <1>10

Free == [m \in Chat!Message |-> 0]

LEMMA TotalOfNothing == Chat!Total(Free) = 0
<1>1. PICK n \in Nat : n = MaxMessages /\ Chat!Message = 1 .. n
  BY ChatAssumption DEF Chat!Message
<1>2. PICK f : Sums(Free, n, f) /\ Chat!Total(Free) = f[n]
  BY <1>1, TotalIs
<1>3. \A i \in 1 .. n : Free[i] = 0
  BY <1>1 DEF Free
<1>4. PICK S : S = {i \in Nat : i <= n => f[i] = 0}
  OBVIOUS
<1>5. 0 \in S
  BY <1>2, <1>4, SumsStep
<1>6. ASSUME NEW i \in Nat, i \in S PROVE i + 1 \in S
  <2>1. SUFFICES ASSUME i + 1 <= n PROVE f[i + 1] = 0
    BY <1>4
  <2>2. i + 1 \in 1 .. n /\ (i + 1) - 1 = i /\ i <= n
    BY <2>1
  <2>3. f[i + 1] = f[i] + Free[i + 1] /\ f[i] = 0 /\ Free[i + 1] = 0
    BY <1>2, <1>3, <1>4, <1>6, <2>2, SumsStep
  <2>4. QED
    BY <2>3
<1>7. n \in S
  BY <1>5, <1>6, AllNumbers
<1>8. QED
  BY <1>2, <1>4, <1>7

AnswersHaveHomes == \A m \in Chat!Message :
  msg[m].role = "assistant" => msg[m].conv \in Conv /\ conv[msg[m].conv] # None

\* An answer belongs to a conversation that exists, deleted or not, and what
\* a conversation is charged is the cost of its answers.
ChargesInv ==
  /\ conv \in [Conv -> Chat!AiChatConversation \cup {None}]
  /\ AnswersHaveHomes /\ Chat!ChargedForWhatWasDelivered

\* What a message costs the conversation c.
Price(message, c) ==
  IF message.conv = c /\ message.role = "assistant" /\ message.status \in {"completed", "stopped"}
  THEN Chat!Usage(message.words) ELSE 0

LEMMA PriceType ==
  ASSUME NEW message \in ChatMessage, NEW c
  PROVE  Price(message, c) \in Nat
<1>1. message.words \in Nat
  BY ChatAssumption DEF ChatMessage
<1>2. QED
  BY <1>1 DEF Price, Chat!Usage

LEMMA CostIs ==
  ASSUME ChatInv, NEW c
  PROVE  /\ Chat!Cost(c) \in [Chat!Message -> Nat]
         /\ \A m \in Chat!Message : Chat!Cost(c)[m] = Price(msg[m], c)
<1>1. Chat!Cost(c) = [m \in Chat!Message |-> Price(msg[m], c)]
  BY DEF Chat!Cost, Price
<1>2. \A m \in Chat!Message : msg[m] \in ChatMessage
  BY DEF ChatInv, MessagesTyped
<1>3. \A m \in Chat!Message : Price(msg[m], c) \in Nat
  BY <1>2, PriceType
<1>4. QED
  BY <1>1, <1>3

LEMMA ChargesInit == Chat!Init => ChargesInv
<1> SUFFICES ASSUME Chat!Init PROVE ChargesInv
  OBVIOUS
<1>1. ChatInv
  BY ChatInit
<1>2. /\ \A m \in Chat!Message : msg[m] = IF m = 1 THEN Chat!User(Welcome)
                                          ELSE IF m = 2 THEN Chat!Assistant(Welcome, "completed", Words)
                                          ELSE Chat!NoMessage
      /\ 2 \in Chat!Message
  <2>1. 1 \in Chat!Message /\ 2 \in Chat!Message /\ Chat!Message \subseteq Nat
    BY ChatAssumption DEF Chat!Message
  <2>2. QED
    BY <2>1 DEF Chat!Init
<1>3. PICK seeded : seeded = [live |-> TRUE, titled |-> TRUE, messages |-> <<1, 2>>, charged |-> Chat!Usage(Words)]
  OBVIOUS
<1>4. seeded \in Chat!AiChatConversation /\ seeded.charged = Chat!Usage(Words) /\ seeded # None
  <2>1. PICK list : list = <<1, 2>>
    OBVIOUS
  <2>2. list \in Seq(Chat!Message)
    <3>1. 1 \in Chat!Message /\ 2 \in Chat!Message
      BY ChatAssumption DEF Chat!Message
    <3>2. QED
      BY <2>1, <3>1
  <2>3. PICK usage \in Nat : usage = Chat!Usage(Words)
    BY ChatAssumption DEF Chat!Usage
  <2>4. seeded = [live |-> TRUE, titled |-> TRUE, messages |-> list, charged |-> usage]
    BY <1>3, <2>1, <2>3, Zenon
  <2>5. seeded \in Chat!AiChatConversation /\ seeded.charged = usage
    BY <2>2, <2>4 DEF Chat!AiChatConversation
  <2>6. QED
    BY <2>3, <2>5, ChatAssumption
<1>5. conv = [c \in Conv |-> IF c = Welcome THEN seeded ELSE None]
  BY <1>3 DEF Chat!Init
<1>6. Welcome \in Conv
  BY ChatAssumption
<1>7. conv \in [Conv -> Chat!AiChatConversation \cup {None}] /\ conv[Welcome] = seeded
  BY <1>4, <1>5, <1>6
<1>8. AnswersHaveHomes
  BY <1>2, <1>4, <1>6, <1>7 DEF AnswersHaveHomes, Chat!User, Chat!Assistant, Chat!NoMessage
<1>9. ASSUME NEW c \in Conv, conv[c] # None
      PROVE  conv[c].charged = Chat!Total(Chat!Cost(c))
  <2>1. c = Welcome
    BY <1>5, <1>9
  <2>2. \A m \in Chat!Message : Price(msg[m], c) = IF m = 2 THEN Chat!Usage(Words) ELSE 0
    BY <1>2, <2>1 DEF Price, Chat!User, Chat!Assistant, Chat!NoMessage
  <2>3. PICK cost, usage : cost = Chat!Cost(c) /\ usage = Chat!Usage(Words)
    OBVIOUS
  <2>4. cost \in [Chat!Message -> Nat] /\ \A m \in Chat!Message : cost[m] = IF m = 2 THEN usage ELSE 0
    BY <1>1, <2>2, <2>3, CostIs
  <2>5. usage \in Nat
    BY <2>3, ChatAssumption DEF Chat!Usage
  <2>6. DifferAt(Free, cost, 2, usage)
    BY <1>2, <2>4, <2>5 DEF DifferAt, Free
  <2>7. Chat!Total(cost) = 0 + usage
    BY <2>6, TotalGrows, TotalOfNothing
  <2>8. QED
    BY <1>4, <1>7, <2>1, <2>3, <2>5, <2>7
<1>10. QED
  BY <1>7, <1>8, <1>9 DEF ChargesInv, Chat!ChargedForWhatWasDelivered

\* No answer is settled: conversations may be added, of which there are no
\* answers, and what the others were charged stays.
LEMMA NothingCharged ==
  ASSUME ChatInv, ChatInv', ChargesInv, conv' \in [Conv -> Chat!AiChatConversation \cup {None}],
         \A c \in Conv : /\ conv[c] # None => conv'[c] # None /\ conv'[c].charged = conv[c].charged
                         /\ conv[c] = None /\ conv'[c] # None => conv'[c].charged = 0,
         \A m \in Chat!Message : \A c \in Conv : Price(msg'[m], c) = Price(msg[m], c),
         AnswersHaveHomes'
  PROVE  ChargesInv'
<1>1. ASSUME NEW c \in Conv
      PROVE  Chat!Cost(c)' = Chat!Cost(c)
  <2>1. Chat!Cost(c) = [m \in Chat!Message |-> Price(msg[m], c)]
    BY DEF Chat!Cost, Price
  <2>2. Chat!Cost(c)' = [m \in Chat!Message |-> Price(msg'[m], c)]
    BY DEF Chat!Cost, Price
  <2>3. QED
    BY <2>1, <2>2
<1>2. ASSUME NEW c \in Conv, conv[c] = None
      PROVE  Chat!Cost(c) = Free
  <2>1. \A m \in Chat!Message : Price(msg[m], c) = 0
    BY <1>2 DEF ChargesInv, AnswersHaveHomes, Price
  <2>2. Chat!Cost(c) = [m \in Chat!Message |-> Price(msg[m], c)]
    BY DEF Chat!Cost, Price
  <2>3. QED
    BY <2>1, <2>2 DEF Free
<1>3. ASSUME NEW c \in Conv, conv'[c] # None
      PROVE  conv'[c].charged = Chat!Total(Chat!Cost(c)')
  <2>1. CASE conv[c] = None
    <3>1. Chat!Cost(c)' = Free
      BY <1>1, <1>2, <2>1
    <3>2. QED
      BY <1>3, <2>1, <3>1, TotalOfNothing
  <2>2. CASE conv[c] # None
    <3>1. conv[c].charged = Chat!Total(Chat!Cost(c))
      BY <2>2 DEF ChargesInv, Chat!ChargedForWhatWasDelivered
    <3>2. QED
      BY <1>1, <2>2, <3>1
  <2>3. QED
    BY <2>1, <2>2
<1>4. Chat!ChargedForWhatWasDelivered'
  BY <1>3 DEF Chat!ChargedForWhatWasDelivered
<1>5. QED
  BY <1>4 DEF ChargesInv

\* One conversation gets another list of messages.
LEMMA Relisted ==
  ASSUME ChargesInv, NEW c \in Conv, conv[c] # None, NEW list \in Seq(Chat!Message),
         conv' = [conv EXCEPT ![c].messages = list]
  PROVE  /\ conv' \in [Conv -> Chat!AiChatConversation \cup {None}]
         /\ \A e \in Conv : /\ conv[e] # None => conv'[e] # None /\ conv'[e].charged = conv[e].charged
                            /\ conv[e] = None => conv'[e] = None
<1>1. PICK old \in Chat!AiChatConversation : old = conv[c]
  BY DEF ChargesInv
<1>2. PICK new : new = [old EXCEPT !.messages = list]
  OBVIOUS
<1>3. new \in Chat!AiChatConversation /\ new.charged = old.charged
  BY <1>2 DEF Chat!AiChatConversation
<1>4. conv' = [conv EXCEPT ![c] = new]
  BY <1>1, <1>2
<1>5. new # None
  BY <1>3, ChatAssumption
<1>6. \A e \in Conv : conv'[e] = IF e = c THEN new ELSE conv[e]
  BY <1>4 DEF ChargesInv
<1>7. conv' \in [Conv -> Chat!AiChatConversation \cup {None}]
  BY <1>3, <1>4 DEF ChargesInv
<1>8. QED
  BY <1>1, <1>3, <1>5, <1>6, <1>7

\* A question is asked.
LEMMA AskCharges ==
  ASSUME ChatInv, ChatInv', ChargesInv, NEW c \in Conv, conv[c] # None, NEW to \in {"asked", "streaming"},
         NEW list \in Seq(Chat!Message), Chat!AnswerId <= MaxMessages,
         conv' = [conv EXCEPT ![c].messages = list],
         msg' = [msg EXCEPT ![Chat!AnswerId - 1] = Chat!User(c),
                            ![Chat!AnswerId] = Chat!Assistant(c, to, 0)]
  PROVE  ChargesInv'
<1>1. PICK n \in Nat : /\ Chat!AnswerId = n + 2 /\ n + 2 <= MaxMessages
                      /\ \A m \in Chat!Message : msg[m] # Chat!NoMessage <=> m <= n
  BY AnswerIds
<1>2. n + 1 \in Chat!Message /\ n + 2 \in Chat!Message /\ (n + 2) - 1 = n + 1 /\ n + 1 # n + 2
  BY <1>1, ChatAssumption DEF Chat!Message
<1>3. PICK a, b : a = n + 1 /\ b = n + 2
  OBVIOUS
<1>4. msg' = [[msg EXCEPT ![a] = Chat!User(c)] EXCEPT ![b] = Chat!Assistant(c, to, 0)]
  BY <1>1, <1>2, <1>3
<1>5. \A m \in Chat!Message : msg'[m] = IF m = b THEN Chat!Assistant(c, to, 0)
                                        ELSE IF m = a THEN Chat!User(c) ELSE msg[m]
  BY <1>2, <1>3, <1>4 DEF ChatInv, MessagesTyped
<1>6. msg[a] = Chat!NoMessage /\ msg[b] = Chat!NoMessage
  BY <1>1, <1>2, <1>3
<1>7. \A e \in Conv : /\ Price(Chat!NoMessage, e) = 0 /\ Price(Chat!User(c), e) = 0
                      /\ Price(Chat!Assistant(c, to, 0), e) = 0
  BY DEF Price, Chat!NoMessage, Chat!User, Chat!Assistant
<1>8. \A m \in Chat!Message : \A e \in Conv : Price(msg'[m], e) = Price(msg[m], e)
  BY <1>5, <1>6, <1>7
<1>9. /\ conv' \in [Conv -> Chat!AiChatConversation \cup {None}]
      /\ \A e \in Conv : /\ conv[e] # None => conv'[e] # None /\ conv'[e].charged = conv[e].charged
                         /\ conv[e] = None => conv'[e] = None
  BY Relisted
<1>10. AnswersHaveHomes'
  <2>1. \A m \in Chat!Message : msg'[m].role = "assistant" => msg'[m].conv = c \/ msg'[m] = msg[m]
    <3>1. Chat!User(c).role = "user" /\ Chat!Assistant(c, to, 0).conv = c
      BY DEF Chat!User, Chat!Assistant
    <3>2. QED
      BY <1>5, <3>1
  <2>2. conv'[c] # None
    BY <1>9
  <2>3. \A m \in Chat!Message : msg[m].role = "assistant" => msg[m].conv \in Conv /\ conv'[msg[m].conv] # None
    BY <1>9 DEF ChargesInv, AnswersHaveHomes
  <2>4. QED
    BY <2>1, <2>2, <2>3 DEF AnswersHaveHomes
<1>11. QED
  BY <1>8, <1>9, <1>10, NothingCharged

\* The list of a conversation that exists.
LEMMA ItsMessages ==
  ASSUME ChargesInv, NEW c \in Conv, conv[c] # None
  PROVE  conv[c].messages \in Seq(Chat!Message)
BY DEF ChargesInv, Chat!AiChatConversation

\* Identities of new messages.
LEMMA NewIds ==
  ASSUME ChatInv, Chat!AnswerId <= MaxMessages
  PROVE  Chat!AnswerId - 1 \in Chat!Message /\ Chat!AnswerId \in Chat!Message
<1>1. PICK n \in Nat : Chat!AnswerId = n + 2 /\ n + 2 <= MaxMessages
  BY AnswerIds
<1>2. QED
  BY <1>1, ChatAssumption DEF Chat!Message

LEMMA StreamedCharges ==
  ASSUME ChatInv, ChatInv', ChargesInv, NEW c \in Conv, conv[c] # None,
         NEW messages \in Seq(Chat!Message), Chat!Streamed(c, messages)
  PROVE  ChargesInv'
<1>1. PICK list : list = messages \o <<Chat!AnswerId - 1, Chat!AnswerId>>
  OBVIOUS
<1>2. PICK a \in Chat!Message, b \in Chat!Message : a = Chat!AnswerId - 1 /\ b = Chat!AnswerId
  BY NewIds DEF Chat!Streamed
<1>3. list \in Seq(Chat!Message)
  <2>1. list = messages \o <<a, b>>
    BY <1>1, <1>2, Zenon
  <2>2. QED
    BY <2>1
<1>4. QED
  BY <1>1, <1>3, AskCharges DEF Chat!Streamed

LEMMA SendCharges ==
  ASSUME ChatInv, ChatInv', ChargesInv, NEW c \in Conv, Chat!SendMessage(c)
  PROVE  ChargesInv'
<1>1. conv[c] # None
  BY DEF Chat!SendMessage, Chat!Live
<1>2. PICK a \in Chat!Message : a = Chat!AnswerId - 1
  BY NewIds DEF Chat!SendMessage
<1>3. PICK list : list = Append(conv[c].messages, a)
  OBVIOUS
<1>4. list \in Seq(Chat!Message)
  BY <1>1, <1>3, ItsMessages
<1>5. conv' = [conv EXCEPT ![c].messages = list]
  BY <1>2, <1>3 DEF Chat!SendMessage
<1>6. QED
  BY <1>1, <1>4, <1>5, AskCharges DEF Chat!SendMessage

\* An answer is retried.
LEMMA RetryCharges ==
  ASSUME ChatInv, ChatInv', ChargesInv, NEW c \in Conv, NEW m \in Chat!Message, Chat!RetryMessage(c, m)
  PROVE  ChargesInv'
<1>1. conv[c] # None
  BY DEF Chat!RetryMessage, Chat!Live
<1>2. PICK messages \in Seq(Chat!Message) : messages = conv[c].messages
  BY <1>1, ItsMessages
<1>3. PICK i : i = CHOOSE j \in DOMAIN messages : messages[j] = m
  OBVIOUS
<1>4. i \in 1 .. Len(messages)
  <2>1. \E j \in DOMAIN messages : messages[j] = m
    <3>1. Chat!Contains(messages, m)
      BY <1>2 DEF Chat!RetryMessage
    <3>2. QED
      BY <1>2, <3>1 DEF Chat!Contains
  <2>2. i \in DOMAIN messages
    BY <1>3, <2>1
  <2>3. QED
    BY <2>2
<1>5. PICK others : others = Chat!RemoveAt(messages, i)
  OBVIOUS
<1>6. others \in Seq(Chat!Message)
  <2>1. Len(messages) \in Nat /\ \A j \in 1 .. Len(messages) : messages[j] \in Chat!Message
    OBVIOUS
  <2>2. \A j \in 1 .. i - 1 : messages[j] \in Chat!Message
    BY <1>4, <2>1
  <2>3. \A j \in i + 1 .. Len(messages) : messages[j] \in Chat!Message
    BY <1>4, <2>1
  <2>4. 1 \in Int /\ i - 1 \in Int /\ i + 1 \in Int /\ Len(messages) \in Int
    BY <1>4, <2>1
  <2>5. SubSeq(messages, 1, i - 1) \in Seq(Chat!Message) /\ SubSeq(messages, i + 1, Len(messages)) \in Seq(Chat!Message)
    BY <2>2, <2>3, <2>4, SubSeqProperties
  <2>6. QED
    BY <1>5, <2>5 DEF Chat!RemoveAt
<1>7. \/ Chat!Streamed(c, messages)
      \/ Chat!Streamed(c, others)
      \/ conv' = [conv EXCEPT ![c].messages = others] /\ UNCHANGED <<msg, controllers, aborted, stopped>>
  BY <1>2, <1>3, <1>5 DEF Chat!RetryMessage
<1>8. CASE conv' = [conv EXCEPT ![c].messages = others] /\ UNCHANGED msg
  <2>1. /\ conv' \in [Conv -> Chat!AiChatConversation \cup {None}]
        /\ \A e \in Conv : /\ conv[e] # None => conv'[e] # None /\ conv'[e].charged = conv[e].charged
                           /\ conv[e] = None => conv'[e] = None
    BY <1>1, <1>6, <1>8, Relisted
  <2>2. AnswersHaveHomes'
    BY <1>8, <2>1 DEF ChargesInv, AnswersHaveHomes
  <2>3. QED
    BY <1>8, <2>1, <2>2, NothingCharged
<1>9. QED
  BY <1>1, <1>6, <1>7, <1>8, StreamedCharges

\* The calls that touch the conversation alone.
LEMMA ConversationCharges ==
  ASSUME ChatInv, ChatInv', ChargesInv, NEW c \in Conv,
         \/ \E titled \in BOOLEAN : Chat!CreateConversation(c, titled)
         \/ Chat!DeleteConversation(c) \/ Chat!UpdateConversationTitle(c)
  PROVE  ChargesInv'
<1>1. PICK new \in Chat!AiChatConversation :
        /\ conv' = [conv EXCEPT ![c] = new] /\ UNCHANGED msg
        /\ conv[c] # None => new.charged = conv[c].charged
        /\ conv[c] = None => new.charged = 0
  <2>1. ASSUME NEW titled \in BOOLEAN, Chat!CreateConversation(c, titled)
        PROVE  \E new \in Chat!AiChatConversation :
                 conv' = [conv EXCEPT ![c] = new] /\ UNCHANGED msg /\ conv[c] = None /\ new.charged = 0
    <3>1. PICK new : new = [live |-> TRUE, titled |-> titled, messages |-> <<>>, charged |-> 0]
      OBVIOUS
    <3>2. new \in Chat!AiChatConversation /\ new.charged = 0
      <4>1. <<>> \in Seq(Chat!Message)
        OBVIOUS
      <4>2. QED
        BY <3>1, <4>1 DEF Chat!AiChatConversation
    <3>3. conv' = [conv EXCEPT ![c] = new] /\ UNCHANGED msg /\ conv[c] = None
      BY <2>1, <3>1 DEF Chat!CreateConversation
    <3>4. QED
      BY <3>2, <3>3
  <2>2. ASSUME Chat!DeleteConversation(c) \/ Chat!UpdateConversationTitle(c)
        PROVE  \E new \in Chat!AiChatConversation :
                 /\ conv' = [conv EXCEPT ![c] = new] /\ UNCHANGED msg /\ conv[c] # None
                 /\ new.charged = conv[c].charged
    <3>1. conv[c] # None
      BY <2>2 DEF Chat!DeleteConversation, Chat!UpdateConversationTitle, Chat!Live
    <3>2. PICK old \in Chat!AiChatConversation : old = conv[c]
      BY <3>1 DEF ChargesInv
    <3>3. PICK a, b : a = [old EXCEPT !.live = FALSE] /\ b = [old EXCEPT !.titled = TRUE]
      OBVIOUS
    <3>4. /\ a \in Chat!AiChatConversation /\ a.charged = old.charged
          /\ b \in Chat!AiChatConversation /\ b.charged = old.charged
      BY <3>3 DEF Chat!AiChatConversation
    <3>5. (conv' = [conv EXCEPT ![c] = a] \/ conv' = [conv EXCEPT ![c] = b]) /\ UNCHANGED msg
      BY <2>2, <3>2, <3>3 DEF Chat!DeleteConversation, Chat!UpdateConversationTitle
    <3>6. QED
      BY <3>1, <3>2, <3>4, <3>5
  <2>3. QED
    BY <2>1, <2>2
<1>2. new # None
  BY ChatAssumption
<1>3. conv' \in [Conv -> Chat!AiChatConversation \cup {None}] /\ \A e \in Conv : conv'[e] = IF e = c THEN new ELSE conv[e]
  BY <1>1 DEF ChargesInv
<1>4. AnswersHaveHomes'
  BY <1>1, <1>2, <1>3 DEF ChargesInv, AnswersHaveHomes
<1>5. QED
  BY <1>1, <1>2, <1>3, <1>4, NothingCharged

\* An answer that has cost nothing yet is settled: asked or streaming, then
\* over.
Settles(m, old, new) ==
  /\ old = msg[m] /\ new \in ChatMessage /\ msg' = [msg EXCEPT ![m] = new]
  /\ old.role = "assistant" /\ old.status \in {"asked", "streaming"}
  /\ new.role = "assistant" /\ new.conv = old.conv /\ new.status \in {"completed", "stopped"}

LEMMA SettledCharges ==
  ASSUME ChatInv, ChatInv', ChargesInv, NEW m \in Chat!Message, NEW old, NEW new, Settles(m, old, new),
         NEW row \in Chat!AiChatConversation, conv' = [conv EXCEPT ![old.conv] = row],
         row.charged = conv[old.conv].charged + Chat!Usage(new.words)
  PROVE  ChargesInv'
<1>1. PICK home \in Conv : home = old.conv /\ conv[home] # None
  BY DEF ChargesInv, AnswersHaveHomes, Settles
<1>2. row # None
  BY ChatAssumption
<1>3. conv' \in [Conv -> Chat!AiChatConversation \cup {None}] /\ \A e \in Conv : conv'[e] = IF e = home THEN row ELSE conv[e]
  BY <1>1 DEF ChargesInv
<1>4. \A k \in Chat!Message : msg'[k] = IF k = m THEN new ELSE msg[k]
  BY DEF Settles, ChatInv, MessagesTyped
<1>5. AnswersHaveHomes'
  <2>1. ASSUME NEW k \in Chat!Message, msg'[k].role = "assistant"
        PROVE  msg'[k].conv \in Conv /\ conv'[msg'[k].conv] # None
    <3>1. CASE k = m
      BY <1>1, <1>2, <1>3, <1>4, <3>1 DEF Settles
    <3>2. CASE k # m
      <4>1. msg'[k] = msg[k] /\ msg[k].conv \in Conv /\ conv[msg[k].conv] # None
        BY <1>4, <2>1, <3>2 DEF ChargesInv, AnswersHaveHomes
      <4>2. QED
        BY <1>2, <1>3, <4>1
    <3>3. QED
      BY <3>1, <3>2
  <2>2. QED
    BY <2>1 DEF AnswersHaveHomes
<1>6. PICK usage \in Nat : usage = Chat!Usage(new.words)
  <2>1. new.words \in Nat
    BY ChatAssumption DEF Settles, ChatMessage
  <2>2. QED
    BY <2>1 DEF Chat!Usage
<1>7. ASSUME NEW e \in Conv
      PROVE  DifferAt(Chat!Cost(e), Chat!Cost(e)', m, IF e = home THEN usage ELSE 0)
  <2>1. /\ Chat!Cost(e) \in [Chat!Message -> Nat]
        /\ \A k \in Chat!Message : Chat!Cost(e)[k] = Price(msg[k], e)
    BY CostIs
  <2>2. PICK before, after : before = Chat!Cost(e) /\ after = Chat!Cost(e)'
    OBVIOUS
  <2>3. after = [k \in Chat!Message |-> Price(msg'[k], e)]
    BY <2>2 DEF Chat!Cost, Price
  <2>4. \A k \in Chat!Message : msg'[k] \in ChatMessage
    BY DEF ChatInv, MessagesTyped
  <2>5. after \in [Chat!Message -> Nat] /\ \A k \in Chat!Message : after[k] = Price(msg'[k], e)
    BY <2>3, <2>4, PriceType
  <2>6. Price(old, e) = 0 /\ Price(new, e) = IF e = home THEN usage ELSE 0
    BY <1>1, <1>6 DEF Settles, Price
  <2>7. before[m] = 0 /\ after[m] = (IF e = home THEN usage ELSE 0)
    BY <1>4, <2>1, <2>2, <2>5, <2>6 DEF Settles
  <2>8. \A k \in Chat!Message : k # m => after[k] = before[k]
    BY <1>4, <2>1, <2>2, <2>5
  <2>9. DifferAt(before, after, m, IF e = home THEN usage ELSE 0)
    BY <1>6, <2>1, <2>2, <2>5, <2>7, <2>8 DEF DifferAt
  <2>10. QED
    BY <2>2, <2>9
<1>8. ASSUME NEW e \in Conv, conv'[e] # None
      PROVE  conv'[e].charged = Chat!Total(Chat!Cost(e)')
  <2>1. conv[e] # None
    BY <1>1, <1>3, <1>8
  <2>2. PICK x \in Nat : x = IF e = home THEN usage ELSE 0
    BY <1>6
  <2>3. DifferAt(Chat!Cost(e), Chat!Cost(e)', m, x)
    BY <1>7, <2>2
  <2>4. Chat!Total(Chat!Cost(e)) \in Nat /\ Chat!Total(Chat!Cost(e)') = Chat!Total(Chat!Cost(e)) + x
    BY <2>3, TotalGrows
  <2>5. conv[e].charged = Chat!Total(Chat!Cost(e))
    BY <2>1 DEF ChargesInv, Chat!ChargedForWhatWasDelivered
  <2>6. conv'[e].charged = conv[e].charged + x
    BY <1>1, <1>3, <1>6, <2>2, <2>4, <2>5
  <2>7. QED
    BY <2>4, <2>5, <2>6
<1>9. Chat!ChargedForWhatWasDelivered'
  BY <1>8 DEF Chat!ChargedForWhatWasDelivered
<1>10. QED
  BY <1>3, <1>5, <1>9 DEF ChargesInv

\* What Charge makes of a conversation.
LEMMA ChargedRow ==
  ASSUME NEW row \in Chat!AiChatConversation, NEW n \in Nat
  PROVE  /\ Chat!Charge(row, n) \in Chat!AiChatConversation
         /\ Chat!Charge(row, n).charged = row.charged + Chat!Usage(n)
<1>1. PICK charged \in Nat : charged = row.charged + Chat!Usage(n)
  BY DEF Chat!AiChatConversation, Chat!Usage
<1>2. Chat!Charge(row, n) = [row EXCEPT !.charged = charged, !.titled = TRUE]
  BY <1>1, Zenon DEF Chat!Charge
<1>3. QED
  BY <1>1, <1>2 DEF Chat!AiChatConversation

LEMMA AnswerCharges ==
  ASSUME ChatInv, ChatInv', ChargesInv, NEW m \in Chat!Message, Chat!AnswerMessage(m)
  PROVE  ChargesInv'
<1>1. PICK old \in ChatMessage : old = msg[m]
  BY DEF ChatInv, MessagesTyped
<1>2. PICK new : old = msg[m] /\ new = [old EXCEPT !.status = "completed", !.words = Words]
  BY <1>1
<1>3. old.status = "asked" /\ old.role = "assistant"
  BY <1>2 DEF ChatInv, MessagesTyped, Chat!AnswerMessage
<1>4. msg' = [msg EXCEPT ![m] = new]
  BY <1>2 DEF Chat!AnswerMessage, ChatInv, MessagesTyped
<1>5. new \in ChatMessage /\ new.role = "assistant" /\ new.conv = old.conv /\ new.status = "completed" /\ new.words = Words
  <2>1. Words \in 0 .. Words
    BY ChatAssumption
  <2>2. QED
    BY <1>2, <1>3, <2>1 DEF ChatMessage
<1>6. Settles(m, old, new)
  BY <1>2, <1>3, <1>4, <1>5 DEF Settles
<1>7. PICK home \in Conv : home = old.conv /\ conv[home] \in Chat!AiChatConversation
  BY <1>2, <1>3 DEF ChargesInv, AnswersHaveHomes
<1>8. PICK row : row = [conv[home] EXCEPT !.messages = Append(conv[home].messages, m)]
  OBVIOUS
<1>9. row \in Chat!AiChatConversation /\ row.charged = conv[home].charged
  <2>1. PICK list : list = Append(conv[home].messages, m)
    OBVIOUS
  <2>2. list \in Seq(Chat!Message)
    BY <1>7, <2>1 DEF Chat!AiChatConversation
  <2>3. row = [conv[home] EXCEPT !.messages = list]
    BY <1>8, <2>1, Zenon
  <2>4. QED
    BY <1>7, <2>2, <2>3 DEF Chat!AiChatConversation
<1>10. conv' = [conv EXCEPT ![old.conv] = Chat!Charge(row, Words)]
  BY <1>2, <1>7, <1>8 DEF Chat!AnswerMessage
<1>11. PICK charged \in Chat!AiChatConversation :
         charged = Chat!Charge(row, Words) /\ charged.charged = row.charged + Chat!Usage(Words)
  BY <1>9, ChargedRow, ChatAssumption
<1>12. QED
  BY <1>5, <1>6, <1>7, <1>9, <1>10, <1>11, SettledCharges

LEMMA FinalizeCharges ==
  ASSUME ChatInv, ChatInv', ChargesInv, NEW m \in Chat!Message, Chat!FinalizeMessage(m)
  PROVE  ChargesInv'
<1>1. PICK old \in ChatMessage : old = msg[m]
  BY DEF ChatInv, MessagesTyped
<1>2. PICK final \in {"stopped", "completed"} : old = msg[m] /\ final = Chat!FinalStatus(m)
  BY <1>1 DEF Chat!FinalStatus
<1>3. PICK new : new = [old EXCEPT !.status = final]
  OBVIOUS
<1>4. old.status = "streaming" /\ old.role = "assistant"
  BY <1>2 DEF ChatInv, MessagesTyped, Chat!FinalizeMessage, Chat!Streaming
<1>5. msg' = [msg EXCEPT ![m] = new]
  BY <1>2, <1>3 DEF Chat!FinalizeMessage, ChatInv, MessagesTyped
<1>6. new \in ChatMessage /\ new.role = "assistant" /\ new.conv = old.conv /\ new.status = final /\ new.words = old.words
  BY <1>2, <1>3, <1>4 DEF ChatMessage
<1>7. Settles(m, old, new)
  BY <1>2, <1>4, <1>5, <1>6 DEF Settles
<1>8. PICK row \in Chat!AiChatConversation : row = conv[old.conv]
  BY <1>2, <1>4 DEF ChargesInv, AnswersHaveHomes
<1>9. PICK words \in Nat : words = old.words
  BY <1>2, ChatAssumption DEF ChatMessage
<1>10. conv' = [conv EXCEPT ![old.conv] = Chat!Charge(row, words)]
  BY <1>2, <1>8, <1>9 DEF Chat!FinalizeMessage, Chat!Charged
<1>11. PICK charged \in Chat!AiChatConversation :
         charged = Chat!Charge(row, words) /\ charged.charged = row.charged + Chat!Usage(words)
  BY ChargedRow
<1>12. /\ conv' = [conv EXCEPT ![old.conv] = charged]
       /\ charged.charged = conv[old.conv].charged + Chat!Usage(new.words)
  <2>1. new.words = words
    BY <1>6, <1>9
  <2>2. QED
    BY <1>8, <1>10, <1>11, <2>1
<1>13. QED
  BY <1>7, <1>12, SettledCharges

\* A word more, or a stop: no answer is settled by it.
LEMMA WordCharges ==
  ASSUME ChatInv, ChatInv', ChargesInv, UNCHANGED conv,
         NEW m \in Chat!Message, UNCHANGED msg \/ Chat!StreamWord(m)
  PROVE  ChargesInv'
<1>1. \A k \in Chat!Message : \/ msg'[k] = msg[k]
                              \/ /\ msg[k].status = "streaming" /\ msg'[k].status = "streaming"
                                 /\ msg'[k].role = msg[k].role /\ msg'[k].conv = msg[k].conv
  <2>1. CASE UNCHANGED msg
    BY <2>1
  <2>2. CASE Chat!StreamWord(m)
    <3>1. PICK old \in ChatMessage : old = msg[m]
      BY DEF ChatInv, MessagesTyped
    <3>2. PICK new : old = msg[m] /\ new = [old EXCEPT !.words = @ + 1]
      BY <3>1
    <3>3. old.status = "streaming" /\ msg' = [msg EXCEPT ![m] = new]
      BY <2>2, <3>2 DEF Chat!StreamWord, Chat!Streaming, ChatInv, MessagesTyped
    <3>4. new.status = old.status /\ new.role = old.role /\ new.conv = old.conv
      BY <3>2 DEF ChatMessage
    <3>5. \A k \in Chat!Message : msg'[k] = IF k = m THEN new ELSE msg[k]
      BY <3>3 DEF ChatInv, MessagesTyped
    <3>6. QED
      BY <3>2, <3>3, <3>4, <3>5
  <2>3. QED
    BY <2>1, <2>2
<1>2. \A k \in Chat!Message : \A c \in Conv : Price(msg'[k], c) = Price(msg[k], c)
  BY <1>1 DEF Price
<1>3. AnswersHaveHomes'
  BY <1>1 DEF ChargesInv, AnswersHaveHomes
<1>4. conv' \in [Conv -> Chat!AiChatConversation \cup {None}]
  BY DEF ChargesInv
<1>5. QED
  BY <1>2, <1>3, <1>4, NothingCharged

LEMMA ChargesStep == ChatInv /\ ChatInv' /\ ChargesInv /\ [Next]_vars => ChargesInv'
<1> SUFFICES ASSUME ChatInv, ChatInv', ChargesInv, [Next]_vars PROVE ChargesInv'
  OBVIOUS
<1>1. Chat!Next \/ UNCHANGED chatVars
  BY DEF Next, vars
<1>2. 1 \in Chat!Message
  BY ChatAssumption DEF Chat!Message
<1>3. CASE UNCHANGED chatVars
  BY <1>2, <1>3, WordCharges DEF chatVars
<1>4. CASE Chat!Next
  <2>1. ASSUME NEW c \in Conv,
               \/ \E titled \in BOOLEAN : Chat!CreateConversation(c, titled)
               \/ Chat!DeleteConversation(c) \/ Chat!UpdateConversationTitle(c)
        PROVE  ChargesInv'
    BY <2>1, ConversationCharges
  <2>2. ASSUME NEW c \in Conv, Chat!SendMessage(c) \/ \E m \in Chat!Message : Chat!RetryMessage(c, m)
        PROVE  ChargesInv'
    BY <2>2, SendCharges, RetryCharges
  <2>3. ASSUME NEW c \in Conv, Chat!StreamMessage(c) PROVE ChargesInv'
    <3>1. conv[c] # None /\ Chat!Streamed(c, conv[c].messages)
      BY <2>3 DEF Chat!StreamMessage, Chat!Live
    <3>2. QED
      BY <3>1, ItsMessages, StreamedCharges
  <2>4. ASSUME NEW m \in Chat!Message, Chat!AnswerMessage(m) \/ Chat!StreamStep(m) PROVE ChargesInv'
    <3>1. CASE Chat!StreamWord(m)
      BY <3>1, WordCharges DEF Chat!StreamWord
    <3>2. QED
      BY <2>4, <3>1, AnswerCharges, FinalizeCharges DEF Chat!StreamStep
  <2>5. ASSUME NEW m \in Chat!Message, Chat!StopGeneration(m) \/ Chat!ClientCloses(m) PROVE ChargesInv'
    <3>1. UNCHANGED <<conv, msg>>
      BY <2>5 DEF Chat!StopGeneration, Chat!ClientCloses, Chat!Abort
    <3>2. QED
      BY <3>1, WordCharges
  <2>6. QED
    BY <1>4, <2>1, <2>2, <2>3, <2>4, <2>5 DEF Chat!Next
<1>5. QED
  BY <1>1, <1>3, <1>4

\* A conversation is charged for every answer once, when it is over, and for
\* the words it was given: whatever is stopped, retried or deleted meanwhile.
THEOREM ChargesAreDue == Spec => []ChargedForWhatWasDelivered
<1>1. Init => ChatInv /\ ChargesInv
  BY ChatInit, ChargesInit DEF Init
<1>2. ChargesInv => ChargedForWhatWasDelivered
  BY DEF ChargesInv, ChargedForWhatWasDelivered
<1>3. QED
  BY <1>1, <1>2, ChatStep, ChargesStep, PTL DEF Spec

-----------------------------------------------------------------------------
(***************************************************************************)
(* Reviews                                                                 *)
(***************************************************************************)
ReviewsTyped ==
  /\ report \in [Review -> Rev!CodeReviewReport \cup {None}]
  /\ publishing \in [Publisher -> Rev!Publication \cup {None}]
  /\ posts \in Seq(Rev!Publication)

\* What is under way or was sent as the approval of a report, nobody having
\* asked for one.
OwnApproval(post) == post.event = "APPROVE" /\ ~post.asked
IsApproved(r) == report[r] # None /\ report[r].decision = "APPROVED"

ApprovalsMeant ==
  /\ \A p \in Publisher : publishing[p] # None =>
       report[publishing[p].review] # None /\ (OwnApproval(publishing[p]) => IsApproved(publishing[p].review))
  /\ \A i \in DOMAIN posts : OwnApproval(posts[i]) => IsApproved(posts[i].review)

VerdictFits(row) ==
  /\ row.decision = "APPROVED" => ~Rev!Blocked(row.open) /\ Rev!Severe(row.open, "MEDIUM") <= 1
  /\ row.open = Rev!Clean => row.decision = "APPROVED"
VerdictsFit == \A r \in Review : report[r] # None => VerdictFits(report[r])

ReviewsInv == ReviewsTyped /\ ApprovalsMeant /\ VerdictsFit

\* The eight entries of a table of findings.
LEMMA FindingEntries ==
  ASSUME NEW findings \in [Rev!Finding -> Nat]
  PROVE  \A severity \in {"CRITICAL", "HIGH", "MEDIUM", "LOW"} :
           findings[<<severity, "Security">>] \in Nat /\ findings[<<severity, "Other">>] \in Nat
BY DEF Rev!Finding

LEMMA SevereType ==
  ASSUME NEW findings \in [Rev!Finding -> Nat]
  PROVE  \A severity \in {"CRITICAL", "HIGH", "MEDIUM", "LOW"} : Rev!Severe(findings, severity) \in Nat
BY FindingEntries DEF Rev!Severe

\* A score, and a score of 90, below which one HIGH or two MEDIUM findings
\* bring it.
LEMMA Scores ==
  ASSUME NEW findings \in [Rev!Finding -> Nat]
  PROVE  /\ Rev!FixScore(findings) \in 0 .. 100 /\ Rev!OverallScore(findings) \in 0 .. 100
         /\ Rev!FixScore(findings) >= 90 => Rev!Severe(findings, "MEDIUM") <= 1
<1>1. PICK c, h, m, l : /\ c = Rev!Severe(findings, "CRITICAL") /\ h = Rev!Severe(findings, "HIGH")
                        /\ m = Rev!Severe(findings, "MEDIUM") /\ l = Rev!Severe(findings, "LOW")
  OBVIOUS
<1>2. c \in Nat /\ h \in Nat /\ m \in Nat /\ l \in Nat
  BY <1>1, SevereType
<1>3. /\ Rev!FixScore(findings) = Rev!Clamp(100 - 22 * c - 12 * h - 6 * m)
      /\ Rev!OverallScore(findings) = Rev!Clamp(100 - 22 * c - 12 * h - 6 * m - 2 * l)
  BY <1>1 DEF Rev!FixScore, Rev!OverallScore
<1>4. \A n \in Int : Rev!Clamp(n) \in 0 .. 100 /\ (Rev!Clamp(n) >= 90 => n >= 90)
  BY DEF Rev!Clamp
<1>5. 100 - 22 * c - 12 * h - 6 * m \in Int /\ 100 - 22 * c - 12 * h - 6 * m - 2 * l \in Int
  BY <1>2
<1>6. 100 - 22 * c - 12 * h - 6 * m >= 90 => m <= 1
  BY <1>2
<1>7. QED
  BY <1>1, <1>3, <1>4, <1>5, <1>6

\* Nothing found, or nothing left.
LEMMA CleanScores ==
  /\ Rev!Clean \in [Rev!Finding -> Nat] /\ ~Rev!Blocked(Rev!Clean)
  /\ Rev!Severe(Rev!Clean, "MEDIUM") = 0
  /\ Rev!FixScore(Rev!Clean) = 100 /\ Rev!OverallScore(Rev!Clean) = 100
<1>1. Rev!Clean \in [Rev!Finding -> Nat]
  BY DEF Rev!Clean
<1>2. \A severity \in {"CRITICAL", "HIGH", "MEDIUM", "LOW"} :
        Rev!Clean[<<severity, "Security">>] = 0 /\ Rev!Clean[<<severity, "Other">>] = 0
  BY DEF Rev!Clean, Rev!Finding
<1>3. /\ Rev!Severe(Rev!Clean, "CRITICAL") = 0 /\ Rev!Severe(Rev!Clean, "HIGH") = 0
      /\ Rev!Severe(Rev!Clean, "MEDIUM") = 0 /\ Rev!Severe(Rev!Clean, "LOW") = 0
      /\ Rev!Security(Rev!Clean) = 0
  BY <1>2 DEF Rev!Severe, Rev!Security
<1>4. QED
  BY <1>1, <1>3 DEF Rev!Blocked, Rev!FixScore, Rev!OverallScore, Rev!Clamp

LEMMA ReviewsNone == None \notin Rev!CodeReviewReport /\ None \notin Rev!Publication /\ None \notin {"APPROVE", "COMMENT"}
BY ReviewsAssumption

LEMMA TriggeredFits ==
  ASSUME NEW findings \in [Rev!Finding -> Nat]
  PROVE  LET row == Rev!Report(findings, Rev!OverallScore(findings), Rev!Decision(findings))
         IN row \in Rev!CodeReviewReport /\ VerdictFits(row)
<1>1. Rev!OverallScore(findings) \in 0 .. 100
  BY Scores
<1>2. Rev!Severe(findings, "MEDIUM") \in Nat
  BY SevereType
<1>3. /\ Rev!Decision(findings) \in {"APPROVED", "COMMENTED", "CHANGES_REQUESTED"}
      /\ Rev!Decision(findings) = "APPROVED" => ~Rev!Blocked(findings) /\ Rev!Severe(findings, "MEDIUM") <= 1
  BY <1>2 DEF Rev!Decision
<1>4. Rev!Decision(Rev!Clean) = "APPROVED"
  BY CleanScores DEF Rev!Decision
<1>5. QED
  BY <1>1, <1>3, <1>4 DEF Rev!Report, Rev!CodeReviewReport, VerdictFits

LEMMA RescoredFits ==
  ASSUME NEW old \in Rev!CodeReviewReport, VerdictFits(old), NEW open \in [Rev!Finding -> Nat],
         \A f \in Rev!Finding : open[f] <= old.open[f]
  PROVE  LET row == Rev!Rescored(old, open)
         IN /\ row \in Rev!CodeReviewReport /\ VerdictFits(row)
            /\ old.decision = "APPROVED" => row.decision = "APPROVED"
<1>1. /\ Rev!FixScore(open) \in 0 .. 100
      /\ Rev!FixScore(open) >= 90 => Rev!Severe(open, "MEDIUM") <= 1
  BY Scores
<1>2. old.open \in [Rev!Finding -> Nat]
  BY DEF Rev!CodeReviewReport
<1>3. \A severity \in {"CRITICAL", "HIGH", "MEDIUM", "LOW"} :
        /\ open[<<severity, "Security">>] <= old.open[<<severity, "Security">>]
        /\ open[<<severity, "Other">>] <= old.open[<<severity, "Other">>]
  BY DEF Rev!Finding
<1>4. PICK past : past = old.open
  OBVIOUS
<1>5. ~Rev!Blocked(past) => ~Rev!Blocked(open)
  BY <1>2, <1>3, <1>4, FindingEntries DEF Rev!Blocked, Rev!Severe, Rev!Security
<1>6. Rev!Severe(past, "MEDIUM") <= 1 => Rev!Severe(open, "MEDIUM") <= 1
  BY <1>2, <1>3, <1>4, FindingEntries DEF Rev!Severe
<1>7. PICK score \in 0 .. 100, decision \in {"APPROVED", "COMMENTED", "CHANGES_REQUESTED"} :
        /\ score = Rev!FixScore(open)
        /\ decision = IF ~Rev!Blocked(open) /\ score >= 90 THEN "APPROVED" ELSE old.decision
  BY <1>1 DEF Rev!CodeReviewReport
<1>8. PICK row : row = [old EXCEPT !.open = open, !.score = score, !.decision = decision]
  OBVIOUS
<1>9. row = Rev!Rescored(old, open)
  BY <1>7, <1>8 DEF Rev!Rescored, Rev!CodeReviewReport
<1>10. row \in Rev!CodeReviewReport /\ row.open = open /\ row.decision = decision
  BY <1>7, <1>8 DEF Rev!CodeReviewReport
<1>11. ASSUME open = Rev!Clean PROVE decision = "APPROVED"
  <2>1. ~Rev!Blocked(open) /\ Rev!FixScore(open) = 100
    BY <1>11, CleanScores, Zenon
  <2>2. QED
    BY <1>7, <2>1
<1>12. ASSUME decision = "APPROVED" PROVE ~Rev!Blocked(open) /\ Rev!Severe(open, "MEDIUM") <= 1
  <2>1. CASE ~Rev!Blocked(open) /\ score >= 90
    BY <1>1, <1>7, <2>1
  <2>2. CASE old.decision = "APPROVED"
    <3>1. ~Rev!Blocked(old.open) /\ Rev!Severe(old.open, "MEDIUM") <= 1
      BY <2>2, VerdictFits(old) DEF VerdictFits
    <3>2. ~Rev!Blocked(past) /\ Rev!Severe(past, "MEDIUM") <= 1
      BY <1>4, <3>1, Zenon
    <3>3. QED
      BY <1>5, <1>6, <3>2
  <2>3. QED
    BY <1>7, <1>12, <2>1, <2>2
<1>13. VerdictFits(row)
  <2>1. row.decision = "APPROVED" => ~Rev!Blocked(row.open) /\ Rev!Severe(row.open, "MEDIUM") <= 1
    BY <1>10, <1>12, Zenon
  <2>2. row.open = Rev!Clean => row.decision = "APPROVED"
    BY <1>10, <1>11
  <2>3. QED
    BY <2>1, <2>2 DEF VerdictFits
<1>14. old.decision = "APPROVED" => row.decision = "APPROVED"
  BY <1>7, <1>10
<1>15. QED
  BY <1>9, <1>10, <1>13, <1>14

LEMMA ReviewsInit == Rev!Init => ReviewsInv
<1> SUFFICES ASSUME Rev!Init PROVE ReviewsInv
  OBVIOUS
<1>1. PICK row : row = Rev!Report(Rev!Clean, 91, "APPROVED")
  OBVIOUS
<1>2. row \in Rev!CodeReviewReport /\ row.open = Rev!Clean /\ row.decision = "APPROVED"
  BY <1>1, CleanScores DEF Rev!Report, Rev!CodeReviewReport
<1>3. VerdictFits(row)
  BY <1>2, CleanScores DEF VerdictFits
<1>4. report = [r \in Review |-> IF r \in Seeded THEN row ELSE None]
  BY <1>1 DEF Rev!Init
<1>5. publishing = [p \in Publisher |-> None] /\ posts = <<>>
  BY DEF Rev!Init
<1>6. ReviewsTyped
  BY <1>2, <1>4, <1>5 DEF ReviewsTyped
<1>7. ApprovalsMeant
  BY <1>5 DEF ApprovalsMeant
<1>8. VerdictsFit
  BY <1>3, <1>4 DEF VerdictsFit
<1>9. QED
  BY <1>6, <1>7, <1>8 DEF ReviewsInv

\* A report is made, or rescored: no approval is taken back.
LEMMA ReportKeeps ==
  ASSUME ReviewsInv, NEW r \in Review, NEW row \in Rev!CodeReviewReport, VerdictFits(row),
         IsApproved(r) => row.decision = "APPROVED",
         report' = [report EXCEPT ![r] = row], UNCHANGED <<publishing, posts>>
  PROVE  ReviewsInv'
<1>1. \A s \in Review : report'[s] = IF s = r THEN row ELSE report[s]
  BY DEF ReviewsInv, ReviewsTyped
<1>2. row # None
  BY ReviewsNone
<1>3. ReviewsTyped'
  BY DEF ReviewsInv, ReviewsTyped
<1>4. \A s \in Review : IsApproved(s) => IsApproved(s)'
  BY <1>1, <1>2 DEF IsApproved
<1>5. \A p \in Publisher : publishing[p] # None => publishing[p].review \in Review
  BY DEF ReviewsInv, ReviewsTyped, Rev!Publication
<1>6. \A i \in DOMAIN posts : posts[i].review \in Review
  <2>1. \A i \in DOMAIN posts : posts[i] \in Rev!Publication
    BY DEF ReviewsInv, ReviewsTyped
  <2>2. QED
    BY <2>1 DEF Rev!Publication
<1>7. ApprovalsMeant'
  <2>1. \A s \in Review : report[s] # None => report'[s] # None
    BY <1>1, <1>2
  <2>2. \A p \in Publisher : publishing[p] # None =>
          /\ report'[publishing[p].review] # None
          /\ OwnApproval(publishing[p]) => report'[publishing[p].review].decision = "APPROVED"
    BY <1>4, <1>5, <2>1 DEF ReviewsInv, ApprovalsMeant, IsApproved
  <2>3. \A i \in DOMAIN posts : OwnApproval(posts[i]) =>
          report'[posts[i].review] # None /\ report'[posts[i].review].decision = "APPROVED"
    BY <1>4, <1>6 DEF ReviewsInv, ApprovalsMeant, IsApproved
  <2>4. QED
    BY <2>2, <2>3 DEF ApprovalsMeant, OwnApproval, IsApproved
<1>8. VerdictsFit'
  BY <1>1 DEF ReviewsInv, VerdictsFit, VerdictFits
<1>9. QED
  BY <1>3, <1>7, <1>8 DEF ReviewsInv

LEMMA TriggerKeeps ==
  ASSUME ReviewsInv, NEW r \in Review, NEW findings \in Diffs, Rev!TriggerReview(r, findings)
  PROVE  ReviewsInv'
<1>1. findings \in [Rev!Finding -> Nat]
  BY ReviewsAssumption
<1>2. PICK row : row = Rev!Report(findings, Rev!OverallScore(findings), Rev!Decision(findings))
  OBVIOUS
<1>3. row \in Rev!CodeReviewReport /\ VerdictFits(row)
  BY <1>1, <1>2, TriggeredFits
<1>4. report[r] = None /\ report' = [report EXCEPT ![r] = row] /\ UNCHANGED <<publishing, posts>>
  BY <1>2 DEF Rev!TriggerReview
<1>5. QED
  BY <1>3, <1>4, ReportKeeps DEF IsApproved

LEMMA ApplyKeeps ==
  ASSUME ReviewsInv, NEW r \in Review, NEW f \in Rev!Finding, Rev!ApplySuggestion(r, f)
  PROVE  ReviewsInv'
<1>1. PICK old : old = report[r]
  OBVIOUS
<1>2. old # None /\ old \in Rev!CodeReviewReport /\ VerdictFits(old)
  BY <1>1 DEF Rev!ApplySuggestion, ReviewsInv, ReviewsTyped, VerdictsFit
<1>3. PICK open : /\ open \in {[old.open EXCEPT ![f] = @ - 1], old.open} /\ 0 <= open[f]
                  /\ report' = [report EXCEPT ![r] = Rev!Rescored(old, open)]
  BY <1>1 DEF Rev!ApplySuggestion
<1>4. old.open \in [Rev!Finding -> Nat]
  BY <1>2 DEF Rev!CodeReviewReport
<1>5. open \in [Rev!Finding -> Nat] /\ \A g \in Rev!Finding : open[g] <= old.open[g]
  <2>1. CASE open = old.open
    BY <1>4, <2>1
  <2>2. CASE open = [old.open EXCEPT ![f] = @ - 1]
    BY <1>3, <1>4, <2>2
  <2>3. QED
    BY <1>3, <2>1, <2>2
<1>6. PICK row : row = Rev!Rescored(old, open)
  OBVIOUS
<1>7. row \in Rev!CodeReviewReport /\ VerdictFits(row) /\ (old.decision = "APPROVED" => row.decision = "APPROVED")
  BY <1>2, <1>5, <1>6, RescoredFits
<1>8. QED
  BY <1>1, <1>3, <1>6, <1>7, ReportKeeps DEF IsApproved, Rev!ApplySuggestion

LEMMA PublishKeeps ==
  ASSUME ReviewsInv, NEW p \in Publisher, NEW r \in Review, NEW asked \in {None, "APPROVE", "COMMENT"},
         Rev!PublishReview(p, r, asked)
  PROVE  ReviewsInv'
<1>1. PICK post : post = [review |-> r, event |-> Rev!EventFor(r, asked), asked |-> asked # None]
  OBVIOUS
<1>2. report[r] # None /\ publishing' = [publishing EXCEPT ![p] = post] /\ UNCHANGED <<report, posts>>
  BY <1>1 DEF Rev!PublishReview
<1>3. Rev!EventFor(r, asked) \in {"APPROVE", "COMMENT", "REQUEST_CHANGES"}
  BY ReviewsNone DEF Rev!EventFor
<1>4. post \in Rev!Publication /\ post.review = r
  BY <1>1, <1>3 DEF Rev!Publication
<1>5. OwnApproval(post) => IsApproved(r)
  BY <1>1, <1>2, ReviewsNone DEF OwnApproval, IsApproved, Rev!EventFor
<1>6. \A q \in Publisher : publishing'[q] = IF q = p THEN post ELSE publishing[q]
  BY <1>2 DEF ReviewsInv, ReviewsTyped
<1>7. ReviewsTyped' /\ VerdictsFit'
  BY <1>2, <1>4 DEF ReviewsInv, ReviewsTyped, VerdictsFit
<1>8. ApprovalsMeant'
  BY <1>2, <1>4, <1>5, <1>6 DEF ReviewsInv, ApprovalsMeant, IsApproved
<1>9. QED
  BY <1>7, <1>8 DEF ReviewsInv

LEMMA PostKeeps ==
  ASSUME ReviewsInv, NEW p \in Publisher, Rev!PublishReviewComments(p)
  PROVE  ReviewsInv'
<1>1. PICK post, r, n : /\ post = publishing[p] /\ r = post.review /\ n = Len(posts)'
  OBVIOUS
<1>2. /\ post # None /\ post \in Rev!Publication /\ r \in Review
      /\ report[r] # None /\ (OwnApproval(post) => IsApproved(r))
  BY <1>1 DEF Rev!PublishReviewComments, ReviewsInv, ReviewsTyped, ApprovalsMeant, Rev!Publication
<1>3. posts' = Append(posts, post) /\ publishing' = [publishing EXCEPT ![p] = None]
  BY <1>1 DEF Rev!PublishReviewComments
<1>4. PICK row : row = [report[r] EXCEPT !.published = TRUE, !.githubReviewId = n]
  OBVIOUS
<1>5. report' = [report EXCEPT ![r] = row]
  BY <1>1, <1>4 DEF Rev!PublishReviewComments
<1>6. report[r] \in Rev!CodeReviewReport /\ n \in Nat
  BY <1>1, <1>2, <1>3 DEF ReviewsInv, ReviewsTyped
<1>7. row \in Rev!CodeReviewReport /\ row # None /\ row.open = report[r].open /\ row.decision = report[r].decision
  BY <1>4, <1>6, ReviewsNone, ZenonT(40) DEF Rev!CodeReviewReport
<1>8. \A s \in Review : report'[s] = IF s = r THEN row ELSE report[s]
  BY <1>5 DEF ReviewsInv, ReviewsTyped
<1>9. \A q \in Publisher : publishing'[q] = IF q = p THEN None ELSE publishing[q]
  BY <1>3 DEF ReviewsInv, ReviewsTyped
<1>10. /\ DOMAIN posts' = 1 .. Len(posts) + 1 /\ DOMAIN posts = 1 .. Len(posts) /\ Len(posts) \in Nat
       /\ \A i \in 1 .. Len(posts) : posts'[i] = posts[i]
       /\ posts'[Len(posts) + 1] = post
  BY <1>2, <1>3 DEF ReviewsInv, ReviewsTyped
<1>11. ReviewsTyped'
  BY <1>2, <1>3, <1>5, <1>7 DEF ReviewsInv, ReviewsTyped
<1>12. \A s \in Review : (IsApproved(s) => IsApproved(s)') /\ (report[s] # None => report'[s] # None)
  BY <1>2, <1>7, <1>8 DEF IsApproved
<1>13. \A q \in Publisher : publishing[q] # None => publishing[q].review \in Review
  BY DEF ReviewsInv, ReviewsTyped, Rev!Publication
<1>14. \A i \in DOMAIN posts : posts[i].review \in Review
  <2>1. \A i \in DOMAIN posts : posts[i] \in Rev!Publication
    BY DEF ReviewsInv, ReviewsTyped
  <2>2. QED
    BY <2>1 DEF Rev!Publication
<1>15. ASSUME NEW i \in DOMAIN posts'
       PROVE  posts'[i].review \in Review /\ (OwnApproval(posts'[i]) => IsApproved(posts'[i].review))
  <2>1. CASE i \in 1 .. Len(posts)
    <3>1. i \in DOMAIN posts /\ posts'[i] = posts[i]
      BY <1>10, <2>1
    <3>2. QED
      BY <1>14, <3>1 DEF ReviewsInv, ApprovalsMeant, OwnApproval, IsApproved
  <2>2. CASE i = Len(posts) + 1
    <3>1. posts'[i] = post
      BY <1>10, <2>2
    <3>2. QED
      BY <1>1, <1>2, <3>1 DEF OwnApproval, IsApproved
  <2>3. QED
    BY <1>10, <2>1, <2>2
<1>16. ApprovalsMeant'
  <2>1. ASSUME NEW q \in Publisher, publishing'[q] # None
        PROVE  /\ report'[publishing'[q].review] # None
               /\ OwnApproval(publishing'[q]) => report'[publishing'[q].review].decision = "APPROVED"
    <3>1. publishing'[q] = publishing[q] /\ publishing[q] # None
      BY <1>9, <2>1
    <3>2. PICK k \in Review : k = publishing[q].review
      BY <1>13, <3>1
    <3>3. QED
      BY <1>12, <3>1, <3>2 DEF ReviewsInv, ApprovalsMeant, OwnApproval, IsApproved
  <2>2. ASSUME NEW i \in DOMAIN posts', OwnApproval(posts'[i])
        PROVE  report'[posts'[i].review] # None /\ report'[posts'[i].review].decision = "APPROVED"
    <3>1. PICK k \in Review : k = posts'[i].review /\ IsApproved(k)
      BY <1>15, <2>2
    <3>2. IsApproved(k)'
      BY <1>12, <3>1
    <3>3. QED
      BY <3>1, <3>2 DEF IsApproved
  <2>3. QED
    BY <2>1, <2>2 DEF ApprovalsMeant, OwnApproval, IsApproved
<1>17. VerdictsFit'
  BY <1>2, <1>7, <1>8 DEF ReviewsInv, VerdictsFit, VerdictFits
<1>18. QED
  BY <1>11, <1>16, <1>17 DEF ReviewsInv

LEMMA ReviewsStep == ReviewsInv /\ [Next]_vars => ReviewsInv'
<1> SUFFICES ASSUME ReviewsInv, [Next]_vars PROVE ReviewsInv'
  OBVIOUS
<1>1. Rev!Next \/ UNCHANGED reviewsVars
  BY DEF Next, vars
<1>2. CASE UNCHANGED reviewsVars
  BY <1>2 DEF reviewsVars, ReviewsInv, ReviewsTyped, ApprovalsMeant, VerdictsFit, IsApproved
<1>3. CASE Rev!Next
  BY <1>3, TriggerKeeps, ApplyKeeps, PublishKeeps, PostKeeps DEF Rev!Next
<1>4. QED
  BY <1>1, <1>2, <1>3

\* Whatever findings a diff has, in whatever order its suggestions are applied
\* and its review published: no approval is given, or sent to GitHub unasked,
\* while a blocking finding or two of MEDIUM severity are open, and a report
\* all of whose findings are fixed is approved.
THEOREM ApprovalsAreEarned == Spec => []ApprovalEarned
<1>1. Init => ReviewsInv
  BY ReviewsInit DEF Init
<1>2. ReviewsInv => ApprovalEarned
  BY DEF ReviewsInv, ApprovalsMeant, VerdictsFit, VerdictFits, OwnApproval, IsApproved, ApprovalEarned,
         Rev!ApprovalEarned
<1>3. QED
  BY <1>1, <1>2, ReviewsStep, PTL DEF Spec

-----------------------------------------------------------------------------
(***************************************************************************)
(* Agent runs                                                              *)
(***************************************************************************)
\* The places of a plan: step and tool.
Places(kind, tools) == {p \in (1 .. 5) \X (1 .. 2) :
  p[1] \in DOMAIN Agents!Plan(kind) /\ p[2] \in DOMAIN Agents!Plan(kind)[p[1]]
    /\ Agents!Plan(kind)[p[1]][p[2]] \in tools}

\* Those that are behind a run which has done n steps, and l tools of the next.
Passed(kind, n, l, tools) == {p \in Places(kind, tools) : p[1] <= n \/ (p[1] = n + 1 /\ p[2] <= l)}

\* What a run has done so far, step by step and tool by tool, is what it
\* carries.
Progress(row, made, l) ==
  LET n == Len(row.steps) IN
  /\ n <= Len(Agents!Plan(row.kind)) /\ \A i \in 1 .. n : row.steps[i] = Agents!Plan(row.kind)[i]
  /\ n <= row.limit /\ (l > 0 => n + 1 <= row.limit)
  /\ l \in Nat /\ (l > 0 => n < Len(Agents!Plan(row.kind)) /\ l < Len(Agents!Plan(row.kind)[n + 1]))
  /\ Len(made) = Cardinality(Passed(row.kind, n, l, {"create_patch"}))
  /\ row.sandboxed = Cardinality(Passed(row.kind, n, l, Agents!Sandboxed))
  /\ row.branch <=> Passed(row.kind, n, l, {"create_branch"}) # {}

AgentsTyped ==
  /\ run \in [Run -> Agents!AgentRun \cup {None}]
  /\ loop \in [Run -> Nat \cup {None}]
  /\ created \in [Run -> Seq(Run \X Nat)]

\* The patches a run carries are those the registry keeps of it.
SamePatches(row, made) ==
  Len(row.patches) = Len(made) /\ \A i \in 1 .. Len(made) : row.patches[i].id = made[i]

RunFits(row, made, l) ==
  /\ SamePatches(row, made)
  /\ l # None => row.status # "COMPLETED" /\ Progress(row, made, l)
  /\ row.status = "COMPLETED" => Progress(row, made, 0) /\ Len(row.steps) = Len(Agents!Plan(row.kind))

AgentsInv ==
  /\ AgentsTyped
  /\ \A r \in Run : loop[r] # None => run[r] # None
  /\ \A r \in Run : run[r] = None => created[r] = <<>>
  /\ \A r \in Run : run[r] # None => RunFits(run[r], created[r], loop[r])

LEMMA AgentsNone == None \notin Agents!AgentRun
BY AgentsAssumption

LEMMA SameAgentsCardinality == \A S : Agents!Cardinality(S) = Cardinality(S)
BY DEF Agents!Cardinality, Cardinality

\* Plans have five steps at most, of one tool or two.
LEMMA PlanShape ==
  ASSUME NEW kind \in Agents!Kinds
  PROVE  /\ Agents!Plan(kind) \in Seq(Seq(Agents!Tool)) /\ Len(Agents!Plan(kind)) \in 1 .. 5
         /\ \A i \in 1 .. Len(Agents!Plan(kind)) : /\ Agents!Plan(kind)[i] \in Seq(Agents!Tool)
                                                   /\ Len(Agents!Plan(kind)[i]) \in 1 .. 2
<1>1. PICK a, b, c, d, e, f, g, h, i, j :
        /\ a = <<"search_code">> /\ b = <<"get_symbol", "read_file">> /\ c = <<"read_file">>
        /\ d = <<"run_tests">> /\ e = <<"create_patch", "create_branch">>
        /\ f = <<"search_repository", "search_code">> /\ g = <<"read_file", "read_file">>
        /\ h = <<"search_code", "read_file">> /\ i = <<"run_tests", "run_linter">>
        /\ j = {step \in Seq(Agents!Tool) : Len(step) \in 1 .. 2}
  OBVIOUS
<1>2. a \in j /\ c \in j /\ d \in j
  BY <1>1 DEF Agents!Tool
<1>3. b \in j /\ e \in j /\ f \in j
  BY <1>1 DEF Agents!Tool
<1>4. g \in j /\ h \in j /\ i \in j
  BY <1>1 DEF Agents!Tool
<1>5. PICK plan : plan = Agents!Plan(kind)
  OBVIOUS
<1>6. plan \in {<<a, b>>, <<a, c, c, d, e>>, <<a, d>>, <<f, g>>, <<h, i>>}
  BY <1>1, <1>5 DEF Agents!Plan, Agents!Kinds
<1>7. /\ plan \in Seq(j) /\ Len(plan) \in 1 .. 5
      /\ \A k \in 1 .. Len(plan) : plan[k] \in j
  <2>1. CASE plan = <<a, b>>
    BY <1>2, <1>3, <2>1
  <2>2. CASE plan = <<a, c, c, d, e>>
    BY <1>2, <1>3, <2>2
  <2>3. CASE plan = <<a, d>>
    BY <1>2, <2>3
  <2>4. CASE plan = <<f, g>>
    BY <1>3, <1>4, <2>4
  <2>5. CASE plan = <<h, i>>
    BY <1>4, <2>5
  <2>6. QED
    BY <1>6, <2>1, <2>2, <2>3, <2>4, <2>5
<1>8. j \subseteq Seq(Agents!Tool)
  BY <1>1
<1>9. plan \in Seq(Seq(Agents!Tool))
  BY <1>7, <1>8
<1>10. QED
  BY <1>1, <1>5, <1>7, <1>9

LEMMA PassedFinite ==
  ASSUME NEW kind, NEW n, NEW l, NEW tools
  PROVE  /\ IsFiniteSet(Passed(kind, n, l, tools))
         /\ Cardinality(Passed(kind, n, l, tools)) \in Nat
         /\ Cardinality(Passed(kind, n, l, tools)) = 0 <=> Passed(kind, n, l, tools) = {}
<1>1. IsFiniteSet((1 .. 5) \X (1 .. 2))
  <2>1. PICK a, b, c \in Int : a = 1 /\ b = 5 /\ c = 2
    OBVIOUS
  <2>2. IsFiniteSet(a .. b) /\ IsFiniteSet(a .. c)
    BY FS_Interval
  <2>3. IsFiniteSet((a .. b) \X (a .. c))
    BY <2>2, FS_Product, Zenon
  <2>4. QED
    BY <2>1, <2>3, Zenon
<1>2. Passed(kind, n, l, tools) \subseteq (1 .. 5) \X (1 .. 2)
  BY DEF Passed, Places
<1>3. IsFiniteSet(Passed(kind, n, l, tools))
  BY <1>1, <1>2, FS_Subset
<1>4. QED
  BY <1>3, FS_CardinalityType, FS_EmptySet

\* Nothing is behind a run at its start; everything at its end.
LEMMA PassedEnds ==
  ASSUME NEW kind \in Agents!Kinds, NEW tools
  PROVE  /\ Passed(kind, 0, 0, tools) = {}
         /\ Passed(kind, Len(Agents!Plan(kind)), 0, tools) = Places(kind, tools)
<1>1. DOMAIN Agents!Plan(kind) = 1 .. Len(Agents!Plan(kind))
  BY PlanShape
<1>2. \A p \in Places(kind, tools) : p[1] \in 1 .. 5 /\ p[2] \in 1 .. 2 /\ p[1] \in 1 .. Len(Agents!Plan(kind))
  BY <1>1 DEF Places
<1>3. Len(Agents!Plan(kind)) \in Nat
  BY PlanShape
<1>4. QED
  BY <1>2, <1>3 DEF Passed

\* A call of the tool takes a run from n steps and l tools to m and k.
Advances(kind, n, l, tool, m, k) ==
  LET step == Agents!Plan(kind)[n + 1] IN
  /\ n < Len(Agents!Plan(kind)) /\ l < Len(step) /\ tool = step[l + 1]
  /\ m = IF l + 1 = Len(step) THEN n + 1 ELSE n
  /\ k = IF l + 1 = Len(step) THEN 0 ELSE l + 1

\* That is one place more, if the tool is one of the tools.
Grows(kind, n, l, tool, m, k, tools) ==
  /\ Passed(kind, m, k, tools) = IF tool \in tools THEN Passed(kind, n, l, tools) \cup {<<n + 1, l + 1>>}
                                 ELSE Passed(kind, n, l, tools)
  /\ Cardinality(Passed(kind, m, k, tools)) = Cardinality(Passed(kind, n, l, tools)) + (IF tool \in tools THEN 1 ELSE 0)

LEMMA PassedGrows ==
  ASSUME NEW kind \in Agents!Kinds, NEW n \in Nat, NEW l \in Nat, NEW tool, NEW m, NEW k,
         Advances(kind, n, l, tool, m, k), NEW tools
  PROVE  Grows(kind, n, l, tool, m, k, tools)
<1>1. PICK step : /\ step = Agents!Plan(kind)[n + 1]
                  /\ n < Len(Agents!Plan(kind)) /\ l < Len(step) /\ tool = step[l + 1]
                  /\ m = IF l + 1 = Len(step) THEN n + 1 ELSE n
                  /\ k = IF l + 1 = Len(step) THEN 0 ELSE l + 1
  BY DEF Advances
<1>2. PICK plan : plan = Agents!Plan(kind)
  OBVIOUS
<1>3. /\ DOMAIN plan = 1 .. Len(plan) /\ Len(plan) \in 1 .. 5
      /\ \A i \in 1 .. Len(plan) : DOMAIN plan[i] = 1 .. Len(plan[i]) /\ Len(plan[i]) \in 1 .. 2
  BY <1>2, PlanShape
<1>4. step = plan[n + 1] /\ n < Len(plan) /\ l < Len(plan[n + 1]) /\ n + 1 \in 1 .. Len(plan) /\ n + 1 \in 1 .. 5
  <2>1. step = plan[n + 1] /\ n < Len(plan) /\ l < Len(plan[n + 1])
    BY <1>1, <1>2
  <2>2. \A i \in 1 .. 5 : n < i => n + 1 \in 1 .. i /\ n + 1 \in 1 .. 5
    OBVIOUS
  <2>3. n + 1 \in 1 .. Len(plan) /\ n + 1 \in 1 .. 5
    BY <1>3, <2>1, <2>2
  <2>4. QED
    BY <2>1, <2>3
<1>5. Len(plan[n + 1]) \in 1 .. 2 /\ l + 1 \in 1 .. Len(plan[n + 1]) /\ l + 1 \in 1 .. 2
  <2>1. Len(plan[n + 1]) \in 1 .. 2
    BY <1>3, <1>4
  <2>2. \A i \in 1 .. 2 : l < i => l + 1 \in 1 .. i /\ l + 1 \in 1 .. 2
    OBVIOUS
  <2>3. QED
    BY <1>4, <2>1, <2>2
<1>6. PICK all : all = Places(kind, tools)
  OBVIOUS
<1>7. /\ \A p \in all : p = <<p[1], p[2]>> /\ p[1] \in 1 .. 5 /\ p[2] \in 1 .. Len(plan[p[1]])
      /\ <<n + 1, l + 1>> \in all <=> plan[n + 1][l + 1] \in tools
  BY <1>2, <1>3, <1>4, <1>5, <1>6 DEF Places
<1>8. \A i, j : Passed(kind, i, j, tools) = {p \in all : p[1] <= i \/ (p[1] = i + 1 /\ p[2] <= j)}
  BY <1>6 DEF Passed
<1>9. PICK before, after : before = Passed(kind, n, l, tools) /\ after = Passed(kind, m, k, tools)
  OBVIOUS
<1>10. \A p \in all : p \in after <=> p \in before \/ p = <<n + 1, l + 1>>
  <2> TAKE p \in all
  <2>1. p[1] \in Nat /\ p[2] \in Nat /\ p[2] \in 1 .. Len(plan[p[1]]) /\ p = <<p[1], p[2]>>
    <3>1. p[1] \in 1 .. 5 /\ p[2] \in 1 .. 2
      BY <1>6 DEF Places
    <3>2. QED
      BY <1>7, <3>1
  <2>2. p = <<n + 1, l + 1>> <=> p[1] = n + 1 /\ p[2] = l + 1
    BY <2>1
  <2>3. p \in before <=> p[1] <= n \/ (p[1] = n + 1 /\ p[2] <= l)
    BY <1>8, <1>9
  <2>4. p \in after <=> p[1] <= m \/ (p[1] = m + 1 /\ p[2] <= k)
    BY <1>8, <1>9
  <2>5. CASE l + 1 = Len(step)
    <3>1. m = n + 1 /\ k = 0
      BY <1>1, <2>5
    <3>2. p[1] = n + 1 => p[2] <= l + 1
      BY <1>4, <1>5, <2>1, <2>5
    <3>3. QED
      BY <2>1, <2>2, <2>3, <2>4, <3>1, <3>2
  <2>6. CASE l + 1 # Len(step)
    <3>1. m = n /\ k = l + 1
      BY <1>1, <2>6
    <3>2. QED
      BY <2>1, <2>2, <2>3, <2>4, <3>1
  <2>7. QED
    BY <2>5, <2>6
<1>11. before \subseteq all /\ after \subseteq all /\ <<n + 1, l + 1>> \notin before
  BY <1>8, <1>9
<1>12. after = IF plan[n + 1][l + 1] \in tools THEN before \cup {<<n + 1, l + 1>>} ELSE before
  BY <1>7, <1>10, <1>11
<1>13. IsFiniteSet(before) /\ Cardinality(before) \in Nat
  BY <1>9, PassedFinite
<1>14. Cardinality(before \cup {<<n + 1, l + 1>>}) = Cardinality(before) + 1
  BY <1>11, <1>13, FS_AddElement
<1>15. Cardinality(after) = Cardinality(before) + (IF plan[n + 1][l + 1] \in tools THEN 1 ELSE 0)
  BY <1>12, <1>13, <1>14
<1>16. tool = plan[n + 1][l + 1]
  BY <1>1, <1>4
<1>17. QED
  BY <1>9, <1>12, <1>15, <1>16 DEF Grows

\* Of a run, Progress reads what this lemma names.
LEMMA ProgressReads ==
  ASSUME NEW row, NEW new, NEW made, NEW l, Progress(row, made, l),
         new.kind = row.kind, new.steps = row.steps, new.limit = row.limit,
         new.sandboxed = row.sandboxed, new.branch = row.branch
  PROVE  Progress(new, made, l)
BY DEF Progress

LEMMA RunFields ==
  ASSUME NEW row \in Agents!AgentRun
  PROVE  /\ row.kind \in Agents!Kinds /\ row.limit \in 1 .. 20 /\ row.limit \in Nat
         /\ row.steps \in Seq(Seq(Agents!Tool)) /\ row.sandboxed \in Nat
         /\ row.patches \in Seq([id : Run \X Nat, applied : BOOLEAN])
<1>1. row.limit \in 1 .. 20
  BY DEF Agents!AgentRun
<1>2. row.limit \in Nat
  BY <1>1
<1>3. QED
  BY <1>1, <1>2 DEF Agents!AgentRun

\* What executeTool does to the record of a run, to the patches the registry
\* keeps of it and to its loop.
ToolDone(row, made, l, new, newMade, k) ==
  LET n == Len(row.steps)
      step == Agents!Plan(row.kind)[n + 1]
      tool == step[l + 1]
  IN /\ n < Len(Agents!Plan(row.kind)) /\ n + 1 <= row.limit
     /\ new.kind = row.kind /\ new.limit = row.limit
     /\ new.sandboxed = IF tool \in Agents!Sandboxed THEN row.sandboxed + 1 ELSE row.sandboxed
     /\ new.branch <=> row.branch \/ tool = "create_branch"
     /\ new.steps = IF l + 1 = Len(step) THEN Append(row.steps, step) ELSE row.steps
     /\ \E patch : newMade = IF tool = "create_patch" THEN Append(made, patch) ELSE made
     /\ k = IF l + 1 = Len(step) THEN 0 ELSE l + 1

\* It keeps the books of the plan.
LEMMA ToolProgress ==
  ASSUME NEW row \in Agents!AgentRun, NEW made \in Seq(Run \X Nat), NEW l, Progress(row, made, l),
         NEW new, NEW newMade, NEW k, ToolDone(row, made, l, new, newMade, k)
  PROVE  Progress(new, newMade, k)
<1>a. PICK n \in Nat : n = Len(row.steps)
  BY RunFields
<1>b. PICK step, tool : step = Agents!Plan(row.kind)[n + 1] /\ tool = step[l + 1]
  OBVIOUS
<1>c. /\ n < Len(Agents!Plan(row.kind)) /\ n + 1 <= row.limit
      /\ new.kind = row.kind /\ new.limit = row.limit
      /\ new.sandboxed = IF tool \in Agents!Sandboxed THEN row.sandboxed + 1 ELSE row.sandboxed
      /\ new.branch <=> row.branch \/ tool = "create_branch"
      /\ new.steps = IF l + 1 = Len(step) THEN Append(row.steps, step) ELSE row.steps
      /\ k = IF l + 1 = Len(step) THEN 0 ELSE l + 1
  BY <1>a, <1>b DEF ToolDone
<1>d. PICK patch : newMade = IF tool = "create_patch" THEN Append(made, patch) ELSE made
  BY <1>a, <1>b DEF ToolDone
<1>1. PICK kind \in Agents!Kinds : kind = row.kind
  BY DEF Agents!AgentRun
<1>2. PICK plan : kind = row.kind /\ plan = Agents!Plan(kind)
  BY <1>1
<1>3. /\ plan \in Seq(Seq(Agents!Tool)) /\ Len(plan) \in 1 .. 5
      /\ \A i \in 1 .. Len(plan) : plan[i] \in Seq(Agents!Tool) /\ Len(plan[i]) \in 1 .. 2
  BY <1>2, PlanShape
<1>4. row.steps \in Seq(Seq(Agents!Tool)) /\ row.limit \in Nat /\ row.sandboxed \in Nat
  BY RunFields
<1>5. n + 1 \in 1 .. Len(plan) /\ step = plan[n + 1]
  BY <1>b, <1>c, <1>2, <1>3
<1>6. step \in Seq(Agents!Tool) /\ Len(step) \in 1 .. 2
  BY <1>3, <1>5
<1>7. l \in Nat /\ l < Len(step)
  <2>1. l \in Nat /\ (l > 0 => l < Len(step))
    BY <1>a, <1>b DEF Progress
  <2>2. \A i \in 1 .. 2 : 0 < i
    OBVIOUS
  <2>3. 0 < Len(step)
    BY <1>6, <2>2
  <2>4. CASE l = 0
    BY <2>1, <2>3, <2>4, Zenon
  <2>5. CASE l # 0
    BY <2>1, <2>5
  <2>6. QED
    BY <2>4, <2>5
<1>8. /\ Len(made) = Cardinality(Passed(kind, n, l, {"create_patch"}))
      /\ row.sandboxed = Cardinality(Passed(kind, n, l, Agents!Sandboxed))
      /\ row.branch <=> Passed(kind, n, l, {"create_branch"}) # {}
      /\ \A i \in 1 .. n : row.steps[i] = plan[i]
  BY <1>a, <1>2 DEF Progress
<1>9. PICK m : m = IF l + 1 = Len(step) THEN n + 1 ELSE n
  OBVIOUS
<1>10. /\ m = Len(new.steps) /\ m \in Nat /\ m <= Len(plan) /\ m <= row.limit
      /\ \A i \in 1 .. m : new.steps[i] = plan[i]
  <2>1. CASE l + 1 = Len(step)
    <3>1. /\ new.steps = Append(row.steps, step) /\ Len(new.steps) = n + 1
          /\ \A i \in 1 .. n : new.steps[i] = row.steps[i]
          /\ new.steps[n + 1] = step
      BY <1>a, <1>c, <1>4, <1>6, <2>1
    <3>2. QED
      BY <1>c, <1>2, <1>5, <1>8, <1>9, <2>1, <3>1
  <2>2. CASE l + 1 # Len(step)
    BY <1>a, <1>c, <1>2, <1>4, <1>8, <1>9, <2>2
  <2>3. QED
    BY <2>1, <2>2
<1>11. \A tools : Grows(kind, n, l, tool, m, k, tools)
  <2>1. Advances(kind, n, l, tool, m, k)
    BY <1>b, <1>c, <1>2, <1>7, <1>9 DEF Advances
  <2>2. kind \in Agents!Kinds /\ n \in Nat /\ l \in Nat
    BY <1>1, <1>7
  <2>3. QED
    BY <2>1, <2>2, PassedGrows, Zenon
<1>12. Len(newMade) = Cardinality(Passed(kind, m, k, {"create_patch"}))
  <2>1. Len(newMade) = Len(made) + (IF tool = "create_patch" THEN 1 ELSE 0)
    BY <1>d
  <2>2. Cardinality(Passed(kind, m, k, {"create_patch"}))
          = Cardinality(Passed(kind, n, l, {"create_patch"})) + (IF tool = "create_patch" THEN 1 ELSE 0)
    BY <1>11 DEF Grows
  <2>3. QED
    BY <1>8, <2>1, <2>2
<1>13. new.sandboxed = Cardinality(Passed(kind, m, k, Agents!Sandboxed))
  <2>1. new.sandboxed = row.sandboxed + (IF tool \in Agents!Sandboxed THEN 1 ELSE 0)
    BY <1>c, <1>4
  <2>2. QED
    BY <1>8, <1>11, <2>1 DEF Grows
<1>14. new.branch <=> Passed(kind, m, k, {"create_branch"}) # {}
  <2>1. Passed(kind, m, k, {"create_branch"}) =
          IF tool = "create_branch" THEN Passed(kind, n, l, {"create_branch"}) \cup {<<n + 1, l + 1>>}
          ELSE Passed(kind, n, l, {"create_branch"})
    BY <1>11 DEF Grows
  <2>2. CASE tool = "create_branch"
    <3>1. Passed(kind, m, k, {"create_branch"}) # {}
      BY <2>1, <2>2
    <3>2. QED
      BY <1>c, <2>2, <3>1
  <2>3. CASE tool # "create_branch"
    BY <1>c, <1>8, <2>1, <2>3
  <2>4. QED
    BY <2>2, <2>3
<1>15. k \in Nat /\ (k > 0 => m < Len(plan) /\ k < Len(plan[m + 1]) /\ m + 1 <= row.limit)
  BY <1>c, <1>2, <1>5, <1>6, <1>7, <1>9
<1>16. QED
  BY <1>c, <1>2, <1>10, <1>12, <1>13, <1>14, <1>15 DEF Progress

LEMMA AgentsInit == Agents!Init => AgentsInv
BY DEF Agents!Init, AgentsInv, AgentsTyped

\* Of the run at hand: its record, its loop and the patches the registry keeps
\* of it.
LEMMA RunStored ==
  ASSUME AgentsInv, NEW r \in Run, NEW new \in Agents!AgentRun, NEW made \in Seq(Run \X Nat),
         NEW l \in Nat \cup {None}, RunFits(new, made, l),
         run' = [run EXCEPT ![r] = new], loop' = [loop EXCEPT ![r] = l], created' = [created EXCEPT ![r] = made]
  PROVE  AgentsInv'
<1> HIDE DEF RunFits
<1>1. /\ run' \in [Run -> Agents!AgentRun \cup {None}] /\ loop' \in [Run -> Nat \cup {None}]
      /\ created' \in [Run -> Seq(Run \X Nat)]
  BY DEF AgentsInv, AgentsTyped
<1>2. \A s \in Run : IF s = r THEN run'[s] = new /\ loop'[s] = l /\ created'[s] = made
                     ELSE run'[s] = run[s] /\ loop'[s] = loop[s] /\ created'[s] = created[s]
  BY DEF AgentsInv, AgentsTyped
<1>3. new # None
  BY AgentsNone
<1>4. \A s \in Run : /\ loop'[s] # None => run'[s] # None
                     /\ run'[s] = None => created'[s] = <<>>
  BY <1>2, <1>3 DEF AgentsInv
<1>5. \A s \in Run : run'[s] # None => RunFits(run'[s], created'[s], loop'[s])
  <2> SUFFICES ASSUME NEW s \in Run, run'[s] # None PROVE RunFits(run'[s], created'[s], loop'[s])
    OBVIOUS
  <2>1. CASE s = r
    BY <1>2, <2>1, Zenon
  <2>2. CASE s # r
    <3>1. run'[s] = run[s] /\ loop'[s] = loop[s] /\ created'[s] = created[s]
      BY <1>2, <2>2
    <3>2. RunFits(run[s], created[s], loop[s])
      BY <3>1 DEF AgentsInv
    <3>3. QED
      BY <3>1, <3>2, Zenon
  <2>3. QED
    BY <2>1, <2>2
<1>6. QED
  BY <1>1, <1>4, <1>5 DEF AgentsInv, AgentsTyped

\* A run that is there, with what the invariant says of it.
LEMMA RunThere ==
  ASSUME AgentsInv, NEW r \in Run, run[r] # None
  PROVE  /\ run[r] \in Agents!AgentRun /\ created[r] \in Seq(Run \X Nat) /\ loop[r] \in Nat \cup {None}
         /\ RunFits(run[r], created[r], loop[r])
         /\ loop = [loop EXCEPT ![r] = loop[r]] /\ created = [created EXCEPT ![r] = created[r]]
<1>1. /\ run[r] \in Agents!AgentRun /\ created[r] \in Seq(Run \X Nat) /\ loop[r] \in Nat \cup {None}
      /\ loop = [loop EXCEPT ![r] = loop[r]] /\ created = [created EXCEPT ![r] = created[r]]
  BY DEF AgentsInv, AgentsTyped
<1>2. RunFits(run[r], created[r], loop[r])
  BY DEF AgentsInv
<1>3. QED
  BY <1>1, <1>2

\* A new run has nothing behind it.
LEMMA DispatchKeeps ==
  ASSUME AgentsInv, NEW r \in Run, NEW kind \in Agents!Kinds, NEW role \in Role, NEW n \in Requested,
         NEW refused \in BOOLEAN,
         Agents!DispatchAgent(r, kind, role, n, refused)
  PROVE  AgentsInv'
<1>1. PICK limit \in 1 .. 20 : limit = Agents!SafeMaxIterations(n)
  BY AgentsAssumption DEF Agents!SafeMaxIterations
<1>2. PICK new : new = [kind |-> kind, role |-> role, limit |-> limit, refused |-> refused,
                        status |-> "EXECUTING_TOOLS", iterations |-> 0, steps |-> <<>>, patches |-> <<>>,
                        branch |-> FALSE, sandboxed |-> 0, pullRequest |-> FALSE]
  OBVIOUS
<1>3. new \in Agents!AgentRun
  BY <1>2 DEF Agents!AgentRun
<1>4. run' = [run EXCEPT ![r] = new] /\ loop' = [loop EXCEPT ![r] = 0] /\ created' = created
  BY <1>1, <1>2 DEF Agents!DispatchAgent
<1>5. created' = [created EXCEPT ![r] = <<>>]
  <2>1. created[r] = <<>>
    BY DEF Agents!DispatchAgent, AgentsInv
  <2>2. QED
    BY <1>4, <2>1 DEF AgentsInv, AgentsTyped
<1>6. Progress(new, <<>>, 0)
  <2>1. /\ new.kind = kind /\ new.limit = limit /\ new.steps = <<>> /\ Len(new.steps) = 0
        /\ new.sandboxed = 0 /\ new.branch = FALSE
    BY <1>2
  <2>2. Len(Agents!Plan(kind)) \in Nat
    BY PlanShape
  <2>3. \A tools : Passed(kind, 0, 0, tools) = {} /\ Cardinality(Passed(kind, 0, 0, tools)) = 0
    BY PassedEnds, PassedFinite
  <2>4. limit \in Nat
    OBVIOUS
  <2>5. QED
    BY <2>1, <2>2, <2>3, <2>4 DEF Progress
<1>7. RunFits(new, <<>>, 0)
  <2>1. new.status = "EXECUTING_TOOLS" /\ new.patches = <<>>
    BY <1>2
  <2>2. QED
    BY <1>6, <2>1 DEF RunFits, SamePatches
<1>8. 0 \in Nat \cup {None} /\ <<>> \in Seq(Run \X Nat)
  OBVIOUS
<1>9. QED
  BY <1>3, <1>4, <1>5, <1>7, <1>8, RunStored

\* An exception leaves the loop, and a run that is not complete.
LEMMA ThrowKeeps ==
  ASSUME AgentsInv, NEW r \in Run, Agents!StopAtLimit(r) \/ Agents!RefuseTool(r)
  PROVE  AgentsInv'
<1>1. /\ loop[r] # None /\ run' = [run EXCEPT ![r].iterations = Agents!StepNumber(r)]
      /\ loop' = [loop EXCEPT ![r] = None] /\ created' = created
  BY DEF Agents!StopAtLimit, Agents!RefuseTool, Agents!Throw, Agents!InLoop
<1>2. run[r] # None
  BY <1>1 DEF AgentsInv
<1>3. PICK row \in Agents!AgentRun : row = run[r] /\ RunFits(row, created[r], loop[r])
  BY <1>2, RunThere
<1>4. Agents!StepNumber(r) \in Nat
  BY <1>3, RunFields DEF Agents!StepNumber
<1>5. PICK new : new = [row EXCEPT !.iterations = Agents!StepNumber(r)]
  OBVIOUS
<1>6. new \in Agents!AgentRun /\ new.status = row.status /\ new.patches = row.patches
  BY <1>4, <1>5 DEF Agents!AgentRun
<1>7. run' = [run EXCEPT ![r] = new]
  BY <1>1, <1>3, <1>5
<1>8. RunFits(new, created[r], None)
  BY <1>1, <1>3, <1>6 DEF RunFits, SamePatches
<1>9. QED
  BY <1>1, <1>2, <1>6, <1>7, <1>8, RunThere, RunStored

\* A tool that answers brings its run on by one place of its plan.
LEMMA ExecuteKeeps ==
  ASSUME AgentsInv, NEW r \in Run, Agents!ExecuteTool(r)
  PROVE  AgentsInv'
<1>1. loop[r] # None /\ run[r] # None
  BY DEF Agents!ExecuteTool, Agents!InLoop, AgentsInv
<1>2. PICK row \in Agents!AgentRun, made \in Seq(Run \X Nat), l \in Nat :
        row = run[r] /\ made = created[r] /\ l = loop[r]
  BY <1>1, RunThere
<1>3. RunFits(row, made, l) /\ l # None
  BY <1>1, <1>2, RunThere
<1>4. SamePatches(row, made) /\ row.status # "COMPLETED" /\ Progress(row, made, l)
  BY <1>3 DEF RunFits
<1>5. PICK n \in Nat : n = Len(row.steps)
  BY RunFields
<1>6. PICK step : step = Agents!Plan(row.kind)[n + 1]
  OBVIOUS
<1>7. PICK tool : tool = step[l + 1]
  OBVIOUS
<1>8. n + 1 = Agents!StepNumber(r) /\ step = Agents!Tools(r)
  BY <1>2, <1>5, <1>6 DEF Agents!StepNumber, Agents!Tools
<1>9. PICK patch : patch = <<r, Len(made) + 1>>
  OBVIOUS
<1>10. PICK new :
         new = [row EXCEPT !.iterations = n + 1,
                  !.sandboxed = IF tool \in Agents!Sandboxed THEN @ + 1 ELSE @,
                  !.patches = IF tool = "create_patch" THEN Append(@, [id |-> patch, applied |-> FALSE]) ELSE @,
                  !.branch = @ \/ tool = "create_branch",
                  !.steps = IF l + 1 = Len(step) THEN Append(@, step) ELSE @]
  OBVIOUS
<1>11. PICK newMade, k : /\ newMade = IF tool = "create_patch" THEN Append(made, patch) ELSE made
                         /\ k = IF l + 1 = Len(step) THEN 0 ELSE l + 1
  OBVIOUS
<1>12. /\ run' = [run EXCEPT ![r] = new]
       /\ loop' = [loop EXCEPT ![r] = k]
       /\ created' = IF tool = "create_patch" THEN [created EXCEPT ![r] = newMade] ELSE created
  BY <1>2, <1>7, <1>8, <1>9, <1>10, <1>11 DEF Agents!ExecuteTool
<1>13. created' = [created EXCEPT ![r] = newMade]
  BY <1>1, <1>2, <1>11, <1>12, RunThere
<1>14. n < Len(Agents!Plan(row.kind)) /\ n + 1 <= row.limit
  <2>1. n + 1 <= Len(Agents!Plan(row.kind)) /\ (l = 0 => n + 1 <= row.limit)
    BY <1>2, <1>8 DEF Agents!ExecuteTool, Agents!StepsLeft, Agents!WithinLimit
  <2>2. Len(Agents!Plan(row.kind)) \in Nat
    BY RunFields, PlanShape
  <2>3. l > 0 => n + 1 <= row.limit
    BY <1>4, <1>5 DEF Progress
  <2>4. QED
    BY <2>1, <2>2, <2>3
<1>15. step \in Seq(Agents!Tool) /\ Len(step) \in 1 .. 2
  <2>1. Len(Agents!Plan(row.kind)) \in Nat
    BY RunFields, PlanShape
  <2>2. n + 1 \in 1 .. Len(Agents!Plan(row.kind))
    BY <1>14, <2>1
  <2>3. QED
    BY <1>6, <2>2, RunFields, PlanShape
<1>16. /\ new.kind = row.kind /\ new.limit = row.limit /\ new.status = row.status
       /\ new.sandboxed = IF tool \in Agents!Sandboxed THEN row.sandboxed + 1 ELSE row.sandboxed
       /\ new.branch <=> row.branch \/ tool = "create_branch"
       /\ new.steps = IF l + 1 = Len(step) THEN Append(row.steps, step) ELSE row.steps
       /\ new.patches = IF tool = "create_patch" THEN Append(row.patches, [id |-> patch, applied |-> FALSE])
                        ELSE row.patches
  BY <1>10 DEF Agents!AgentRun
<1>17. Progress(new, newMade, k)
  <2>1. ToolDone(row, made, l, new, newMade, k)
    BY <1>5, <1>6, <1>7, <1>11, <1>14, <1>16 DEF ToolDone
  <2>2. QED
    BY <1>4, <2>1, ToolProgress
<1>18. patch \in Run \X Nat /\ newMade \in Seq(Run \X Nat) /\ k \in Nat
  BY <1>9, <1>11
<1>19. new \in Agents!AgentRun
  <2>1. PICK steps, sandboxed, patches, branch :
          /\ steps = IF l + 1 = Len(step) THEN Append(row.steps, step) ELSE row.steps
          /\ sandboxed = IF tool \in Agents!Sandboxed THEN row.sandboxed + 1 ELSE row.sandboxed
          /\ patches = IF tool = "create_patch" THEN Append(row.patches, [id |-> patch, applied |-> FALSE])
                       ELSE row.patches
          /\ branch = (row.branch \/ tool = "create_branch")
    OBVIOUS
  <2>2. steps \in Seq(Seq(Agents!Tool))
    BY <1>15, <2>1, RunFields
  <2>3. sandboxed \in Nat /\ branch \in BOOLEAN /\ n + 1 \in Nat
    BY <2>1, RunFields
  <2>4. patches \in Seq([id : Run \X Nat, applied : BOOLEAN])
    <3>1. PICK p \in [id : Run \X Nat, applied : BOOLEAN] : p = [id |-> patch, applied |-> FALSE]
      BY <1>18
    <3>2. row.patches \in Seq([id : Run \X Nat, applied : BOOLEAN])
      BY RunFields
    <3>3. Append(row.patches, p) \in Seq([id : Run \X Nat, applied : BOOLEAN])
      BY <3>2
    <3>4. patches = IF tool = "create_patch" THEN Append(row.patches, p) ELSE row.patches
      BY <2>1, <3>1
    <3>5. CASE tool = "create_patch"
      BY <3>3, <3>4, <3>5, Zenon
    <3>6. CASE tool # "create_patch"
      BY <3>2, <3>4, <3>6, Zenon
    <3>7. QED
      BY <3>5, <3>6
  <2>5. new = [row EXCEPT !.iterations = n + 1, !.sandboxed = sandboxed, !.patches = patches, !.branch = branch,
                          !.steps = steps]
    BY <1>10, <2>1
  <2>6. QED
    BY <2>2, <2>3, <2>4, <2>5 DEF Agents!AgentRun
<1>20. SamePatches(new, newMade)
  <2>1. row.patches \in Seq([id : Run \X Nat, applied : BOOLEAN])
    BY RunFields
  <2>2. CASE tool = "create_patch"
    <3>0. PICK p : p = [id |-> patch, applied |-> FALSE]
      OBVIOUS
    <3>1. p = [id |-> patch, applied |-> FALSE] /\ p.id = patch
      BY <3>0
    <3>2. new.patches = Append(row.patches, p) /\ newMade = Append(made, patch)
      BY <1>11, <1>16, <2>2, <3>1
    <3>3. p \in [id : Run \X Nat, applied : BOOLEAN]
      BY <1>18, <3>1
    <3>4. QED
      BY <1>4, <1>18, <2>1, <3>1, <3>2, <3>3 DEF SamePatches
  <2>3. CASE tool # "create_patch"
    BY <1>4, <1>11, <1>16, <2>3 DEF SamePatches
  <2>4. QED
    BY <2>2, <2>3
<1>21. RunFits(new, newMade, k)
  BY <1>4, <1>16, <1>17, <1>20 DEF RunFits
<1>22. QED
  BY <1>12, <1>13, <1>18, <1>19, <1>21, RunStored

\* The end of the plan.
LEMMA CompleteKeeps ==
  ASSUME AgentsInv, NEW r \in Run, Agents!CompleteRun(r)
  PROVE  AgentsInv'
<1>1. /\ loop[r] # None /\ ~Agents!StepsLeft(r) /\ run' = [run EXCEPT ![r].status = "COMPLETED"]
      /\ loop' = [loop EXCEPT ![r] = None] /\ created' = created
  BY DEF Agents!CompleteRun, Agents!Throw, Agents!InLoop
<1>2. run[r] # None
  BY <1>1 DEF AgentsInv
<1>3. PICK row \in Agents!AgentRun, made \in Seq(Run \X Nat), l \in Nat :
        row = run[r] /\ made = created[r] /\ l = loop[r] /\ RunFits(row, made, l)
  BY <1>1, <1>2, RunThere
<1>4. SamePatches(row, made) /\ Progress(row, made, l)
  BY <1>1, <1>3 DEF RunFits
<1>5. PICK n \in Nat : n = Len(row.steps)
  BY RunFields
<1>6. n = Len(Agents!Plan(row.kind)) /\ l = 0
  <2>1. ~(n + 1 <= Len(Agents!Plan(row.kind)))
    BY <1>1, <1>3, <1>5 DEF Agents!StepsLeft, Agents!StepNumber
  <2>2. Len(Agents!Plan(row.kind)) \in Nat
    BY RunFields, PlanShape
  <2>3. n <= Len(Agents!Plan(row.kind)) /\ (l > 0 => n < Len(Agents!Plan(row.kind)))
    BY <1>4, <1>5 DEF Progress
  <2>4. QED
    BY <2>1, <2>2, <2>3
<1>7. PICK new : new = [row EXCEPT !.status = "COMPLETED"]
  OBVIOUS
<1>8. /\ new \in Agents!AgentRun /\ new.status = "COMPLETED" /\ new.patches = row.patches /\ new.kind = row.kind
      /\ new.steps = row.steps /\ new.limit = row.limit /\ new.sandboxed = row.sandboxed /\ new.branch = row.branch
  BY <1>7 DEF Agents!AgentRun
<1>9. run' = [run EXCEPT ![r] = new]
  BY <1>1, <1>3, <1>7
<1>10. Progress(new, made, 0)
  BY <1>4, <1>6, <1>8, ProgressReads
<1>11. RunFits(new, made, None)
  BY <1>4, <1>5, <1>6, <1>8, <1>10 DEF RunFits, SamePatches
<1>12. created' = [created EXCEPT ![r] = made]
  BY <1>1, <1>2, <1>3, RunThere
<1>13. QED
  BY <1>1, <1>8, <1>9, <1>11, <1>12, RunStored

\* What is asked of a run from outside leaves its books alone.
LEMMA OrderKept ==
  ASSUME AgentsInv, NEW r \in Run, run[r] # None, NEW new \in Agents!AgentRun, run' = [run EXCEPT ![r] = new],
         UNCHANGED <<loop, created>>,
         new.kind = run[r].kind, new.steps = run[r].steps, new.limit = run[r].limit,
         new.sandboxed = run[r].sandboxed, new.branch = run[r].branch,
         new.status = run[r].status \/ new.status = "CANCELLED",
         Len(new.patches) = Len(run[r].patches), \A i \in 1 .. Len(new.patches) : new.patches[i].id = run[r].patches[i].id
  PROVE  AgentsInv'
<1>1. PICK row \in Agents!AgentRun, made \in Seq(Run \X Nat), l \in Nat \cup {None} :
        row = run[r] /\ made = created[r] /\ l = loop[r] /\ RunFits(row, made, l)
  BY RunThere
<1>2. SamePatches(new, made)
  BY <1>1 DEF RunFits, SamePatches
<1>3. \A i : Progress(row, made, i) => Progress(new, made, i)
  BY <1>1, ProgressReads
<1>4. RunFits(new, made, l)
  <2>1. l # None => new.status # "COMPLETED" /\ Progress(new, made, l)
    BY <1>1, <1>3 DEF RunFits
  <2>2. new.status = "COMPLETED" => Progress(new, made, 0) /\ Len(new.steps) = Len(Agents!Plan(new.kind))
    BY <1>1, <1>3 DEF RunFits
  <2>3. QED
    BY <1>2, <2>1, <2>2 DEF RunFits
<1>5. loop' = [loop EXCEPT ![r] = l] /\ created' = [created EXCEPT ![r] = made]
  BY <1>1, RunThere
<1>6. QED
  BY <1>1, <1>4, <1>5, RunStored

LEMMA OrdersKeep ==
  ASSUME AgentsInv, NEW r \in Run,
         Agents!CancelRun(r) \/ Agents!ApplyPatch(r) \/ Agents!CreatePullRequestFromRun(r)
  PROVE  AgentsInv'
<1>1. run[r] # None /\ UNCHANGED <<loop, created>>
  BY DEF Agents!CancelRun, Agents!ApplyPatch, Agents!CreatePullRequestFromRun
<1>2. PICK row \in Agents!AgentRun : row = run[r]
  BY <1>1, RunThere
<1>3. CASE Agents!CancelRun(r)
  <2>1. PICK new : new = [row EXCEPT !.status = "CANCELLED"]
    OBVIOUS
  <2>2. run' = [run EXCEPT ![r] = new]
    BY <1>2, <1>3, <2>1 DEF Agents!CancelRun
  <2>3. /\ new \in Agents!AgentRun /\ new.status = "CANCELLED" /\ new.patches = row.patches /\ new.kind = row.kind
        /\ new.steps = row.steps /\ new.limit = row.limit /\ new.sandboxed = row.sandboxed /\ new.branch = row.branch
    BY <2>1 DEF Agents!AgentRun
  <2>4. QED
    BY <1>1, <1>2, <2>2, <2>3, OrderKept
<1>4. CASE Agents!CreatePullRequestFromRun(r)
  <2>1. PICK new : new = [row EXCEPT !.pullRequest = TRUE]
    OBVIOUS
  <2>2. run' = [run EXCEPT ![r] = new]
    BY <1>2, <1>4, <2>1 DEF Agents!CreatePullRequestFromRun
  <2>3. /\ new \in Agents!AgentRun /\ new.status = row.status /\ new.patches = row.patches /\ new.kind = row.kind
        /\ new.steps = row.steps /\ new.limit = row.limit /\ new.sandboxed = row.sandboxed /\ new.branch = row.branch
    BY <2>1 DEF Agents!AgentRun
  <2>4. QED
    BY <1>1, <1>2, <2>2, <2>3, OrderKept
<1>5. CASE Agents!ApplyPatch(r)
  <2>1. PICK i \in DOMAIN row.patches : run' = [run EXCEPT ![r].patches[i].applied = TRUE]
    BY <1>2, <1>5 DEF Agents!ApplyPatch
  <2>2. PICK old \in Seq([id : Run \X Nat, applied : BOOLEAN]) : old = row.patches
    BY RunFields
  <2>3. PICK patches : patches = [old EXCEPT ![i].applied = TRUE]
    OBVIOUS
  <2>4. /\ patches \in Seq([id : Run \X Nat, applied : BOOLEAN]) /\ Len(patches) = Len(old)
        /\ \A j \in 1 .. Len(patches) : patches[j].id = old[j].id
    <3>1. i \in 1 .. Len(old)
      BY <2>1, <2>2
    <3>2. old[i] \in [id : Run \X Nat, applied : BOOLEAN]
      <4>1. PICK Rec : Rec = [id : Run \X Nat, applied : BOOLEAN]
        OBVIOUS
      <4>2. old \in Seq(Rec)
        BY <4>1, Zenon
      <4>3. old[i] \in Rec
        BY <3>1, <4>2
      <4>4. QED
        BY <4>1, <4>3
    <3>3. PICK mark : mark = [old[i] EXCEPT !.applied = TRUE]
      OBVIOUS
    <3>4. mark \in [id : Run \X Nat, applied : BOOLEAN] /\ mark.id = old[i].id
      BY <3>2, <3>3
    <3>5. patches = [old EXCEPT ![i] = mark]
      BY <2>3, <3>3
    <3>6. patches \in Seq([id : Run \X Nat, applied : BOOLEAN]) /\ Len(patches) = Len(old)
      <4>1. PICK Rec : Rec = [id : Run \X Nat, applied : BOOLEAN]
        OBVIOUS
      <4>2. old \in Seq(Rec) /\ mark \in Rec
        BY <3>4, <4>1
      <4>3. patches \in Seq(Rec) /\ Len(patches) = Len(old)
        BY <3>1, <3>5, <4>2
      <4>4. QED
        BY <4>1, <4>3
    <3>7. \A j \in 1 .. Len(old) : patches[j] = IF j = i THEN mark ELSE old[j]
      BY <3>1, <3>5
    <3>8. QED
      BY <3>4, <3>6, <3>7
  <2>5. PICK new : new = [row EXCEPT !.patches = patches]
    OBVIOUS
  <2>6. run' = [run EXCEPT ![r] = new]
    BY <1>2, <2>1, <2>2, <2>3, <2>5
  <2>7. /\ new \in Agents!AgentRun /\ new.status = row.status /\ new.patches = patches /\ new.kind = row.kind
        /\ new.steps = row.steps /\ new.limit = row.limit /\ new.sandboxed = row.sandboxed /\ new.branch = row.branch
    BY <2>4, <2>5 DEF Agents!AgentRun
  <2>8. QED
    BY <1>1, <1>2, <2>2, <2>4, <2>6, <2>7, OrderKept
<1>6. QED
  BY <1>3, <1>4, <1>5

LEMMA AgentsStep == AgentsInv /\ [Next]_vars => AgentsInv'
<1> SUFFICES ASSUME AgentsInv, [Next]_vars PROVE AgentsInv'
  OBVIOUS
<1>1. Agents!Next \/ UNCHANGED agentsVars
  BY DEF Next, vars
<1>2. CASE UNCHANGED agentsVars
  BY <1>2 DEF agentsVars, AgentsInv, AgentsTyped
<1>3. CASE Agents!Next
  <2>1. PICK r \in Run :
          \/ \E kind \in Agents!Kinds, role \in Role, n \in Requested, refused \in BOOLEAN :
               Agents!DispatchAgent(r, kind, role, n, refused)
          \/ Agents!LoopStep(r)
          \/ Agents!CancelRun(r) \/ Agents!ApplyPatch(r) \/ Agents!CreatePullRequestFromRun(r)
    BY <1>3 DEF Agents!Next
  <2>2. QED
    BY <2>1, DispatchKeeps, ThrowKeeps, ExecuteKeeps, CompleteKeeps, OrdersKeep DEF Agents!LoopStep
<1>4. QED
  BY <1>1, <1>2, <1>3

\* A sequence is the function of its elements.
LEMMA SequenceIsFunction ==
  ASSUME NEW S, NEW seq \in Seq(S)
  PROVE  seq = [i \in 1 .. Len(seq) |-> seq[i]]
  OBVIOUS

\* A run is COMPLETED only when all it had planned is done, within its limit,
\* and it carries all of it, whatever was asked of it in between.
THEOREM CompletedRunsAreWhole == Spec => []CompletedRunIsWhole
<1>1. Init => AgentsInv
  BY AgentsInit DEF Init
<1>2. AgentsInv => CompletedRunIsWhole
  <2> SUFFICES ASSUME AgentsInv, NEW r \in Run, run[r] # None, run[r].status = "COMPLETED"
               PROVE  /\ run[r].steps = Agents!Plan(run[r].kind) /\ Len(run[r].steps) <= run[r].limit
                      /\ [i \in DOMAIN run[r].patches |-> run[r].patches[i].id] = created[r]
                      /\ Len(created[r]) = Agents!Occurrences({"create_patch"}, run[r].kind)
                      /\ run[r].sandboxed = Agents!Occurrences(Agents!Sandboxed, run[r].kind)
                      /\ run[r].branch = (Agents!Occurrences({"create_branch"}, run[r].kind) > 0)
    BY DEF CompletedRunIsWhole, Agents!CompletedRunIsWhole
  <2>1. PICK row \in Agents!AgentRun, made \in Seq(Run \X Nat) :
          row = run[r] /\ made = created[r] /\ RunFits(row, made, loop[r])
    BY RunThere
  <2>2. SamePatches(row, made) /\ Progress(row, made, 0) /\ Len(row.steps) = Len(Agents!Plan(row.kind))
    BY <2>1 DEF RunFits
  <2>3. PICK kind \in Agents!Kinds : kind = row.kind
    BY RunFields
  <2>4. \A tools : Agents!Occurrences(tools, kind) = Cardinality(Places(kind, tools))
    BY SameAgentsCardinality DEF Agents!Occurrences, Places
  <2>5. PICK n : n = Len(row.steps)
    OBVIOUS
  <2>6. /\ \A i \in 1 .. n : row.steps[i] = Agents!Plan(kind)[i]
        /\ n <= row.limit
        /\ Len(made) = Cardinality(Passed(kind, n, 0, {"create_patch"}))
        /\ row.sandboxed = Cardinality(Passed(kind, n, 0, Agents!Sandboxed))
        /\ row.branch <=> Passed(kind, n, 0, {"create_branch"}) # {}
    BY <2>2, <2>3, <2>5 DEF Progress
  <2>7. n = Len(Agents!Plan(kind))
    BY <2>2, <2>3, <2>5
  <2>8. \A tools : Passed(kind, n, 0, tools) = Places(kind, tools)
    BY <2>7, PassedEnds
  <2>9. row.steps = Agents!Plan(kind)
    <3>1. row.steps \in Seq(Seq(Agents!Tool)) /\ Agents!Plan(kind) \in Seq(Seq(Agents!Tool))
      BY RunFields, PlanShape
    <3>2. row.steps = [i \in 1 .. n |-> row.steps[i]]
      BY <2>5, <3>1, SequenceIsFunction
    <3>3. Agents!Plan(kind) = [i \in 1 .. n |-> Agents!Plan(kind)[i]]
      BY <2>7, <3>1, SequenceIsFunction
    <3>4. [i \in 1 .. n |-> row.steps[i]] = [i \in 1 .. n |-> Agents!Plan(kind)[i]]
      BY <2>6
    <3>5. QED
      BY <3>2, <3>3, <3>4, Zenon
  <2>10. Len(made) = Agents!Occurrences({"create_patch"}, kind) /\ row.sandboxed = Agents!Occurrences(Agents!Sandboxed, kind)
    BY <2>4, <2>6, <2>8, Zenon
  <2>11. row.branch = (Agents!Occurrences({"create_branch"}, kind) > 0)
    <3>1. PICK places : places = Passed(kind, n, 0, {"create_branch"})
      OBVIOUS
    <3>2. Cardinality(places) \in Nat /\ (Cardinality(places) = 0 <=> places = {})
      BY <3>1, PassedFinite
    <3>3. Agents!Occurrences({"create_branch"}, kind) = Cardinality(places)
      BY <2>4, <2>8, <3>1, Zenon
    <3>4. row.branch \in BOOLEAN
      BY DEF Agents!AgentRun
    <3>5. row.branch <=> Cardinality(places) > 0
      BY <2>6, <3>1, <3>2
    <3>6. QED
      BY <3>3, <3>4, <3>5
  <2>12. [i \in DOMAIN row.patches |-> row.patches[i].id] = made
    <3>1. row.patches \in Seq([id : Run \X Nat, applied : BOOLEAN])
      BY RunFields
    <3>2. DOMAIN row.patches = 1 .. Len(made) /\ \A i \in 1 .. Len(made) : row.patches[i].id = made[i]
      BY <2>2, <3>1 DEF SamePatches
    <3>3. made = [i \in 1 .. Len(made) |-> made[i]]
      OBVIOUS
    <3>4. [i \in DOMAIN row.patches |-> row.patches[i].id] = [i \in 1 .. Len(made) |-> made[i]]
      BY <3>2
    <3>5. QED
      BY <3>3, <3>4, Zenon
  <2>13. QED
    BY <2>1, <2>3, <2>5, <2>6, <2>9, <2>10, <2>11, <2>12
<1>3. QED
  BY <1>1, <1>2, AgentsStep, PTL DEF Spec
=============================================================================
