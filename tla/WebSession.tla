----------------------------- MODULE WebSession -----------------------------
(***************************************************************************)
(* AuthContext of the web application: who is signed in, in every open tab *)
(* and in the localStorage they share.  A sign-in, a registration and a    *)
(* sign-out wait for the server, and more than one may be waiting.  An     *)
(* account is its user; its tokens carry the account they were issued for. *)
(***************************************************************************)
EXTENDS Naturals

CONSTANTS Tab, Account,
          Default, \* the account seeded when storage holds no session
          Demo,    \* DEMO_ACCOUNTS, which sign in without a server
          None

VARIABLES tab,     \* tab[t]: user, tokens and isLoading; None before it is loaded
          storage, \* localStorage: devflow_user and devflow_tokens
          signIn,  \* signIn[t]: the account of the login under way, None
          signUp,  \* signUp[t]: the same of a registration
          leaving, \* tabs whose logout waits for the server
          mixed    \* history: a user was stored by itself next to another's tokens

vars == <<tab, storage, signIn, signUp, leaving, mixed>>

Session(a) == [user |-> a, tokens |-> a]
Loaded(a) == [user |-> a, tokens |-> a, isLoading |-> FALSE]
SignedOut == Session(None)

Init ==
  /\ tab = [t \in Tab |-> None]
  /\ storage = SignedOut
  /\ signIn = [t \in Tab |-> None] /\ signUp = [t \in Tab |-> None]
  /\ leaving = {}
  /\ mixed = FALSE

-----------------------------------------------------------------------------
\* The effect of AuthProvider when a page is loaded, or loaded again, which
\* forgets what was under way: the stored session, if it is whole.
Stored == storage.user # None /\ storage.tokens # None

LoadPage(t) ==
  /\ storage' = IF Stored THEN storage ELSE Session(Default)
  /\ tab' = [tab EXCEPT ![t] = [user |-> storage'.user, tokens |-> storage'.tokens, isLoading |-> FALSE]]
  /\ signIn' = [signIn EXCEPT ![t] = None] /\ signUp' = [signUp EXCEPT ![t] = None]
  /\ leaving' = leaving \ {t}
  /\ UNCHANGED mixed

Ready(t) == tab[t] # None

Login(t, a) ==
  /\ Ready(t) /\ signIn[t] = None
  /\ signIn' = [signIn EXCEPT ![t] = a]
  /\ tab' = [tab EXCEPT ![t].isLoading = TRUE]
  /\ UNCHANGED <<storage, signUp, leaving, mixed>>

Register(t, a) ==
  /\ Ready(t) /\ signUp[t] = None
  /\ signUp' = [signUp EXCEPT ![t] = a]
  /\ tab' = [tab EXCEPT ![t].isLoading = TRUE]
  /\ UNCHANGED <<storage, signIn, leaving, mixed>>

\* What ends a sign-in: user and tokens, in the tab and in storage.
SignedIn(t, a) == tab' = [tab EXCEPT ![t] = Loaded(a)] /\ storage' = Session(a)

LoginSucceeds(t) ==
  /\ signIn[t] # None
  /\ SignedIn(t, signIn[t])
  /\ signIn' = [signIn EXCEPT ![t] = None]
  /\ UNCHANGED <<signUp, leaving, mixed>>

\* A refusal and a network error alike: a demo account gets in, any other
\* attempt only stops loading.
LoginFails(t) ==
  /\ signIn[t] # None
  /\ IF signIn[t] \in Demo THEN SignedIn(t, signIn[t])
     ELSE tab' = [tab EXCEPT ![t].isLoading = FALSE] /\ UNCHANGED storage
  /\ signIn' = [signIn EXCEPT ![t] = None]
  /\ UNCHANGED <<signUp, leaving, mixed>>

\* Whatever the server answers, or whether it does.
RegisterSettles(t) ==
  /\ signUp[t] # None
  /\ SignedIn(t, signUp[t])
  /\ signUp' = [signUp EXCEPT ![t] = None]
  /\ UNCHANGED <<signIn, leaving, mixed>>

\* Fault variant of Cleared: the tokens stay in storage.
ClearedUser(t) ==
  /\ tab' = [tab EXCEPT ![t].user = None, ![t].tokens = None]
  /\ storage' = [storage EXCEPT !.user = None]

Cleared(t) ==
  /\ tab' = [tab EXCEPT ![t] = [user |-> None, tokens |-> None, isLoading |-> @.isLoading]]
  /\ storage' = SignedOut

Logout(t) ==
  /\ Ready(t) /\ t \notin leaving
  /\ IF tab[t].tokens # None
     THEN leaving' = leaving \cup {t} /\ UNCHANGED <<tab, storage>>
     ELSE Cleared(t) /\ UNCHANGED leaving
  /\ UNCHANGED <<signIn, signUp, mixed>>

\* The finally block, whatever became of the request.
LogoutSettles(t) ==
  /\ t \in leaving
  /\ Cleared(t)
  /\ leaving' = leaving \ {t}
  /\ UNCHANGED <<signIn, signUp, mixed>>

\* updateProfile and switchDemoRole store a user and leave the tokens.
StoreUser(t, a) ==
  /\ tab' = [tab EXCEPT ![t].user = a]
  /\ storage' = [storage EXCEPT !.user = a]
  /\ mixed' = (mixed \/ a # tab[t].tokens \/ a # storage.tokens)
  /\ UNCHANGED <<signIn, signUp, leaving>>

UpdateProfile(t) == Ready(t) /\ tab[t].user # None /\ StoreUser(t, tab[t].user)
SwitchDemoRole(t, a) == Ready(t) /\ a \in Demo /\ StoreUser(t, a)

Next == \E t \in Tab :
  \/ LoadPage(t)
  \/ \E a \in Account : Login(t, a) \/ Register(t, a) \/ SwitchDemoRole(t, a)
  \/ LoginSucceeds(t) \/ LoginFails(t) \/ RegisterSettles(t)
  \/ Logout(t) \/ LogoutSettles(t) \/ UpdateProfile(t)

Spec == Init /\ [][Next]_vars

-----------------------------------------------------------------------------
(***************************************************************************)
(* Properties                                                              *)
(***************************************************************************)
\* Types, of every tab, of what they share and of what they wait for.
TypeOK ==
  /\ tab \in [Tab -> [user : Account \cup {None}, tokens : Account \cup {None}, isLoading : BOOLEAN] \cup {None}]
  /\ storage \in [user : Account \cup {None}, tokens : Account \cup {None}]
  /\ signIn \in [Tab -> Account \cup {None}] /\ signUp \in [Tab -> Account \cup {None}]
  /\ leaving \subseteq Tab /\ mixed \in BOOLEAN

\* Tokens are never left behind without a user, in a tab or in storage; a
\* loaded tab shows its spinner only while a request of it is under way; and
\* the tokens are those of the user shown, over any overlap of sign-ins and
\* sign-outs in any tabs, unless a user was once stored by itself: by the
\* demo role switch, or by a profile update under another tab's session.
SessionIsWhole ==
  /\ storage.tokens # None => storage.user # None
  /\ \A t \in Tab : Ready(t) =>
       /\ tab[t].tokens # None => tab[t].user # None
       /\ tab[t].isLoading => signIn[t] # None \/ signUp[t] # None
       /\ ~mixed => tab[t].user = tab[t].tokens
  /\ ~mixed => storage.user = storage.tokens
=============================================================================
