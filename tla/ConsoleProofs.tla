---------------------------- MODULE ConsoleProofs ----------------------------
(***************************************************************************)
(* The pages of the web console: what each of them promises holds whatever *)
(* the user clicks, however long its timers and the server take, and for   *)
(* any numbers of tabs, conversations, jobs, runs, workspaces, members and *)
(* repositories.                                                           *)
(*                                                                         *)
(* A page has an invariant of its own, with three facts about it: it holds *)
(* in the initial states, a step of the page preserves it (XStep), and so  *)
(* does a step of another page (XKept).  A fourth says what follows from   *)
(* it (XPromises).                                                         *)
(***************************************************************************)
EXTENDS MCConsole, CollaborationProofs

-----------------------------------------------------------------------------
(***************************************************************************)
(* The elements of a list that a filter keeps                              *)
(***************************************************************************)
\* sofar lists the parts of s that are kept of its first n elements.
KeptUpTo(s, keep, n, sofar) ==
  sofar = [i \in 0 .. n |-> IF i = 0 THEN <<>>
                            ELSE IF i \in keep THEN Append(sofar[i - 1], s[i])
                            ELSE sofar[i - 1]]

\* The equation of such a function, value by value.
LEMMA KeptStep ==
  ASSUME NEW s, NEW keep, NEW n \in Nat, NEW sofar, KeptUpTo(s, keep, n, sofar)
  PROVE  /\ sofar[0] = <<>>
         /\ \A i \in 1 .. n : sofar[i] = IF i \in keep THEN Append(sofar[i - 1], s[i]) ELSE sofar[i - 1]
<1>1. \A i \in 0 .. n : sofar[i] = IF i = 0 THEN <<>>
                                   ELSE IF i \in keep THEN Append(sofar[i - 1], s[i])
                                   ELSE sofar[i - 1]
  BY Zenon DEF KeptUpTo
<1>2. 0 \in 0 .. n /\ \A i \in 1 .. n : i \in 0 .. n /\ i # 0
  OBVIOUS
<1>3. QED
  BY <1>1, <1>2

\* Kept is the last of the values of such a function.
LEMMA KeptIs ==
  ASSUME NEW T, NEW s \in Seq(T), NEW keep
  PROVE  \E sofar : KeptUpTo(s, keep, Len(s), sofar) /\ Kept(s, keep) = sofar[Len(s)]
<1>1. PICK n : n = Len(s)
  OBVIOUS
<1>2. n \in Nat /\ \A i \in 1 .. n : s[i] \in T
  BY <1>1
<1>3. PICK next : next = [x \in (1 .. n) \X Seq(T) |-> IF x[1] \in keep THEN Append(x[2], s[x[1]]) ELSE x[2]]
  OBVIOUS
<1>4. \A i \in 1 .. n : \A part \in Seq(T) :
        next[<<i, part>>] = IF i \in keep THEN Append(part, s[i]) ELSE part
  BY <1>3
<1>5. next \in [(1 .. n) \X Seq(T) -> Seq(T)]
  <2>1. ASSUME NEW x \in (1 .. n) \X Seq(T)
        PROVE  (IF x[1] \in keep THEN Append(x[2], s[x[1]]) ELSE x[2]) \in Seq(T)
    <3>1. x[1] \in 1 .. n /\ x[2] \in Seq(T)
      OBVIOUS
    <3>2. s[x[1]] \in T
      BY <1>2, <3>1
    <3>3. QED
      BY <3>1, <3>2
  <2>2. QED
    BY <1>3, <2>1
<1>6. <<>> \in Seq(T)
  OBVIOUS
<1>7. PICK f \in [0 .. n -> Seq(T)] : f[0] = <<>> /\ \A i \in 1 .. n : f[i] = next[<<i, f[i - 1]>>]
  <2>1. \E f : Recursion(f, Seq(T), <<>>, n, next)
    BY <1>2, <1>5, <1>6, RecursionExists
  <2>2. QED
    BY <2>1, Zenon DEF Recursion
<1>8. \A i \in 0 .. n : f[i] = IF i = 0 THEN <<>>
                               ELSE IF i \in keep THEN Append(f[i - 1], s[i])
                               ELSE f[i - 1]
  <2> TAKE i \in 0 .. n
  <2>1. CASE i = 0
    BY <1>7, <2>1
  <2>2. CASE i # 0
    <3>1. i \in 1 .. n /\ i - 1 \in 0 .. n
      BY <1>2, <2>2
    <3>2. f[i - 1] \in Seq(T)
      BY <1>7, <3>1
    <3>3. f[i] = next[<<i, f[i - 1]>>]
      BY <1>7, <3>1
    <3>4. QED
      BY <1>4, <2>2, <3>1, <3>2, <3>3
  <2>3. QED
    BY <2>1, <2>2
<1>9. f = [i \in 0 .. n |-> f[i]]
  BY <1>7
<1>10. [i \in 0 .. n |-> f[i]] = [i \in 0 .. n |-> IF i = 0 THEN <<>>
                                                   ELSE IF i \in keep THEN Append(f[i - 1], s[i])
                                                   ELSE f[i - 1]]
  BY <1>8
<1>11. KeptUpTo(s, keep, n, f)
  BY <1>9, <1>10, Zenon DEF KeptUpTo
<1>12. PICK g : g = CHOOSE sofar : sofar =
         [i \in 0 .. Len(s) |-> IF i = 0 THEN <<>>
                                ELSE IF i \in keep THEN Append(sofar[i - 1], s[i])
                                ELSE sofar[i - 1]]
  OBVIOUS
<1>13. Kept(s, keep) = g[Len(s)]
  BY <1>12, Zenon DEF Kept
<1>14. KeptUpTo(s, keep, Len(s), g)
  <2>1. KeptUpTo(s, keep, Len(s), f)
    BY <1>1, <1>11
  <2>2. QED
    BY <1>12, <2>1, Zenon DEF KeptUpTo
<1>15. QED
  BY <1>13, <1>14

\* part has the kept ones of the first n elements of s, each once.
PartOf(part, s, keep, n) ==
  /\ \A i \in 1 .. Len(part) : \E j \in 1 .. n : j \in keep /\ part[i] = s[j]
  /\ \A j \in 1 .. n : j \in keep => \E i \in 1 .. Len(part) : part[i] = s[j]
  /\ \A i, k \in 1 .. Len(part) : i # k =>
       \E j, m \in 1 .. n : j # m /\ j \in keep /\ m \in keep /\ part[i] = s[j] /\ part[k] = s[m]

\* One more element is kept, or is not.
LEMMA PartGrows ==
  ASSUME NEW T, NEW s \in Seq(T), NEW keep, NEW n \in Nat, n + 1 \in 1 .. Len(s),
         NEW part \in Seq(T), PartOf(part, s, keep, n), NEW new,
         new = IF n + 1 \in keep THEN Append(part, s[n + 1]) ELSE part
  PROVE  new \in Seq(T) /\ PartOf(new, s, keep, n + 1)
<1>1. \A j \in 1 .. n : j \in 1 .. n + 1 /\ j # n + 1
  OBVIOUS
<1>2. CASE n + 1 \notin keep
  <2>1. new = part
    BY <1>2
  <2>2. \A j \in 1 .. n + 1 : j \in keep => j \in 1 .. n
    BY <1>2
  <2>3. QED
    BY <1>1, <2>1, <2>2 DEF PartOf
<1>3. CASE n + 1 \in keep
  <2>1. s[n + 1] \in T /\ n + 1 \in 1 .. n + 1
    OBVIOUS
  <2>2. PICK l : l = Len(part)
    OBVIOUS
  <2>3. /\ new \in Seq(T) /\ Len(new) = l + 1 /\ new[l + 1] = s[n + 1] /\ l \in Nat
        /\ \A i \in 1 .. l : new[i] = part[i]
    BY <1>3, <2>1, <2>2
  <2>4. \A i \in 1 .. l : \E j \in 1 .. n : j \in keep /\ new[i] = s[j]
    BY <2>2, <2>3 DEF PartOf
  <2>5. \A i \in 1 .. Len(new) : i \in 1 .. l \/ i = l + 1
    BY <2>3
  <2>6. \A i \in 1 .. Len(new) : \E j \in 1 .. n + 1 : j \in keep /\ new[i] = s[j]
    BY <1>1, <1>3, <2>1, <2>3, <2>4, <2>5
  <2>7. ASSUME NEW j \in 1 .. n + 1, j \in keep PROVE \E i \in 1 .. Len(new) : new[i] = s[j]
    <3>1. CASE j = n + 1
      <4>1. l + 1 \in 1 .. Len(new)
        BY <2>3
      <4>2. QED
        BY <2>3, <3>1, <4>1
    <3>2. CASE j # n + 1
      <4>1. j \in 1 .. n
        BY <3>2
      <4>2. PICK i \in 1 .. l : part[i] = s[j]
        BY <2>2, <2>7, <4>1 DEF PartOf
      <4>3. i \in 1 .. Len(new)
        BY <2>3
      <4>4. QED
        BY <2>3, <4>2, <4>3
    <3>3. QED
      BY <3>1, <3>2
  <2>8. ASSUME NEW i \in 1 .. Len(new), NEW k \in 1 .. Len(new), i # k
        PROVE  \E j, m \in 1 .. n + 1 : j # m /\ j \in keep /\ m \in keep /\ new[i] = s[j] /\ new[k] = s[m]
    <3>1. CASE i \in 1 .. l /\ k \in 1 .. l
      <4>1. PICK j, m \in 1 .. n : j # m /\ j \in keep /\ m \in keep /\ part[i] = s[j] /\ part[k] = s[m]
        BY <2>2, <2>8, <3>1 DEF PartOf
      <4>2. QED
        BY <1>1, <2>3, <3>1, <4>1
    <3>2. CASE i = l + 1 /\ k \in 1 .. l
      <4>1. PICK m \in 1 .. n : m \in keep /\ new[k] = s[m]
        BY <2>4, <3>2
      <4>2. QED
        BY <1>1, <1>3, <2>1, <2>3, <3>2, <4>1
    <3>3. CASE k = l + 1 /\ i \in 1 .. l
      <4>1. PICK j \in 1 .. n : j \in keep /\ new[i] = s[j]
        BY <2>4, <3>3
      <4>2. QED
        BY <1>1, <1>3, <2>1, <2>3, <3>3, <4>1
    <3>4. QED
      BY <2>5, <2>8, <3>1, <3>2, <3>3
  <2>9. QED
    BY <2>3, <2>6, <2>7, <2>8 DEF PartOf
<1>4. QED
  BY <1>2, <1>3

\* Kept keeps the elements at the positions kept, those only, and each once.
LEMMA KeptIsPart ==
  ASSUME NEW T, NEW s \in Seq(T), NEW keep
  PROVE  Kept(s, keep) \in Seq(T) /\ PartOf(Kept(s, keep), s, keep, Len(s))
<1>1. PICK f : KeptUpTo(s, keep, Len(s), f) /\ Kept(s, keep) = f[Len(s)]
  BY KeptIs
<1>2. PICK n : n = Len(s)
  OBVIOUS
<1>3. n \in Nat
  BY <1>2
<1>4. /\ f[0] = <<>>
      /\ \A i \in 1 .. n : f[i] = IF i \in keep THEN Append(f[i - 1], s[i]) ELSE f[i - 1]
  BY <1>1, <1>2, <1>3, KeptStep
<1>5. PICK S : S = {m \in Nat : m <= n => f[m] \in Seq(T) /\ PartOf(f[m], s, keep, m)}
  OBVIOUS
<1>6. \A m \in Nat : m \in S <=> (m <= n => f[m] \in Seq(T) /\ PartOf(f[m], s, keep, m))
  BY <1>5
<1>7. 0 \in S
  <2>1. Len(<<>>) = 0 /\ <<>> \in Seq(T) /\ \A i : i \notin 1 .. 0
    OBVIOUS
  <2>2. PartOf(<<>>, s, keep, 0)
    BY <2>1 DEF PartOf
  <2>3. QED
    BY <1>4, <1>6, <2>1, <2>2
<1>8. ASSUME NEW m \in Nat, m \in S PROVE m + 1 \in S
  <2> SUFFICES ASSUME m + 1 <= n PROVE f[m + 1] \in Seq(T) /\ PartOf(f[m + 1], s, keep, m + 1)
    <3>1. m + 1 \in Nat
      OBVIOUS
    <3>2. QED
      BY <1>6, <3>1, Zenon
  <2>1. f[m] \in Seq(T) /\ PartOf(f[m], s, keep, m)
    <3>1. m <= n
      BY <1>3
    <3>2. QED
      BY <1>8, <1>6, <3>1
  <2>2. m + 1 \in 1 .. n /\ (m + 1) - 1 = m
    BY <1>3
  <2>3. f[m + 1] = IF m + 1 \in keep THEN Append(f[m], s[m + 1]) ELSE f[m]
    BY <1>4, <2>2
  <2>4. QED
    BY <1>2, <2>1, <2>2, <2>3, PartGrows
<1>9. n \in S
  BY <1>3, <1>7, <1>8, AllNumbers
<1>10. QED
  BY <1>1, <1>2, <1>3, <1>9, <1>6

\* A list with an element put before it.
IsInFront(new, x, s) ==
  /\ Len(new) = Len(s) + 1 /\ 1 \in DOMAIN new /\ new[1] = x
  /\ \A i \in DOMAIN new : new[i] = x \/ \E k \in DOMAIN s : new[i] = s[k]
  /\ \A k \in DOMAIN s : \E i \in DOMAIN new : new[i] = s[k]
  /\ (\A k \in DOMAIN s : s[k] # x) /\ (\A i, k \in DOMAIN s : s[i] = s[k] => i = k) =>
       \A i, k \in DOMAIN new : new[i] = new[k] => i = k

LEMMA InFront ==
  ASSUME NEW T, NEW s \in Seq(T), NEW x \in T, NEW new, new = <<x>> \o s
  PROVE  new \in Seq(T) /\ IsInFront(new, x, s)
<1>1. PICK n : n = Len(s)
  OBVIOUS
<1>2. n \in Nat /\ DOMAIN s = 1 .. n
  BY <1>1
<1>3. /\ new \in Seq(T) /\ Len(new) = n + 1 /\ DOMAIN new = 1 .. n + 1 /\ new[1] = x
      /\ \A i \in 2 .. n + 1 : i - 1 \in 1 .. n /\ new[i] = s[i - 1]
  BY <1>1, <1>2
<1>4. \A i \in 1 .. n + 1 : i = 1 \/ i \in 2 .. n + 1
  BY <1>2
<1>5. \A i \in DOMAIN new : new[i] = x \/ \E k \in DOMAIN s : new[i] = s[k]
  BY <1>2, <1>3, <1>4
<1>6. ASSUME NEW k \in DOMAIN s PROVE \E i \in DOMAIN new : new[i] = s[k]
  <2>1. k + 1 \in 2 .. n + 1 /\ (k + 1) - 1 = k /\ k + 1 \in 1 .. n + 1
    BY <1>2
  <2>2. QED
    BY <1>3, <2>1
<1>7. ASSUME \A k \in DOMAIN s : s[k] # x, \A i, k \in DOMAIN s : s[i] = s[k] => i = k,
             NEW i \in DOMAIN new, NEW k \in DOMAIN new, new[i] = new[k]
      PROVE  i = k
  <2>1. (i = 1 \/ i \in 2 .. n + 1) /\ (k = 1 \/ k \in 2 .. n + 1)
    BY <1>3, <1>4
  <2>2. CASE i = 1 /\ k \in 2 .. n + 1
    BY <1>2, <1>3, <1>7, <2>2
  <2>3. CASE k = 1 /\ i \in 2 .. n + 1
    BY <1>2, <1>3, <1>7, <2>3
  <2>4. CASE i \in 2 .. n + 1 /\ k \in 2 .. n + 1
    <3>1. i - 1 = k - 1
      BY <1>2, <1>3, <1>7, <2>4
    <3>2. QED
      BY <2>4, <3>1
  <2>5. QED
    BY <2>1, <2>2, <2>3, <2>4
<1>8. 1 \in DOMAIN new
  BY <1>2, <1>3
<1>9. QED
  BY <1>1, <1>3, <1>5, <1>6, <1>7, <1>8 DEF IsInFront
-----------------------------------------------------------------------------
(***************************************************************************)
(* Lists, for facts about them that are cited of larger expressions        *)
(***************************************************************************)
LEMMA AppendIn ==
  ASSUME NEW T, NEW s \in Seq(T), NEW x \in T, NEW new, new = Append(s, x)
  PROVE  new \in Seq(T) /\ Len(new) = Len(s) + 1
OBVIOUS

LEMMA ConcatIn ==
  ASSUME NEW T, NEW s \in Seq(T), NEW t \in Seq(T), NEW new, new = s \o t
  PROVE  new \in Seq(T) /\ Len(new) = Len(s) + Len(t)
OBVIOUS

LEMMA SingleIn ==
  ASSUME NEW T, NEW x \in T, NEW new, new = <<x>>
  PROVE  new \in Seq(T) /\ Len(new) = 1
OBVIOUS

\* A list is one of whatever set holds its elements.
LEMMA ListOf ==
  ASSUME NEW T, NEW U, NEW s \in Seq(T), \A i \in 1 .. Len(s) : s[i] \in U
  PROVE  s \in Seq(U)
OBVIOUS

LEMMA ListIn ==
  ASSUME NEW T, NEW U, T \subseteq U, NEW s \in Seq(T)
  PROVE  s \in Seq(U)
OBVIOUS

LEMMA ElementOf ==
  ASSUME NEW T, NEW s \in Seq(T), NEW i \in 1 .. Len(s)
  PROVE  s[i] \in T
OBVIOUS
-----------------------------------------------------------------------------
(***************************************************************************)
(* The session of the account                                              *)
(* Signing in and out in several tabs.                                     *)
(***************************************************************************)
\* A request is made in a loaded tab, and a tab stays loaded.
SessionInv ==
  /\ Session!TypeOK /\ Session!SessionIsWhole
  /\ \A t \in Tab : signIn[t] # None \/ signUp[t] # None \/ t \in leaving => tab[t] # None
LEMMA SessionInit == Session!Init => SessionInv
<1> SUFFICES ASSUME Session!Init PROVE SessionInv
  OBVIOUS
<1>1. \A t \in Tab : tab[t] = None /\ signIn[t] = None /\ signUp[t] = None
  BY DEF Session!Init
<1>2. Session!TypeOK
  BY SessionAssumption DEF Session!Init, Session!TypeOK, Session!SignedOut, Session!Session
<1>3. QED
  BY <1>1, <1>2 DEF Session!Init, SessionInv, Session!SessionIsWhole, Session!Ready, Session!SignedOut, Session!Session

\* A tab that is loaded is a record, and what changes a field of it.
LEMMA TabFields ==
  ASSUME SessionInv, NEW t \in Tab, tab[t] # None
  PROVE  /\ tab[t].user \in Account \cup {None} /\ tab[t].tokens \in Account \cup {None}
         /\ tab[t].isLoading \in BOOLEAN
         /\ \A busy : [tab[t] EXCEPT !.isLoading = busy]
                        = [user |-> tab[t].user, tokens |-> tab[t].tokens, isLoading |-> busy]
         /\ \A x : [tab[t] EXCEPT !.user = x]
                     = [user |-> x, tokens |-> tab[t].tokens, isLoading |-> tab[t].isLoading]
<1>1. tab[t] \in [user : Account \cup {None}, tokens : Account \cup {None}, isLoading : BOOLEAN]
  BY DEF SessionInv, Session!TypeOK
<1>2. ASSUME NEW busy
      PROVE  [tab[t] EXCEPT !.isLoading = busy] = [user |-> tab[t].user, tokens |-> tab[t].tokens, isLoading |-> busy]
  BY <1>1
<1>3. ASSUME NEW x
      PROVE  [tab[t] EXCEPT !.user = x] = [user |-> x, tokens |-> tab[t].tokens, isLoading |-> tab[t].isLoading]
  BY <1>1
<1>4. QED
  BY <1>1, <1>2, <1>3

\* What the next state must satisfy, of a tab that has changed and of those
\* that have not.
LEMMA SessionChanges ==
  ASSUME SessionInv, NEW t \in Tab,
         NEW new \in [user : Account \cup {None}, tokens : Account \cup {None}, isLoading : BOOLEAN],
         tab' = [tab EXCEPT ![t] = new],
         storage' \in [user : Account \cup {None}, tokens : Account \cup {None}],
         signIn' \in [Tab -> Account \cup {None}], signUp' \in [Tab -> Account \cup {None}],
         leaving' \subseteq leaving \cup {t}, mixed' \in BOOLEAN, mixed => mixed',
         \A s \in Tab \ {t} : signIn'[s] = signIn[s] /\ signUp'[s] = signUp[s],
         new.tokens # None => new.user # None, new.isLoading => signIn'[t] # None \/ signUp'[t] # None,
         ~mixed' => new.user = new.tokens /\ storage'.user = storage'.tokens,
         storage'.tokens # None => storage'.user # None
  PROVE  SessionInv'
<1>1. new # None
  BY SessionAssumption
<1>2. \A s \in Tab : tab'[s] = IF s = t THEN new ELSE tab[s]
  BY DEF SessionInv, Session!TypeOK
<1>3. Session!TypeOK'
  BY <1>1 DEF SessionInv, Session!TypeOK
<1>4. Session!SessionIsWhole'
  <2> SUFFICES ASSUME NEW s \in Tab, tab'[s] # None
               PROVE  /\ tab'[s].tokens # None => tab'[s].user # None
                      /\ tab'[s].isLoading => signIn'[s] # None \/ signUp'[s] # None
                      /\ ~mixed' => tab'[s].user = tab'[s].tokens
    BY DEF Session!SessionIsWhole, Session!Ready
  <2>1. CASE s = t
    BY <1>2, <2>1
  <2>2. CASE s # t
    BY <1>2, <2>2 DEF SessionInv, Session!SessionIsWhole, Session!Ready
  <2>3. QED
    BY <2>1, <2>2
<1>5. \A s \in Tab : signIn'[s] # None \/ signUp'[s] # None \/ s \in leaving' => tab'[s] # None
  BY <1>1, <1>2 DEF SessionInv
<1>6. QED
  BY <1>3, <1>4, <1>5 DEF SessionInv

\* What the invariant says of a tab.
LEMMA SessionFacts ==
  ASSUME SessionInv, NEW t \in Tab
  PROVE  /\ signIn[t] \in Account \cup {None} /\ signUp[t] \in Account \cup {None}
         /\ signIn \in [Tab -> Account \cup {None}] /\ signUp \in [Tab -> Account \cup {None}]
         /\ mixed \in BOOLEAN
         /\ storage \in [user : Account \cup {None}, tokens : Account \cup {None}]
         /\ storage.user \in Account \cup {None} /\ storage.tokens \in Account \cup {None}
         /\ storage.tokens # None => storage.user # None
         /\ ~mixed => storage.user = storage.tokens
         /\ signIn[t] # None \/ signUp[t] # None \/ t \in leaving => tab[t] # None
         /\ tab[t] # None => /\ tab[t].tokens # None => tab[t].user # None
                             /\ tab[t].isLoading => signIn[t] # None \/ signUp[t] # None
                             /\ ~mixed => tab[t].user = tab[t].tokens
         /\ \A x \in Account : x # None
  BY SessionAssumption DEF SessionInv, Session!TypeOK, Session!SessionIsWhole, Session!Ready

\* A tab asks to sign in or up.
LEMMA SessionWaits ==
  ASSUME SessionInv, NEW t \in Tab, tab[t] # None, NEW busy \in BOOLEAN,
         tab' = [tab EXCEPT ![t].isLoading = busy],
         signIn' \in [Tab -> Account \cup {None}], signUp' \in [Tab -> Account \cup {None}],
         \A s \in Tab \ {t} : signIn'[s] = signIn[s] /\ signUp'[s] = signUp[s],
         busy => signIn'[t] # None \/ signUp'[t] # None,
         UNCHANGED <<storage, leaving, mixed>>
  PROVE  SessionInv'
<1>1. tab' = [tab EXCEPT ![t] = [user |-> tab[t].user, tokens |-> tab[t].tokens, isLoading |-> busy]]
  <2>1. tab' = [tab EXCEPT ![t] = [tab[t] EXCEPT !.isLoading = busy]]
    OBVIOUS
  <2>2. QED
    BY <2>1, TabFields
<1>2. PICK new : new = [user |-> tab[t].user, tokens |-> tab[t].tokens, isLoading |-> busy]
  OBVIOUS
<1>3. /\ new \in [user : Account \cup {None}, tokens : Account \cup {None}, isLoading : BOOLEAN]
      /\ new.user = tab[t].user /\ new.tokens = tab[t].tokens /\ new.isLoading = busy
  BY <1>2, TabFields
<1>4. tab' = [tab EXCEPT ![t] = new]
  BY <1>1, <1>2
<1>5. /\ storage' \in [user : Account \cup {None}, tokens : Account \cup {None}]
      /\ leaving' \subseteq leaving \cup {t} /\ mixed' \in BOOLEAN /\ (mixed => mixed')
      /\ storage'.tokens # None => storage'.user # None
  BY SessionFacts
<1>6. /\ new.tokens # None => new.user # None
      /\ ~mixed' => new.user = new.tokens /\ storage'.user = storage'.tokens
  BY <1>3, SessionFacts
<1>7. new.isLoading => signIn'[t] # None \/ signUp'[t] # None
  BY <1>3
<1>8. QED
  BY <1>3, <1>4, <1>5, <1>6, <1>7, SessionChanges

\* It is answered.
LEMMA SessionSignsIn ==
  ASSUME SessionInv, NEW t \in Tab, NEW x \in Account, Session!SignedIn(t, x),
         signIn' \in [Tab -> Account \cup {None}], signUp' \in [Tab -> Account \cup {None}],
         \A s \in Tab \ {t} : signIn'[s] = signIn[s] /\ signUp'[s] = signUp[s],
         UNCHANGED <<leaving, mixed>>
  PROVE  SessionInv'
<1>1. tab' = [tab EXCEPT ![t] = [user |-> x, tokens |-> x, isLoading |-> FALSE]]
  BY DEF Session!SignedIn, Session!Loaded
<1>2. storage' = [user |-> x, tokens |-> x]
  BY DEF Session!SignedIn, Session!Session
<1>3. QED
  BY <1>1, <1>2, SessionFacts, SessionChanges

\* Storage is emptied, by one tab and for all of them.
LEMMA SessionClears ==
  ASSUME SessionInv, NEW t \in Tab, tab[t] # None, Session!Cleared(t), leaving' \subseteq leaving,
         UNCHANGED <<signIn, signUp, mixed>>
  PROVE  SessionInv'
<1>1. tab' = [tab EXCEPT ![t] = [user |-> None, tokens |-> None, isLoading |-> tab[t].isLoading]]
  BY DEF Session!Cleared
<1>2. storage' = [user |-> None, tokens |-> None]
  BY DEF Session!Cleared, Session!SignedOut, Session!Session
<1>3. tab[t].isLoading \in BOOLEAN
  BY TabFields
<1>4. QED
  BY <1>1, <1>2, <1>3, SessionFacts, SessionChanges

\* The demo user is stored.
LEMMA SessionStores ==
  ASSUME SessionInv, NEW t \in Tab, tab[t] # None, NEW x \in Account, Session!StoreUser(t, x)
  PROVE  SessionInv'
<1>1. tab' = [tab EXCEPT ![t] = [user |-> x, tokens |-> tab[t].tokens, isLoading |-> tab[t].isLoading]]
  <2>1. tab' = [tab EXCEPT ![t] = [tab[t] EXCEPT !.user = x]]
    BY DEF Session!StoreUser
  <2>2. QED
    BY <2>1, TabFields
<1>2. storage' = [user |-> x, tokens |-> storage.tokens]
  BY SessionFacts DEF Session!StoreUser
<1>3. tab[t].isLoading \in BOOLEAN /\ tab[t].tokens \in Account \cup {None}
  BY TabFields
<1>4. mixed' = (mixed \/ x # tab[t].tokens \/ x # storage.tokens) /\ UNCHANGED <<signIn, signUp, leaving>>
  BY DEF Session!StoreUser
<1>5. mixed' \in BOOLEAN /\ (mixed => mixed') /\ (~mixed' => x = tab[t].tokens /\ x = storage.tokens)
  BY <1>4, SessionFacts
<1>6. storage' \in [user : Account \cup {None}, tokens : Account \cup {None}]
      /\ storage'.user = x /\ storage'.tokens = storage.tokens
  BY <1>2, SessionFacts
<1>7. x # None
  BY SessionFacts
<1>8. tab[t].isLoading => signIn'[t] # None \/ signUp'[t] # None
  BY <1>4, SessionFacts
<1>9. QED
  BY <1>1, <1>3, <1>4, <1>5, <1>6, <1>7, <1>8, SessionFacts, SessionChanges

LEMMA SessionStep == SessionInv /\ Session!Next => SessionInv'
<1> SUFFICES ASSUME SessionInv, NEW t \in Tab,
                    \/ Session!LoadPage(t)
                    \/ \E x \in Account : Session!Login(t, x) \/ Session!Register(t, x) \/ Session!SwitchDemoRole(t, x)
                    \/ Session!LoginSucceeds(t) \/ Session!LoginFails(t) \/ Session!RegisterSettles(t)
                    \/ Session!Logout(t) \/ Session!LogoutSettles(t) \/ Session!UpdateProfile(t)
             PROVE  SessionInv'
  BY DEF Session!Next
<1>1. CASE Session!LoadPage(t)
  <2>1. storage' = IF Session!Stored THEN storage ELSE [user |-> Default, tokens |-> Default]
    BY <1>1 DEF Session!LoadPage, Session!Session
  <2>2. Default \in Account
    BY SessionAssumption
  <2>3. /\ storage' \in [user : Account \cup {None}, tokens : Account \cup {None}]
        /\ storage'.user \in Account \cup {None} /\ storage'.tokens \in Account \cup {None}
        /\ storage'.tokens # None /\ storage'.user # None /\ (~mixed => storage'.user = storage'.tokens)
    BY <2>1, <2>2, SessionFacts DEF Session!Stored
  <2>4. QED
    BY <1>1, <2>3, SessionFacts, SessionChanges DEF Session!LoadPage
<1>2. ASSUME NEW x \in Account, Session!Login(t, x) PROVE SessionInv'
  BY <1>2, SessionFacts, SessionWaits DEF Session!Login, Session!Ready
<1>3. ASSUME NEW x \in Account, Session!Register(t, x) PROVE SessionInv'
  BY <1>3, SessionFacts, SessionWaits DEF Session!Register, Session!Ready
<1>4. ASSUME NEW x \in Account, Session!SwitchDemoRole(t, x) PROVE SessionInv'
  BY <1>4, SessionStores DEF Session!SwitchDemoRole, Session!Ready
<1>5. CASE Session!LoginSucceeds(t)
  BY <1>5, SessionFacts, SessionSignsIn DEF Session!LoginSucceeds
<1>6. CASE Session!LoginFails(t)
  <2>1. CASE signIn[t] \in SignedInDemo
    BY <1>6, <2>1, SessionFacts, SessionSignsIn DEF Session!LoginFails
  <2>2. CASE signIn[t] \notin SignedInDemo
    BY <1>6, <2>2, SessionFacts, SessionWaits DEF Session!LoginFails
  <2>3. QED
    BY <2>1, <2>2
<1>7. CASE Session!RegisterSettles(t)
  BY <1>7, SessionFacts, SessionSignsIn DEF Session!RegisterSettles
<1>8. CASE Session!Logout(t)
  <2>1. CASE tab[t].tokens # None
    BY <1>8, <2>1, SessionFacts DEF Session!Logout, SessionInv, Session!TypeOK, Session!SessionIsWhole, Session!Ready
  <2>2. CASE tab[t].tokens = None
    BY <1>8, <2>2, SessionClears DEF Session!Logout, Session!Ready
  <2>3. QED
    BY <2>1, <2>2
<1>9. CASE Session!LogoutSettles(t)
  BY <1>9, SessionFacts, SessionClears DEF Session!LogoutSettles
<1>10. CASE Session!UpdateProfile(t)
  <2>1. tab[t].user \in Account
    BY <1>10, TabFields DEF Session!UpdateProfile, Session!Ready
  <2>2. QED
    BY <1>10, <2>1, SessionStores DEF Session!UpdateProfile, Session!Ready
<1>11. QED
  BY <1>1, <1>2, <1>3, <1>4, <1>5, <1>6, <1>7, <1>8, <1>9, <1>10

LEMMA SessionKept == SessionInv /\ UNCHANGED sessionVars => SessionInv'
BY DEF sessionVars, SessionInv, Session!TypeOK, Session!SessionIsWhole, Session!Ready
-----------------------------------------------------------------------------
(***************************************************************************)
(* The chat                                                                *)
(* Questions, their answers in the threads, and what the page shows.       *)
(***************************************************************************)
\* Types of the page, of its lists and of what is asked.
ChatTyped ==
  /\ conversations \in Seq(Chat) /\ \A i, k \in DOMAIN conversations : conversations[i] = conversations[k] => i = k
  /\ \E i \in DOMAIN conversations : conversations[i] = activeConvId
  /\ thread \in [Chat -> Seq(ChatPg!Message)] /\ spent \in [Chat -> Nat]
  /\ ask \in [Ask -> ChatPg!Question \cup {None}]
  /\ isStreaming \in BOOLEAN /\ controller \in Ask \cup {None}
  /\ currentStage \in Range(ChatPg!Stages) \cup {None}
\* A message follows the question it is of: an answer streams only while its
\* question is under way, and is complete only with its sources and words.
FollowsItsAsk(m, c) ==
   /\ m.id \in Ask => ask[m.id] # None
   /\ m.status = "streaming" => m.role = "assistant" /\ m.id \in Ask /\ ChatPg!UnderWay(m.id) /\ ask[m.id].chat = c
   /\ m.role = "assistant" /\ m.status # "streaming" =>
        /\ m.sources > 0 /\ (m.status = "completed" => m.words = Words)
        /\ m.id \in Ask => ~ChatPg!UnderWay(m.id) /\ (m.status = "stopped" <=> ask[m.id].aborted)
MessagesFollowAsks == \A c \in Chat : \A i \in DOMAIN thread[c] : FollowsItsAsk(thread[c][i], c)
\* What the page shows to be going on is.
PageFollowsAsks ==
   /\ controller # None => ChatPg!UnderWay(controller)
   /\ isStreaming => \E q \in Ask : ChatPg!UnderWay(q) /\ ~ask[q].aborted
   /\ currentStage # None => \E q \in Ask : ChatPg!UnderWay(q)
ChatInv == ChatTyped /\ MessagesFollowAsks /\ PageFollowsAsks
LEMMA ChatInit == ChatPg!Init => ChatInv
<1> SUFFICES ASSUME ChatPg!Init PROVE ChatInv
  OBVIOUS
<1>1. PICK first : first = [id |-> "seed", role |-> "user", words |-> Words, sources |-> 0, status |-> "completed"]
  OBVIOUS
<1>2. PICK second : second = [id |-> "seed", role |-> "assistant", words |-> Words, sources |-> 3, status |-> "completed"]
  OBVIOUS
<1>3. ChatPg!SeedThread = <<first, second>>
  BY <1>1, <1>2 DEF ChatPg!SeedThread, ChatPg!UserMessage, ChatPg!AnswerTo
<1>4. first \in ChatPg!Message /\ second \in ChatPg!Message
  BY <1>1, <1>2, ChatAssumption DEF ChatPg!Message
<1>5. \A c \in Chat : thread[c] = IF c = FirstChat THEN <<first, second>> ELSE <<>>
  BY <1>3 DEF ChatPg!Init
<1>6. thread \in [Chat -> Seq(ChatPg!Message)]
  <2>1. <<first, second>> \in Seq(ChatPg!Message) /\ <<>> \in Seq(ChatPg!Message)
    BY <1>4
  <2>2. QED
    BY <1>3, <2>1 DEF ChatPg!Init
<1>7. \A q \in Ask : ask[q] = None
  BY DEF ChatPg!Init
<1>8. ChatTyped
  <2>1. conversations \in Seq(Chat) /\ conversations[1] = activeConvId /\ DOMAIN conversations = 1 .. 1
    BY ChatAssumption DEF ChatPg!Init
  <2>2. spent \in [Chat -> Nat] /\ ask \in [Ask -> ChatPg!Question \cup {None}]
    BY ChatAssumption DEF ChatPg!Init
  <2>3. /\ \A i, k \in DOMAIN conversations : conversations[i] = conversations[k] => i = k
        /\ \E i \in DOMAIN conversations : conversations[i] = activeConvId
    <3>1. \A i \in 1 .. 1 : i = 1
      OBVIOUS
    <3>2. 1 \in 1 .. 1
      OBVIOUS
    <3>3. QED
      BY <2>1, <3>1, <3>2, Zenon
  <2>4. isStreaming \in BOOLEAN /\ controller \in Ask \cup {None} /\ currentStage \in Range(ChatPg!Stages) \cup {None}
    BY DEF ChatPg!Init
  <2>5. QED
    BY <1>6, <2>1, <2>2, <2>3, <2>4, Zenon DEF ChatTyped
<1>9. ASSUME NEW c \in Chat, NEW i \in DOMAIN thread[c], NEW m, m = thread[c][i]
      PROVE  /\ m.id = "seed" /\ m.status = "completed"
             /\ m.role = "assistant" => m.sources > 0 /\ m.words = Words
  <2>1. c = FirstChat /\ (i = 1 \/ i = 2)
    BY <1>5, <1>9
  <2>2. m = first \/ m = second
    BY <1>5, <1>9, <2>1
  <2>3. QED
    BY <1>1, <1>2, <2>2
<1>10. MessagesFollowAsks
  BY <1>9, ChatAssumption DEF MessagesFollowAsks, FollowsItsAsk
<1>11. QED
  BY <1>8, <1>10 DEF ChatInv, PageFollowsAsks, ChatPg!Init

\* The list of the page after a conversation is put before it.
LEMMA ChatInFront ==
  ASSUME ChatTyped, NEW c \in Chat, c \notin ChatPg!Listed, conversations' = <<c>> \o conversations
  PROVE  /\ conversations' \in Seq(Chat) /\ 1 \in DOMAIN conversations' /\ conversations'[1] = c
         /\ \A i, k \in DOMAIN conversations' : conversations'[i] = conversations'[k] => i = k
<1>1. PICK n : n = Len(conversations)
  OBVIOUS
<1>2. /\ conversations \in Seq(Chat) /\ DOMAIN conversations = 1 .. n /\ n \in Nat
      /\ \A i, k \in 1 .. n : conversations[i] = conversations[k] => i = k
      /\ \A i \in 1 .. n : conversations[i] # c
  <2>1. conversations \in Seq(Chat) /\ DOMAIN conversations = 1 .. n /\ n \in Nat
    BY <1>1 DEF ChatTyped
  <2>2. \A i, k \in 1 .. n : conversations[i] = conversations[k] => i = k
    BY <2>1, Zenon DEF ChatTyped
  <2>3. \A i \in 1 .. n : conversations[i] # c
    BY <2>1, Zenon DEF ChatPg!Listed, ChatPg!Range
  <2>4. QED
    BY <2>1, <2>2, <2>3
<1>3. /\ conversations' \in Seq(Chat) /\ DOMAIN conversations' = 1 .. n + 1 /\ conversations'[1] = c
      /\ \A i \in 2 .. n + 1 : i - 1 \in 1 .. n /\ conversations'[i] = conversations[i - 1]
  BY <1>1, <1>2
<1>4. ASSUME NEW i \in 1 .. n + 1, NEW k \in 1 .. n + 1, conversations'[i] = conversations'[k] PROVE i = k
  <2>1. i = 1 \/ i \in 2 .. n + 1
    BY <1>2
  <2>2. k = 1 \/ k \in 2 .. n + 1
    BY <1>2
  <2>3. QED
    BY <1>2, <1>3, <1>4, <2>1, <2>2
<1>5. QED
  BY <1>2, <1>3, <1>4

\* Nothing but the list and what is shown of it has changed.
LEMMA ChatListOnly ==
  ASSUME ChatInv, UNCHANGED <<thread, spent, isStreaming, currentStage, controller, ask>>,
         conversations' \in Seq(Chat),
         \A i, k \in DOMAIN conversations' : conversations'[i] = conversations'[k] => i = k,
         \E i \in DOMAIN conversations' : conversations'[i] = activeConvId'
  PROVE  ChatInv'
<1>1. ChatTyped'
  BY DEF ChatInv, ChatTyped
<1>2. MessagesFollowAsks' /\ PageFollowsAsks'
  BY DEF ChatInv, MessagesFollowAsks, FollowsItsAsk, PageFollowsAsks, ChatPg!UnderWay
<1>3. QED
  BY <1>1, <1>2 DEF ChatInv

\* A conversation is taken from the list, or a new one put in front of the
\* last; threads and questions stay as they are.
LEMMA ChatDeletes ==
  ASSUME ChatInv, NEW c \in Chat, ChatPg!DeleteConv(c)
  PROVE  ChatInv'
<1>1. PICK keep : keep = {i \in DOMAIN conversations : conversations[i] # c}
  OBVIOUS
<1>2. PICK filtered : filtered = Kept(conversations, keep)
  OBVIOUS
<1>3. PICK n : n = Len(conversations)
  OBVIOUS
<1>4. /\ conversations \in Seq(Chat) /\ DOMAIN conversations = 1 .. n /\ n \in Nat
      /\ \A i, k \in 1 .. n : conversations[i] = conversations[k] => i = k
      /\ \E i \in 1 .. n : conversations[i] = activeConvId
  <2>1. conversations \in Seq(Chat) /\ DOMAIN conversations = 1 .. n /\ n \in Nat
    BY <1>3 DEF ChatInv, ChatTyped
  <2>2. QED
    BY <2>1, Zenon DEF ChatInv, ChatTyped
<1>5. filtered \in Seq(Chat) /\ PartOf(filtered, conversations, keep, n)
  BY <1>2, <1>3, <1>4, KeptIsPart
<1>6. /\ \A i, k \in DOMAIN filtered : filtered[i] = filtered[k] => i = k
      /\ \A j \in 1 .. n : conversations[j] # c => \E i \in DOMAIN filtered : filtered[i] = conversations[j]
  <2>1. DOMAIN filtered = 1 .. Len(filtered)
    BY <1>5
  <2>2. ASSUME NEW i \in 1 .. Len(filtered), NEW k \in 1 .. Len(filtered), i # k
        PROVE  filtered[i] # filtered[k]
    BY <1>4, <1>5, <2>2 DEF PartOf
  <2>3. ASSUME NEW j \in 1 .. n, conversations[j] # c
        PROVE  \E i \in 1 .. Len(filtered) : filtered[i] = conversations[j]
    <3>1. j \in keep
      BY <1>1, <1>4, <2>3
    <3>2. QED
      BY <1>5, <3>1 DEF PartOf
  <2>4. QED
    BY <2>1, <2>2, <2>3
<1>7. UNCHANGED <<thread, spent, isStreaming, currentStage, controller, ask>>
  BY DEF ChatPg!DeleteConv
<1>8. \/ activeConvId # c /\ conversations' = filtered /\ activeConvId' = activeConvId
      \/ activeConvId = c /\ filtered # <<>> /\ conversations' = filtered /\ activeConvId' = filtered[1]
      \/ \E fresh \in Chat : ChatPg!Fresh(fresh) /\ conversations' = <<fresh>> \o conversations /\ activeConvId' = fresh
  <2>1. filtered = ChatPg!Kept(conversations, {i \in DOMAIN conversations : conversations[i] # c})
    BY <1>1, <1>2, Zenon DEF ChatPg!Kept, Kept
  <2>2. QED
    BY <2>1, Zenon DEF ChatPg!DeleteConv
<1>9. CASE activeConvId # c /\ conversations' = filtered /\ activeConvId' = activeConvId
  <2>1. \E i \in DOMAIN conversations' : conversations'[i] = activeConvId'
    BY <1>4, <1>6, <1>9
  <2>2. QED
    BY <1>5, <1>6, <1>7, <1>9, <2>1, ChatListOnly
<1>10. CASE activeConvId = c /\ filtered # <<>> /\ conversations' = filtered /\ activeConvId' = filtered[1]
  <2>1. 1 \in DOMAIN filtered
    BY <1>5, <1>10
  <2>2. QED
    BY <1>5, <1>6, <1>7, <1>10, <2>1, ChatListOnly
<1>11. ASSUME NEW fresh \in Chat, ChatPg!Fresh(fresh), conversations' = <<fresh>> \o conversations,
              activeConvId' = fresh
       PROVE  ChatInv'
  <2>1. /\ conversations' \in Seq(Chat) /\ 1 \in DOMAIN conversations' /\ conversations'[1] = fresh
        /\ \A i, k \in DOMAIN conversations' : conversations'[i] = conversations'[k] => i = k
    BY <1>11, ChatInFront DEF ChatInv, ChatPg!Fresh
  <2>2. QED
    BY <1>7, <1>11, <2>1, ChatListOnly
<1>12. QED
  BY <1>8, <1>9, <1>10, <1>11

\* What is known of a question that was asked.
LEMMA QuestionFacts ==
  ASSUME ChatInv, NEW q \in Ask, ask[q] # None
  PROVE  /\ ask[q] \in ChatPg!Question
         /\ ask[q].chat \in Chat /\ ask[q].topic \in Topics /\ ask[q].words \in 0 .. Words
         /\ ask[q].aborted \in BOOLEAN /\ ask[q].stage \in ChatPg!Range(ChatPg!Stages) \cup {"settled"}
         /\ ChatPg!Evidence[ask[q].topic] \in 1 .. 3
         /\ ChatPg!Question \cap {None} = {}
<1>1. ask[q] \in ChatPg!Question
  BY DEF ChatInv, ChatTyped
<1>2. \A topic \in Topics : ChatPg!Evidence[topic] \in 1 .. 3
  BY ChatAssumption DEF ChatPg!Evidence
<1>3. QED
  BY <1>1, <1>2, ChatAssumption DEF ChatPg!Question
\* The timers that only change where a question is: it stays under way, or
\* settled, and is of the same conversation.
LEMMA ChatThreadsKept ==
  ASSUME ChatInv, thread' = thread,
         \A q \in Ask : ask[q] # None => ask'[q] # None,
         \A q \in Ask : ChatPg!UnderWay(q) <=> ChatPg!UnderWay(q)',
         \A q \in Ask : ask[q] # None =>
           ask'[q].chat = ask[q].chat /\ (~ChatPg!UnderWay(q) => ask'[q].aborted = ask[q].aborted)
  PROVE  MessagesFollowAsks'
<1>1. ASSUME NEW c \in Chat, NEW m, FollowsItsAsk(m, c) PROVE FollowsItsAsk(m, c)'
  BY <1>1 DEF FollowsItsAsk
<1>2. QED
  BY <1>1, Zenon DEF ChatInv, MessagesFollowAsks

\* A question is asked on some of the messages of the active conversation.
LEMMA ChatSends ==
  ASSUME ChatInv, NEW q \in Ask, NEW topic \in Topics, NEW kept \in Seq(ChatPg!Message),
         \A i \in DOMAIN kept : \E k \in DOMAIN thread[activeConvId] : kept[i] = thread[activeConvId][k],
         ChatPg!Send(q, topic, kept)
  PROVE  ChatInv'
<1>1. PICK c : c = activeConvId
  OBVIOUS
<1>2. PICK new : new = [chat |-> c, stage |-> "query_processing", topic |-> topic, words |-> 0, aborted |-> FALSE]
  OBVIOUS
<1>3. PICK first : first = ChatPg!UserMessage(q)
  OBVIOUS
<1>4. PICK second : second = ChatPg!Placeholder(q)
  OBVIOUS
<1>5. c \in Chat
  BY <1>1 DEF ChatInv, ChatTyped
<1>6. ChatPg!Stages[1] = "query_processing" /\ "query_processing" \in ChatPg!Range(ChatPg!Stages)
      /\ "query_processing" \in Range(ChatPg!Stages)
  BY DEF ChatPg!Stages, ChatPg!Range, Range
<1>7. new \in ChatPg!Question /\ new # None
  <2>1. 0 \in 0 .. Words
    BY ChatAssumption
  <2>2. new \in ChatPg!Question
    BY <1>2, <1>5, <1>6, <2>1 DEF ChatPg!Question
  <2>3. QED
    BY <2>2, ChatAssumption
<1>8. /\ ask[q] = None /\ ask' = [ask EXCEPT ![q] = new]
      /\ thread' = [thread EXCEPT ![c] = kept \o <<first, second>>]
      /\ isStreaming' = TRUE /\ currentStage' = "query_processing" /\ controller' = q
      /\ UNCHANGED <<conversations, spent, activeConvId>>
  BY <1>1, <1>2, <1>3, <1>4, <1>6, Zenon DEF ChatPg!Send
<1>9. /\ first \in ChatPg!Message /\ second \in ChatPg!Message
      /\ first.id = q /\ first.role = "user" /\ first.status = "completed"
      /\ second.id = q /\ second.role = "assistant" /\ second.status = "streaming"
  BY <1>3, <1>4, ChatAssumption DEF ChatPg!UserMessage, ChatPg!Placeholder, ChatPg!AnswerTo, ChatPg!Message
<1>10. /\ thread \in [Chat -> Seq(ChatPg!Message)] /\ ask \in [Ask -> ChatPg!Question \cup {None}]
  BY DEF ChatInv, ChatTyped
<1>11. kept \o <<first, second>> \in Seq(ChatPg!Message)
  BY <1>9
<1>12. ask'[q] = new /\ \A r \in Ask \ {q} : ask'[r] = ask[r]
  BY <1>8, <1>10
<1>13. ChatTyped'
  <2>1. thread' \in [Chat -> Seq(ChatPg!Message)] /\ ask' \in [Ask -> ChatPg!Question \cup {None}]
    BY <1>7, <1>8, <1>10, <1>11
  <2>2. isStreaming' \in BOOLEAN /\ controller' \in Ask \cup {None} /\ currentStage' \in Range(ChatPg!Stages) \cup {None}
    BY <1>6, <1>8
  <2>3. UNCHANGED <<conversations, spent, activeConvId>>
    BY <1>8
  <2>4. QED
    BY <2>1, <2>2, <2>3, Zenon DEF ChatInv, ChatTyped
<1>14. ChatPg!UnderWay(q)' /\ ~ask'[q].aborted /\ ask'[q].chat = c
       /\ \A r \in Ask \ {q} : ChatPg!UnderWay(r)' <=> ChatPg!UnderWay(r)
  BY <1>2, <1>7, <1>12 DEF ChatPg!UnderWay
<1>15. PageFollowsAsks'
  BY <1>8, <1>14 DEF PageFollowsAsks
<1>16. MessagesFollowAsks'
  <2> SUFFICES ASSUME NEW d \in Chat, NEW i \in DOMAIN thread'[d], NEW m, m = thread'[d][i]
               PROVE  FollowsItsAsk(m, d)'
    BY Zenon DEF MessagesFollowAsks
  <2>1. ASSUME NEW k \in DOMAIN thread[d], m = thread[d][k] PROVE FollowsItsAsk(m, d)'
    <3>1. FollowsItsAsk(m, d)
      BY <2>1, Zenon DEF ChatInv, MessagesFollowAsks
    <3>2. m.id \in Ask => m.id \in Ask \ {q}
      BY <1>8, <3>1 DEF FollowsItsAsk
    <3>3. QED
      BY <1>12, <1>14, <3>1, <3>2 DEF FollowsItsAsk
  <2>2. CASE d # c
    <3>1. thread'[d] = thread[d]
      BY <1>8, <1>10, <2>2
    <3>2. QED
      BY <2>1, <3>1
  <2>3. CASE d = c
    <3>1. thread'[d] = kept \o <<first, second>>
      BY <1>5, <1>8, <1>10, <2>3
    <3>2. (\E k \in DOMAIN kept : m = kept[k]) \/ m = first \/ m = second
      <4>1. Len(kept) \in Nat /\ Len(<<first, second>>) = 2
        OBVIOUS
      <4>2. i \in 1 .. Len(kept) + 2
        BY <3>1, <4>1
      <4>3. i \in 1 .. Len(kept) \/ i = Len(kept) + 1 \/ i = Len(kept) + 2
        BY <4>1, <4>2
      <4>4. QED
        BY <3>1, <4>1, <4>3
    <3>3. CASE \E k \in DOMAIN kept : m = kept[k]
      <4>1. PICK k \in DOMAIN thread[d] : m = thread[d][k]
        BY <1>1, <2>3, <3>3
      <4>2. QED
        BY <2>1, <4>1
    <3>4. CASE m = first
      BY <1>7, <1>9, <1>12, <3>4 DEF FollowsItsAsk
    <3>5. CASE m = second
      BY <1>7, <1>9, <1>12, <1>14, <2>3, <3>5 DEF FollowsItsAsk
    <3>6. QED
      BY <3>2, <3>3, <3>4, <3>5
  <2>4. QED
    BY <2>2, <2>3
<1>17. QED
  BY <1>13, <1>15, <1>16 DEF ChatInv
\* The answer to a question reads as it should, wherever its placeholder went.
LEMMA ChatAnswers ==
  ASSUME ChatInv, NEW q \in Ask, ChatPg!UnderWay(q), NEW words \in 0 .. Words,
         NEW status \in {"streaming", "completed", "stopped"}, ChatPg!Answer(q, words, status),
         \A r \in Ask \ {q} : ask'[r] = ask[r], ask'[q] # None, ask'[q].chat = ask[q].chat,
         status = "streaming" <=> ChatPg!UnderWay(q)', status = "completed" => words = Words,
         status # "streaming" => (status = "stopped" <=> ask'[q].aborted)
  PROVE  thread' \in [Chat -> Seq(ChatPg!Message)] /\ MessagesFollowAsks'
<1>1. PICK c : c = ask[q].chat
  OBVIOUS
<1>2. PICK answer : answer = ChatPg!AnswerTo(q, words, ChatPg!Evidence[ask[q].topic], status)
  OBVIOUS
<1>3. ask[q] # None
  BY DEF ChatPg!UnderWay
<1>4. c \in Chat /\ ChatPg!Evidence[ask[q].topic] \in 1 .. 3
  BY <1>1, <1>3, QuestionFacts
<1>5. /\ answer \in ChatPg!Message /\ answer.id = q /\ answer.role = "assistant" /\ answer.words = words
      /\ answer.status = status /\ answer.sources > 0
  BY <1>2, <1>4 DEF ChatPg!AnswerTo, ChatPg!Message
<1>6. FollowsItsAsk(answer, c)'
  BY <1>1, <1>5 DEF FollowsItsAsk
<1>7. PICK list : list = [i \in DOMAIN thread[c] |-> IF ChatPg!IsAnswer(thread[c][i], q) THEN answer ELSE thread[c][i]]
  OBVIOUS
<1>8. thread' = [thread EXCEPT ![c] = list] /\ thread \in [Chat -> Seq(ChatPg!Message)]
  <2>1. thread' = [thread EXCEPT ![c] = list]
    BY <1>1, <1>2, <1>7 DEF ChatPg!Answer
  <2>2. QED
    BY <2>1 DEF ChatInv, ChatTyped
<1>9. thread[c] \in Seq(ChatPg!Message)
  BY <1>4, <1>8
<1>10. list \in Seq(ChatPg!Message) /\ DOMAIN list = DOMAIN thread[c]
  BY <1>5, <1>7, <1>9
<1>11. ASSUME NEW d \in Chat, NEW i \in DOMAIN thread[d], NEW m, m = thread[d][i],
              d # c \/ ~ChatPg!IsAnswer(m, q)
       PROVE  FollowsItsAsk(m, d)'
  <2>1. FollowsItsAsk(m, d)
    BY <1>11, Zenon DEF ChatInv, MessagesFollowAsks
  <2>2. CASE m.id = q
    <3>1. m.role # "assistant"
      <4>1. CASE d = c
        BY <1>11, <2>2, <4>1 DEF ChatPg!IsAnswer
      <4>2. CASE d # c
        BY <1>1, <2>1, <2>2, <4>2 DEF FollowsItsAsk
      <4>3. QED
        BY <4>1, <4>2
    <3>2. QED
      BY <2>1, <2>2, <3>1 DEF FollowsItsAsk
  <2>3. CASE m.id # q
    <3>1. m.id \in Ask => ask'[m.id] = ask[m.id] /\ (ChatPg!UnderWay(m.id)' <=> ChatPg!UnderWay(m.id))
      BY <2>3 DEF ChatPg!UnderWay
    <3>2. QED
      BY <2>1, <3>1 DEF FollowsItsAsk
  <2>4. QED
    BY <2>2, <2>3
<1>12. MessagesFollowAsks'
  <2> SUFFICES ASSUME NEW d \in Chat, NEW i \in DOMAIN thread'[d], NEW m, m = thread'[d][i]
               PROVE  FollowsItsAsk(m, d)'
    BY Zenon DEF MessagesFollowAsks
  <2>1. CASE d # c
    <3>1. thread'[d] = thread[d]
      BY <1>8, <2>1
    <3>2. QED
      BY <1>11, <2>1, <3>1
  <2>2. CASE d = c
    <3>1. thread'[d] = list
      BY <1>4, <1>8, <2>2
    <3>2. i \in DOMAIN thread[d] /\ m = list[i]
      BY <1>10, <2>2, <3>1
    <3>3. CASE ChatPg!IsAnswer(thread[d][i], q)
      <4>1. m = answer
        BY <1>7, <2>2, <3>2, <3>3
      <4>2. QED
        BY <1>6, <2>2, <4>1
    <3>4. CASE ~ChatPg!IsAnswer(thread[d][i], q)
      <4>1. m = thread[d][i]
        BY <1>7, <2>2, <3>2, <3>4
      <4>2. QED
        BY <1>11, <3>2, <3>4, <4>1
    <3>5. QED
      BY <3>3, <3>4
  <2>3. QED
    BY <2>1, <2>2
<1>13. QED
  BY <1>8, <1>10, <1>12

\* A question moves on to its next stage, and the page shows it.
LEMMA ChatNextStage ==
  ASSUME ChatInv, NEW q \in Ask, ChatPg!NextStage(q)
  PROVE  ChatInv'
<1>1. PICK k \in 1 .. 3 : /\ ask[q] # None /\ ask[q].stage = ChatPg!Stages[k]
                          /\ ask' = [ask EXCEPT ![q].stage = ChatPg!Stages[k + 1]]
                          /\ currentStage' = ChatPg!Stages[k + 1]
                          /\ UNCHANGED <<conversations, thread, spent, activeConvId, isStreaming, controller>>
  BY Zenon DEF ChatPg!NextStage
<1>2. PICK stage : stage = ChatPg!Stages[k + 1]
  OBVIOUS
<1>3. /\ stage # "settled" /\ ask[q].stage # "settled"
      /\ stage \in Range(ChatPg!Stages) /\ stage \in ChatPg!Range(ChatPg!Stages)
  <2>1. k = 1 \/ k = 2 \/ k = 3
    OBVIOUS
  <2>2. QED
    BY <1>1, <1>2, <2>1 DEF ChatPg!Stages, Range, ChatPg!Range
<1>4. PICK new : new = [ask[q] EXCEPT !.stage = stage]
  OBVIOUS
<1>5. /\ new \in ChatPg!Question /\ new # None /\ new.stage = stage /\ new.chat = ask[q].chat
      /\ new.aborted = ask[q].aborted
  <2>1. ask[q] \in ChatPg!Question
    BY <1>1, QuestionFacts
  <2>2. new \in ChatPg!Question
    BY <1>3, <1>4, <2>1 DEF ChatPg!Question
  <2>3. new.stage = stage /\ new.chat = ask[q].chat /\ new.aborted = ask[q].aborted
    BY <1>4, <2>1 DEF ChatPg!Question
  <2>4. QED
    BY <2>2, <2>3, ChatAssumption
<1>6. ask' = [ask EXCEPT ![q] = new] /\ ask \in [Ask -> ChatPg!Question \cup {None}]
  <2>1. ask' = [ask EXCEPT ![q] = new]
    BY <1>1, <1>2, <1>4
  <2>2. QED
    BY <2>1 DEF ChatInv, ChatTyped
<1>7. ask'[q] = new /\ \A r \in Ask \ {q} : ask'[r] = ask[r]
  BY <1>6
<1>8. /\ ChatPg!UnderWay(q) /\ ChatPg!UnderWay(q)'
      /\ \A r \in Ask \ {q} : ChatPg!UnderWay(r)' <=> ChatPg!UnderWay(r)
  BY <1>1, <1>3, <1>5, <1>7 DEF ChatPg!UnderWay
<1>9. MessagesFollowAsks'
  <2>1. \A r \in Ask : ask[r] # None => /\ ask'[r] # None /\ ask'[r].chat = ask[r].chat
                                        /\ ask'[r].aborted = ask[r].aborted
    BY <1>5, <1>7
  <2>2. \A r \in Ask : ChatPg!UnderWay(r) <=> ChatPg!UnderWay(r)'
    BY <1>8
  <2>3. thread' = thread
    BY <1>1
  <2>4. QED
    BY <2>1, <2>2, <2>3, ChatThreadsKept
<1>10. PageFollowsAsks'
  <2>1. controller \in Ask \cup {None}
    BY DEF ChatInv, ChatTyped
  <2>2. \A r \in Ask : ask[r] # None => ask'[r].aborted = ask[r].aborted
    BY <1>5, <1>7
  <2>3. QED
    BY <1>1, <1>8, <2>1, <2>2 DEF ChatInv, PageFollowsAsks, ChatPg!UnderWay
<1>11. ChatTyped'
  <2>1. ask' \in [Ask -> ChatPg!Question \cup {None}] /\ currentStage' \in Range(ChatPg!Stages) \cup {None}
    BY <1>1, <1>2, <1>3, <1>5, <1>6
  <2>2. QED
    BY <1>1, <2>1, Zenon DEF ChatInv, ChatTyped
<1>12. QED
  BY <1>9, <1>10, <1>11 DEF ChatInv

\* A word more is a word more of the one answer that is streaming.
LEMMA ChatStreamWord ==
  ASSUME ChatInv, NEW q \in Ask, ChatPg!StreamWord(q)
  PROVE  ChatInv'
<1>1. PICK words : words = ask[q].words + 1
  OBVIOUS
<1>2. /\ ask[q] # None /\ ask[q].stage \in {"context_building", "generating"} /\ ~ask[q].aborted /\ ask[q].words < Words
      /\ ask' = [ask EXCEPT ![q].stage = "generating", ![q].words = @ + 1]
      /\ ChatPg!Answer(q, words, "streaming") /\ currentStage' = "generating"
      /\ UNCHANGED <<conversations, spent, activeConvId, isStreaming, controller>>
  BY <1>1 DEF ChatPg!StreamWord, ChatPg!InLoop
<1>3. ask[q] \in ChatPg!Question /\ words \in 0 .. Words
  BY <1>1, <1>2, QuestionFacts, ChatAssumption
<1>4. "generating" \in Range(ChatPg!Stages) /\ "generating" \in ChatPg!Range(ChatPg!Stages)
  BY DEF ChatPg!Stages, Range, ChatPg!Range
<1>5. PICK mid : mid = [ask[q] EXCEPT !.stage = "generating"]
  OBVIOUS
<1>6. PICK new : new = [mid EXCEPT !.words = words]
  OBVIOUS
<1>7. /\ mid \in ChatPg!Question /\ mid.stage = "generating" /\ mid.chat = ask[q].chat
      /\ mid.aborted = ask[q].aborted /\ mid.words = ask[q].words
  BY <1>3, <1>4, <1>5 DEF ChatPg!Question
<1>8. /\ new \in ChatPg!Question /\ new.stage = "generating" /\ new.chat = ask[q].chat
      /\ new.aborted = ask[q].aborted
  BY <1>3, <1>6, <1>7 DEF ChatPg!Question
<1>9. ask \in [Ask -> ChatPg!Question \cup {None}]
  BY DEF ChatInv, ChatTyped
<1>10. ask' = [ask EXCEPT ![q] = new]
  <2>1. PICK between : between = [ask EXCEPT ![q] = mid]
    OBVIOUS
  <2>2. between[q] = mid
    BY <1>9, <2>1
  <2>3. ask' = [between EXCEPT ![q].words = @ + 1]
    BY <1>2, <1>5, <2>1
  <2>4. ask' = [between EXCEPT ![q] = new]
    BY <1>1, <1>6, <1>7, <2>2, <2>3
  <2>5. QED
    BY <1>9, <2>1, <2>4
<1>11. new # None /\ ask'[q] = new /\ \A r \in Ask \ {q} : ask'[r] = ask[r]
  BY <1>8, <1>9, <1>10, ChatAssumption
<1>12. /\ ChatPg!UnderWay(q) /\ ChatPg!UnderWay(q)'
       /\ \A r \in Ask \ {q} : ChatPg!UnderWay(r)' <=> ChatPg!UnderWay(r)
  BY <1>2, <1>8, <1>11 DEF ChatPg!UnderWay
<1>13. thread' \in [Chat -> Seq(ChatPg!Message)] /\ MessagesFollowAsks'
  <2>1. ask'[q] # None /\ ask'[q].chat = ask[q].chat
    BY <1>8, <1>11
  <2>2. QED
    BY <1>2, <1>3, <1>11, <1>12, <2>1, ChatAnswers
<1>14. PageFollowsAsks'
  <2>1. controller \in Ask \cup {None}
    BY DEF ChatInv, ChatTyped
  <2>2. \A r \in Ask : ask[r] # None => ask'[r].aborted = ask[r].aborted
    BY <1>8, <1>11
  <2>3. \A r \in Ask : ChatPg!UnderWay(r)' <=> ChatPg!UnderWay(r)
    BY <1>12
  <2>4. controller' = controller /\ isStreaming' = isStreaming
    BY <1>2
  <2>5. isStreaming' => \E r \in Ask : ChatPg!UnderWay(r)' /\ ~ask'[r].aborted
    BY <2>2, <2>3, <2>4 DEF ChatInv, PageFollowsAsks, ChatPg!UnderWay
  <2>6. QED
    BY <1>12, <2>1, <2>3, <2>4, <2>5 DEF ChatInv, PageFollowsAsks
<1>15. ChatTyped'
  <2>1. ask' \in [Ask -> ChatPg!Question \cup {None}] /\ currentStage' \in Range(ChatPg!Stages) \cup {None}
    BY <1>2, <1>4, <1>8, <1>9, <1>10
  <2>2. QED
    BY <1>2, <1>13, <2>1, Zenon DEF ChatInv, ChatTyped
<1>16. QED
  BY <1>13, <1>14, <1>15 DEF ChatInv

\* A question is over: its answer is complete or stopped, and the page is free.
LEMMA ChatSettles ==
  ASSUME ChatInv, NEW q \in Ask, ChatPg!Settle(q)
  PROVE  ChatInv'
<1>1. PICK status : status = IF ask[q].aborted THEN "stopped" ELSE "completed"
  OBVIOUS
<1>2. /\ ask[q] # None /\ ask[q].stage \in {"context_building", "generating"}
      /\ ask[q].aborted \/ ask[q].words = Words
      /\ ask' = [ask EXCEPT ![q].stage = "settled"]
      /\ ChatPg!Answer(q, ask[q].words, status)
      /\ spent' = IF ask[q].chat \in ChatPg!Listed THEN [spent EXCEPT ![ask[q].chat] = @ + ask[q].words] ELSE spent
      /\ isStreaming' = FALSE /\ currentStage' = None /\ controller' = None
      /\ UNCHANGED <<conversations, activeConvId>>
  BY <1>1 DEF ChatPg!Settle, ChatPg!InLoop, ChatPg!Settled
<1>3. /\ ask[q] \in ChatPg!Question /\ ask[q].words \in 0 .. Words /\ ask[q].chat \in Chat
      /\ ask[q].aborted \in BOOLEAN
  BY <1>2, QuestionFacts
<1>4. PICK new : new = [ask[q] EXCEPT !.stage = "settled"]
  OBVIOUS
<1>5. /\ new \in ChatPg!Question /\ new.stage = "settled" /\ new.chat = ask[q].chat
      /\ new.aborted = ask[q].aborted
  BY <1>3, <1>4 DEF ChatPg!Question
<1>6. ask' = [ask EXCEPT ![q] = new] /\ ask \in [Ask -> ChatPg!Question \cup {None}]
  <2>1. ask' = [ask EXCEPT ![q] = new]
    BY <1>2, <1>4
  <2>2. QED
    BY <2>1 DEF ChatInv, ChatTyped
<1>7. new # None /\ ask'[q] = new /\ \A r \in Ask \ {q} : ask'[r] = ask[r]
  BY <1>5, <1>6, ChatAssumption
<1>8. ChatPg!UnderWay(q) /\ ~ChatPg!UnderWay(q)'
  BY <1>2, <1>5, <1>7 DEF ChatPg!UnderWay
<1>9. thread' \in [Chat -> Seq(ChatPg!Message)] /\ MessagesFollowAsks'
  <2>1. ask'[q] # None /\ ask'[q].chat = ask[q].chat
    BY <1>5, <1>7
  <2>2. /\ status \in {"streaming", "completed", "stopped"} /\ status # "streaming"
        /\ status = "completed" => ask[q].words = Words
        /\ status = "stopped" <=> ask'[q].aborted
    BY <1>1, <1>2, <1>3, <1>5, <1>7
  <2>3. QED
    BY <1>2, <1>3, <1>7, <1>8, <2>1, <2>2, ChatAnswers
<1>10. PageFollowsAsks'
  BY <1>2 DEF PageFollowsAsks
<1>11. ChatTyped'
  <2>1. ask' \in [Ask -> ChatPg!Question \cup {None}] /\ currentStage' \in Range(ChatPg!Stages) \cup {None}
    BY <1>2, <1>5, <1>6
  <2>2. spent' \in [Chat -> Nat]
    <3>1. spent \in [Chat -> Nat]
      BY DEF ChatInv, ChatTyped
    <3>2. ask[q].words \in Nat
      BY <1>3, ChatAssumption
    <3>3. QED
      BY <1>2, <1>3, <3>1, <3>2
  <2>3. isStreaming' \in BOOLEAN /\ controller' \in Ask \cup {None}
    BY <1>2
  <2>4. QED
    BY <1>2, <1>9, <2>1, <2>2, <2>3, Zenon DEF ChatInv, ChatTyped
<1>12. QED
  BY <1>9, <1>10, <1>11 DEF ChatInv

\* The stop frees the page at once; the question settles later.
LEMMA ChatStops ==
  ASSUME ChatInv, ChatPg!HandleStopGeneration
  PROVE  ChatInv'
<1>1. /\ ask' = IF controller # None THEN [ask EXCEPT ![controller].aborted = TRUE] ELSE ask
      /\ isStreaming' = FALSE /\ currentStage' = None
      /\ UNCHANGED <<conversations, thread, spent, activeConvId, controller>>
  BY DEF ChatPg!HandleStopGeneration
<1>2. ask \in [Ask -> ChatPg!Question \cup {None}] /\ controller \in Ask \cup {None}
  BY DEF ChatInv, ChatTyped
<1>3. CASE controller = None
  <2>1. ask' = ask
    BY <1>1, <1>3
  <2>2. ChatTyped'
    BY <1>1, <2>1 DEF ChatInv, ChatTyped
  <2>3. MessagesFollowAsks' /\ PageFollowsAsks'
    BY <1>1, <1>3, <2>1 DEF ChatInv, MessagesFollowAsks, FollowsItsAsk, PageFollowsAsks, ChatPg!UnderWay
  <2>4. QED
    BY <2>2, <2>3 DEF ChatInv
<1>4. CASE controller # None
  <2>1. PICK q \in Ask : q = controller
    BY <1>2, <1>4
  <2>2. ChatPg!UnderWay(q)
    BY <1>4, <2>1 DEF ChatInv, PageFollowsAsks
  <2>3. PICK new : new = [ask[q] EXCEPT !.aborted = TRUE]
    OBVIOUS
  <2>4. ask[q] # None /\ ask[q] \in ChatPg!Question
    BY <2>2, QuestionFacts DEF ChatPg!UnderWay
  <2>5. new \in ChatPg!Question /\ new.stage = ask[q].stage /\ new.chat = ask[q].chat
    BY <2>3, <2>4 DEF ChatPg!Question
  <2>6. ask' = [ask EXCEPT ![q] = new]
    BY <1>1, <1>4, <2>1, <2>3
  <2>7. new # None /\ ask'[q] = new /\ \A r \in Ask \ {q} : ask'[r] = ask[r]
    BY <1>2, <2>5, <2>6, ChatAssumption
  <2>8. \A r \in Ask : ChatPg!UnderWay(r)' <=> ChatPg!UnderWay(r)
    BY <2>2, <2>5, <2>7 DEF ChatPg!UnderWay
  <2>9. MessagesFollowAsks'
    <3>1. \A r \in Ask : ask[r] # None =>
            /\ ask'[r] # None /\ ask'[r].chat = ask[r].chat
            /\ ~ChatPg!UnderWay(r) => ask'[r].aborted = ask[r].aborted
      BY <2>2, <2>5, <2>7
    <3>2. thread' = thread
      BY <1>1
    <3>3. QED
      BY <2>8, <3>1, <3>2, ChatThreadsKept
  <2>10. PageFollowsAsks'
    BY <1>1, <2>1, <2>2, <2>8 DEF PageFollowsAsks
  <2>11. ChatTyped'
    <3>1. ask' \in [Ask -> ChatPg!Question \cup {None}]
      BY <1>2, <2>5, <2>6
    <3>2. isStreaming' \in BOOLEAN /\ currentStage' \in Range(ChatPg!Stages) \cup {None}
      BY <1>1
    <3>3. QED
      BY <1>1, <3>1, <3>2, Zenon DEF ChatInv, ChatTyped
  <2>12. QED
    BY <2>9, <2>10, <2>11 DEF ChatInv
<1>5. QED
  BY <1>3, <1>4

LEMMA ChatStep == ChatInv /\ ChatPg!Next => ChatInv'
<1> SUFFICES ASSUME ChatInv, ChatPg!Next PROVE ChatInv'
  OBVIOUS
<1>1. ASSUME NEW c \in Chat, ChatPg!NewChat(c) PROVE ChatInv'
  <2>1. /\ c \notin ChatPg!Listed /\ conversations' = <<c>> \o conversations /\ activeConvId' = c
        /\ UNCHANGED <<thread, spent, isStreaming, currentStage, controller, ask>>
    BY <1>1 DEF ChatPg!NewChat, ChatPg!Fresh
  <2>2. /\ conversations' \in Seq(Chat) /\ 1 \in DOMAIN conversations' /\ conversations'[1] = c
        /\ \A i, k \in DOMAIN conversations' : conversations'[i] = conversations'[k] => i = k
    BY <2>1, ChatInFront DEF ChatInv
  <2>3. QED
    BY <2>1, <2>2, ChatListOnly
<1>2. ASSUME NEW c \in Chat, ChatPg!Select(c) PROVE ChatInv'
  <2>1. /\ conversations' = conversations /\ activeConvId' = c
        /\ UNCHANGED <<thread, spent, isStreaming, currentStage, controller, ask>>
    BY <1>2 DEF ChatPg!Select
  <2>2. \E i \in DOMAIN conversations : conversations[i] = c
    BY <1>2 DEF ChatPg!Select, ChatPg!Listed, ChatPg!Range
  <2>3. /\ conversations' \in Seq(Chat)
        /\ \A i, k \in DOMAIN conversations' : conversations'[i] = conversations'[k] => i = k
        /\ \E i \in DOMAIN conversations' : conversations'[i] = activeConvId'
    BY <2>1, <2>2, Zenon DEF ChatInv, ChatTyped
  <2>4. QED
    BY <2>1, <2>3, ChatListOnly
<1>3. ASSUME NEW q \in Ask, NEW topic \in Topics, ChatPg!HandleSendMessage(q, topic) PROVE ChatInv'
  <2>1. activeConvId \in Chat /\ thread[activeConvId] \in Seq(ChatPg!Message)
    BY DEF ChatInv, ChatTyped
  <2>2. PICK kept : kept = thread[activeConvId]
    OBVIOUS
  <2>3. ChatPg!Send(q, topic, kept)
    BY <1>3, <2>2 DEF ChatPg!HandleSendMessage
  <2>4. QED
    BY <2>1, <2>2, <2>3, ChatSends
<1>4. ASSUME NEW q \in Ask, NEW topic \in Topics, NEW i, ChatPg!HandleRetry(q, topic, i) PROVE ChatInv'
  <2>1. PICK list : list = thread[activeConvId]
    OBVIOUS
  <2>2. activeConvId \in Chat /\ list \in Seq(ChatPg!Message)
    BY <2>1 DEF ChatInv, ChatTyped
  <2>3. i \in 2 .. Len(list)
    BY <1>4, <2>1 DEF ChatPg!HandleRetry
  <2>4. PICK keep : keep = DOMAIN list \ {i}
    OBVIOUS
  <2>5. PICK kept : kept = Kept(list, keep)
    OBVIOUS
  <2>6. ChatPg!Send(q, topic, kept)
    <3>1. ChatPg!Kept(list, keep) = kept
      BY <2>5, Zenon DEF ChatPg!Kept, Kept
    <3>2. ChatPg!Send(q, topic, ChatPg!Kept(list, keep))
      BY <1>4, <2>1, <2>4, Zenon DEF ChatPg!HandleRetry
    <3>3. QED
      BY <3>1, <3>2, Zenon
  <2>7. kept \in Seq(ChatPg!Message) /\ PartOf(kept, list, keep, Len(list))
    BY <2>2, <2>5, KeptIsPart
  <2>8. \A k \in 1 .. Len(kept) : \E j \in 1 .. Len(list) : kept[k] = list[j]
    BY <2>7, Zenon DEF PartOf
  <2>9. \A k \in DOMAIN kept : \E j \in DOMAIN list : kept[k] = list[j]
    BY <2>2, <2>7, <2>8
  <2>10. QED
    BY <2>1, <2>6, <2>7, <2>9, ChatSends
<1>5. QED
  BY <1>1, <1>2, <1>3, <1>4, ChatDeletes, ChatNextStage, ChatStreamWord, ChatSettles, ChatStops DEF ChatPg!Next

LEMMA ChatKept == ChatInv /\ UNCHANGED chatVars => ChatInv'
BY DEF chatVars, ChatInv, ChatTyped, MessagesFollowAsks, FollowsItsAsk, PageFollowsAsks, ChatPg!UnderWay

\* What the page promises follows from it.
LEMMA ChatPromises == ChatInv => ChatPg!TypeOK /\ ChatPg!NothingHangs /\ ChatPg!AnswersAreGrounded
<1> SUFFICES ASSUME ChatInv PROVE ChatPg!TypeOK /\ ChatPg!NothingHangs /\ ChatPg!AnswersAreGrounded
  OBVIOUS
<1>1. PICK n : n = Len(conversations)
  OBVIOUS
<1>2. conversations \in Seq(Chat) /\ DOMAIN conversations = 1 .. n /\ \A i \in 1 .. n : conversations[i] \in Chat
  BY <1>1 DEF ChatInv, ChatTyped
<1>3. ChatPg!Listed \subseteq Chat
  BY <1>2 DEF ChatPg!Listed, ChatPg!Range
<1>4. ASSUME NEW c \in Chat PROVE ChatPg!Range(thread[c]) \subseteq ChatPg!Message /\ spent[c] \in Nat
  <2>1. thread[c] \in Seq(ChatPg!Message) /\ spent[c] \in Nat
    BY DEF ChatInv, ChatTyped
  <2>2. \A i \in DOMAIN thread[c] : thread[c][i] \in ChatPg!Message
    BY <2>1
  <2>3. QED
    BY <2>1, <2>2 DEF ChatPg!Range
<1>5. ChatPg!IsInjective(conversations) /\ activeConvId \in ChatPg!Listed
  BY Zenon DEF ChatInv, ChatTyped, ChatPg!IsInjective, ChatPg!Listed, ChatPg!Range
<1>6. currentStage \in ChatPg!Range(ChatPg!Stages) \cup {None}
  BY DEF ChatInv, ChatTyped, Range, ChatPg!Range
<1>7. ChatPg!TypeOK
  BY <1>3, <1>4, <1>5, <1>6 DEF ChatInv, ChatTyped, ChatPg!TypeOK
<1>8. ASSUME NEW c \in ChatPg!Listed, NEW i \in DOMAIN thread[c]
      PROVE  FollowsItsAsk(thread[c][i], c)
  BY <1>3, Zenon DEF ChatInv, MessagesFollowAsks
<1>9. ChatPg!NothingHangs
  BY <1>8 DEF ChatInv, PageFollowsAsks, FollowsItsAsk, ChatPg!NothingHangs
<1>10. ChatPg!AnswersAreGrounded
  BY <1>8 DEF FollowsItsAsk, ChatPg!AnswersAreGrounded
<1>11. QED
  BY <1>7, <1>9, <1>10
-----------------------------------------------------------------------------
(***************************************************************************)
(* The jobs                                                                *)
(***************************************************************************)
\* Timers are of jobs that exist, and no more than there were clicks.
JobsInv ==
  /\ JobsPg!TypeOK /\ JobsPg!NothingHangs
  /\ \A s \in starting : s[1] \in finishing
  /\ \A j \in JobsPg!Job : /\ redoing[j] <= clicks
                           /\ j \in finishing \/ redoing[j] > 0 => jobs[j] # None
  /\ reaping <= clicks
  /\ selectedJob # None => jobs[selectedJob.id] # None
LEMMA JobsInit == JobsPg!Init => JobsInv
<1> SUFFICES ASSUME JobsPg!Init PROVE JobsInv
  OBVIOUS
<1>1. \A j \in DOMAIN JobsPg!SeedJobs : JobsPg!SeedJobs[j] \in JobsPg!Row
  <2>1. /\ [state |-> "COMPLETED", worker |-> "REPOSITORY_INDEX"] \in JobsPg!Row
        /\ [state |-> "PROCESSING", worker |-> "EMBEDDING_GENERATION"] \in JobsPg!Row
        /\ [state |-> "RETRYING", worker |-> "AI_REVIEW"] \in JobsPg!Row
        /\ [state |-> "COMPLETED", worker |-> "TEST_EXECUTION"] \in JobsPg!Row
        /\ [state |-> "COMPLETED", worker |-> "CODE_ANALYSIS"] \in JobsPg!Row
        /\ [state |-> "DEAD_LETTER", worker |-> None] \in JobsPg!Row
    BY DEF JobsPg!Row, JobsPg!JobState, JobsPg!JobType
  <2>2. QED
    BY <2>1 DEF JobsPg!SeedJobs
<1>2. \A j \in JobsPg!Job : j \notin NewJob => j \in DOMAIN JobsPg!SeedJobs
  BY DEF JobsPg!Job
<1>3. \A j \in JobsPg!Job : jobs[j] = IF j \in NewJob THEN None ELSE JobsPg!SeedJobs[j]
  BY DEF JobsPg!Init
<1>4. JobsPg!TypeOK
  <2>1. jobs \in [JobsPg!Job -> JobsPg!Row \cup {None}]
    BY <1>1, <1>2 DEF JobsPg!Init
  <2>2. workers \in [JobsPg!JobType -> {"ALIVE", "BUSY", "DEAD"}]
    BY DEF JobsPg!Init, JobsPg!SeedWorkers
  <2>3. QED
    BY <2>1, <2>2, JobsAssumption DEF JobsPg!Init, JobsPg!TypeOK
<1>5. JobsPg!NothingHangs
  BY <1>2, <1>3 DEF JobsPg!NothingHangs, JobsPg!Shown
<1>6. QED
  BY <1>4, <1>5 DEF JobsInv, JobsPg!Init

LEMMA JobsFacts ==
  ASSUME JobsInv
  PROVE  /\ jobs \in [JobsPg!Job -> JobsPg!Row \cup {None}]
         /\ workers \in [JobsPg!JobType -> {"ALIVE", "BUSY", "DEAD"}]
         /\ starting \subseteq NewJob \X EnqueuedType /\ finishing \subseteq NewJob
         /\ redoing \in [JobsPg!Job -> 0 .. MaxClicks] /\ reaping \in 0 .. MaxClicks /\ clicks \in 0 .. MaxClicks
         /\ selectedJob \in JobsPg!Drawer \cup {None}
         /\ MaxClicks \in Nat /\ None \notin JobsPg!Row /\ None \notin JobsPg!Drawer
         /\ NewJob \subseteq JobsPg!Job /\ EnqueuedType \subseteq JobsPg!JobType
         /\ \A s \in starting : s[1] \in finishing
         /\ \A j \in JobsPg!Job : /\ redoing[j] <= clicks
                                  /\ j \in finishing \/ redoing[j] > 0 => jobs[j] # None
         /\ reaping <= clicks
         /\ selectedJob # None => jobs[selectedJob.id] # None
BY JobsAssumption DEF JobsInv, JobsPg!TypeOK, JobsPg!Job

\* A job that nothing has happened to.
JobsSettled(j) ==
  JobsPg!Shown(j) /\ jobs[j].state \in {"QUEUED", "PROCESSING", "RETRYING"} =>
    \/ j \in finishing
    \/ redoing[j] > 0
    \/ j \in DOMAIN JobsPg!SeedJobs /\ jobs[j] = JobsPg!SeedJobs[j]

\* A row gets a state that is final or that a timer of it will finish.
LEMMA JobsRowChanges ==
  ASSUME JobsInv, NEW j \in JobsPg!Job, NEW state \in JobsPg!JobState, jobs[j] # None,
         jobs' = [jobs EXCEPT ![j].state = state],
         UNCHANGED <<workers, starting, reaping>>,
         finishing' \subseteq finishing, \A k \in finishing : k # j => k \in finishing',
         \A s \in starting : s[1] \in finishing',
         NEW n \in Nat, redoing' = [redoing EXCEPT ![j] = n], n <= clicks',
         clicks' \in 0 .. MaxClicks, clicks <= clicks',
         selectedJob' = selectedJob \/ selectedJob' = None,
         state \in {"COMPLETED", "CANCELLED"} \/ n > 0
  PROVE  JobsInv'
<1>1. PICK new : new = [jobs[j] EXCEPT !.state = state]
  OBVIOUS
<1>2. jobs[j] \in JobsPg!Row
  BY JobsFacts
<1>3. new \in JobsPg!Row /\ new.state = state
  BY <1>1, <1>2 DEF JobsPg!Row
<1>4. jobs' = [jobs EXCEPT ![j] = new]
  BY <1>1
<1>5. new # None
  BY <1>3, JobsFacts
<1>6. /\ jobs' \in [JobsPg!Job -> JobsPg!Row \cup {None}]
      /\ jobs'[j] = new /\ \A k \in JobsPg!Job \ {j} : jobs'[k] = jobs[k]
  <2>1. jobs \in [JobsPg!Job -> JobsPg!Row \cup {None}]
    BY JobsFacts
  <2>2. QED
    BY <1>3, <1>4, <2>1
<1>7. /\ redoing' \in [JobsPg!Job -> 0 .. MaxClicks]
      /\ redoing'[j] = n /\ \A k \in JobsPg!Job \ {j} : redoing'[k] = redoing[k]
  <2>1. redoing \in [JobsPg!Job -> 0 .. MaxClicks] /\ n \in 0 .. MaxClicks
    BY JobsFacts
  <2>2. QED
    BY <2>1
<1>8. JobsPg!TypeOK'
  <2>1. /\ workers' \in [JobsPg!JobType -> {"ALIVE", "BUSY", "DEAD"}]
        /\ starting' \subseteq NewJob \X EnqueuedType /\ finishing' \subseteq NewJob
        /\ reaping' \in 0 .. MaxClicks /\ clicks' \in 0 .. MaxClicks
        /\ selectedJob' \in JobsPg!Drawer \cup {None}
    BY JobsFacts
  <2>2. QED
    BY <1>6, <1>7, <2>1 DEF JobsPg!TypeOK
<1>9. JobsPg!NothingHangs'
  <2> SUFFICES ASSUME NEW k \in JobsPg!Job PROVE JobsSettled(k)'
    BY DEF JobsPg!NothingHangs, JobsSettled
  <2>1. CASE k = j
    BY <1>3, <1>6, <1>7, <2>1 DEF JobsSettled
  <2>2. CASE k # j
    <3>1. JobsSettled(k)
      BY DEF JobsInv, JobsPg!NothingHangs, JobsSettled
    <3>2. jobs'[k] = jobs[k] /\ redoing'[k] = redoing[k] /\ (k \in finishing => k \in finishing')
      BY <1>6, <1>7, <2>2
    <3>3. QED
      BY <3>1, <3>2 DEF JobsSettled, JobsPg!Shown
  <2>3. QED
    BY <2>1, <2>2
<1>10. ASSUME NEW k \in JobsPg!Job
       PROVE  redoing'[k] <= clicks' /\ (k \in finishing' \/ redoing'[k] > 0 => jobs'[k] # None)
  <2>1. CASE k = j
    BY <1>5, <1>6, <1>7, <2>1
  <2>2. CASE k # j
    <3>1. redoing[k] \in Nat /\ redoing[k] <= clicks /\ clicks \in Nat /\ clicks' \in Nat
      BY JobsFacts
    <3>2. redoing'[k] <= clicks'
      BY <1>7, <2>2, <3>1
    <3>3. QED
      BY <1>6, <1>7, <2>2, <3>2, JobsFacts
  <2>3. QED
    BY <2>1, <2>2
<1>11. selectedJob' # None => jobs'[selectedJob'.id] # None
  <2>1. selectedJob # None => selectedJob.id \in JobsPg!Job /\ jobs[selectedJob.id] # None
    BY JobsFacts DEF JobsPg!Drawer
  <2>2. QED
    BY <1>5, <1>6, <2>1
<1>12. reaping' <= clicks'
  <2>1. reaping \in Nat /\ reaping <= clicks /\ clicks \in Nat /\ clicks' \in Nat
    BY JobsFacts
  <2>2. QED
    BY <2>1
<1>13. QED
  BY <1>8, <1>9, <1>10, <1>11, <1>12 DEF JobsInv

\* A click more, and a job with both of its timers.
LEMMA JobsEnqueue ==
  ASSUME JobsInv, NEW j \in NewJob, NEW type \in EnqueuedType, JobsPg!HandleEnqueueSubmit(j, type)
  PROVE  JobsInv'
<1>1. PICK new : new = [state |-> "QUEUED", worker |-> None]
  OBVIOUS
<1>2. /\ clicks' = clicks + 1 /\ clicks < MaxClicks /\ jobs[j] = None /\ jobs' = [jobs EXCEPT ![j] = new]
      /\ starting' = starting \cup {<<j, type>>} /\ finishing' = finishing \cup {j}
      /\ UNCHANGED <<workers, redoing, reaping, selectedJob>>
  BY <1>1 DEF JobsPg!HandleEnqueueSubmit, JobsPg!Click
<1>3. new \in JobsPg!Row /\ new # None /\ j \in JobsPg!Job
  <2>1. new \in JobsPg!Row
    BY <1>1 DEF JobsPg!Row, JobsPg!JobState
  <2>2. QED
    BY <2>1, JobsFacts
<1>4. /\ jobs' \in [JobsPg!Job -> JobsPg!Row \cup {None}]
      /\ jobs'[j] = new /\ \A k \in JobsPg!Job \ {j} : jobs'[k] = jobs[k]
  <2>1. jobs \in [JobsPg!Job -> JobsPg!Row \cup {None}]
    BY JobsFacts
  <2>2. QED
    BY <1>2, <1>3, <2>1
<1>5. clicks \in Nat /\ clicks' \in Nat /\ clicks <= clicks' /\ clicks' \in 0 .. MaxClicks
  BY <1>2, JobsFacts
<1>6. JobsPg!TypeOK'
  <2>1. /\ starting' \subseteq NewJob \X EnqueuedType /\ finishing' \subseteq NewJob
    BY <1>2, JobsFacts
  <2>2. QED
    BY <1>2, <1>4, <1>5, <2>1, JobsFacts DEF JobsPg!TypeOK
<1>7. JobsPg!NothingHangs'
  <2> SUFFICES ASSUME NEW k \in JobsPg!Job PROVE JobsSettled(k)'
    BY DEF JobsPg!NothingHangs, JobsSettled
  <2>1. CASE k = j
    BY <1>2, <2>1 DEF JobsSettled
  <2>2. CASE k # j
    <3>1. JobsSettled(k)
      BY DEF JobsInv, JobsPg!NothingHangs, JobsSettled
    <3>2. QED
      BY <1>2, <1>4, <2>2, <3>1 DEF JobsSettled, JobsPg!Shown
  <2>3. QED
    BY <2>1, <2>2
<1>8. \A s \in starting' : s[1] \in finishing'
  BY <1>2, JobsFacts
<1>9. ASSUME NEW k \in JobsPg!Job
      PROVE  redoing'[k] <= clicks' /\ (k \in finishing' \/ redoing'[k] > 0 => jobs'[k] # None)
  <2>1. redoing[k] \in Nat /\ redoing[k] <= clicks
    BY JobsFacts
  <2>2. k \in finishing' \/ redoing'[k] > 0 => jobs'[k] # None
    BY <1>2, <1>3, <1>4, JobsFacts
  <2>3. QED
    BY <1>2, <1>5, <2>1, <2>2
<1>10. selectedJob' # None => jobs'[selectedJob'.id] # None
  <2>1. selectedJob # None => selectedJob.id \in JobsPg!Job /\ jobs[selectedJob.id] # None
    BY JobsFacts DEF JobsPg!Drawer
  <2>2. QED
    BY <1>2, <1>3, <1>4, <2>1
<1>11. reaping' <= clicks'
  <2>1. reaping \in Nat /\ reaping <= clicks
    BY JobsFacts
  <2>2. QED
    BY <1>2, <1>5, <2>1
<1>12. QED
  BY <1>6, <1>7, <1>8, <1>9, <1>10, <1>11 DEF JobsInv

\* The shorter timer ends, and the longer one is still set.
LEMMA JobsStartTimer ==
  ASSUME JobsInv, NEW j \in NewJob, NEW type \in EnqueuedType, JobsPg!StartTimer(j, type)
  PROVE  JobsInv'
<1>1. PICK new : new = [state |-> "PROCESSING", worker |-> type]
  OBVIOUS
<1>2. /\ <<j, type>> \in starting /\ starting' = starting \ {<<j, type>>} /\ jobs' = [jobs EXCEPT ![j] = new]
      /\ UNCHANGED <<workers, finishing, redoing, reaping, selectedJob, clicks>>
  BY <1>1 DEF JobsPg!StartTimer
<1>3. new \in JobsPg!Row /\ new # None /\ j \in JobsPg!Job /\ j \in finishing
  <2>1. new \in JobsPg!Row
    BY <1>1, JobsFacts DEF JobsPg!Row, JobsPg!JobState
  <2>2. QED
    BY <1>2, <2>1, JobsFacts
<1>4. /\ jobs' \in [JobsPg!Job -> JobsPg!Row \cup {None}]
      /\ jobs'[j] = new /\ \A k \in JobsPg!Job \ {j} : jobs'[k] = jobs[k]
  <2>1. jobs \in [JobsPg!Job -> JobsPg!Row \cup {None}]
    BY JobsFacts
  <2>2. QED
    BY <1>2, <1>3, <2>1
<1>5. JobsPg!TypeOK'
  BY <1>2, <1>4, JobsFacts DEF JobsPg!TypeOK
<1>6. JobsPg!NothingHangs'
  <2> SUFFICES ASSUME NEW k \in JobsPg!Job PROVE JobsSettled(k)'
    BY DEF JobsPg!NothingHangs, JobsSettled
  <2>1. CASE k = j
    BY <1>2, <1>3, <2>1 DEF JobsSettled
  <2>2. CASE k # j
    <3>1. JobsSettled(k)
      BY DEF JobsInv, JobsPg!NothingHangs, JobsSettled
    <3>2. QED
      BY <1>2, <1>4, <2>2, <3>1 DEF JobsSettled, JobsPg!Shown
  <2>3. QED
    BY <2>1, <2>2
<1>7. \A k \in JobsPg!Job : redoing'[k] <= clicks' /\ (k \in finishing' \/ redoing'[k] > 0 => jobs'[k] # None)
  BY <1>2, <1>3, <1>4, JobsFacts
<1>8. selectedJob' # None => jobs'[selectedJob'.id] # None
  <2>1. selectedJob # None => selectedJob.id \in JobsPg!Job /\ jobs[selectedJob.id] # None
    BY JobsFacts DEF JobsPg!Drawer
  <2>2. QED
    BY <1>2, <1>3, <1>4, <2>1
<1>9. (\A s \in starting' : s[1] \in finishing') /\ reaping' <= clicks'
  BY <1>2, JobsFacts
<1>10. QED
  BY <1>5, <1>6, <1>7, <1>8, <1>9 DEF JobsInv

\* The reaper gives rows back and takes none away.
LEMMA JobsReaper ==
  ASSUME JobsInv, JobsPg!ReaperTimer
  PROVE  JobsInv'
<1>1. PICK new : new = [state |-> "RETRYING", worker |-> None]
  OBVIOUS
<1>2. /\ reaping > 0 /\ reaping' = reaping - 1
      /\ jobs' = [j \in JobsPg!Job |->
                    IF JobsPg!Shown(j) /\ jobs[j].state = "PROCESSING" /\ jobs[j].worker = "REPOSITORY_INDEX"
                    THEN new ELSE jobs[j]]
      /\ UNCHANGED <<workers, starting, finishing, redoing, selectedJob, clicks>>
  BY <1>1 DEF JobsPg!ReaperTimer
<1>3. new \in JobsPg!Row /\ new # None
  <2>1. new \in JobsPg!Row
    BY <1>1 DEF JobsPg!Row, JobsPg!JobState
  <2>2. QED
    BY <2>1, JobsFacts
<1>4. ASSUME NEW j \in JobsPg!Job
      PROVE  \/ jobs'[j] = jobs[j]
             \/ /\ jobs'[j] = new /\ JobsPg!Shown(j) /\ jobs[j].state = "PROCESSING"
                /\ jobs[j].worker = "REPOSITORY_INDEX"
  BY <1>2
<1>5. jobs' \in [JobsPg!Job -> JobsPg!Row \cup {None}]
  <2>1. \A j \in JobsPg!Job : jobs[j] \in JobsPg!Row \cup {None}
    BY JobsFacts
  <2>2. QED
    BY <1>2, <1>3, <2>1
<1>6. \A j \in JobsPg!Job : jobs'[j] = None <=> jobs[j] = None
  BY <1>3, <1>4 DEF JobsPg!Shown
<1>7. reaping \in 0 .. MaxClicks /\ reaping' \in 0 .. MaxClicks /\ reaping' <= clicks' /\ clicks \in Nat
  BY <1>2, JobsFacts
<1>8. JobsPg!TypeOK'
  BY <1>2, <1>5, <1>7, JobsFacts DEF JobsPg!TypeOK
<1>9. JobsPg!NothingHangs'
  <2> SUFFICES ASSUME NEW k \in JobsPg!Job PROVE JobsSettled(k)'
    BY DEF JobsPg!NothingHangs, JobsSettled
  <2>1. JobsSettled(k)
    BY DEF JobsInv, JobsPg!NothingHangs, JobsSettled
  <2>2. CASE jobs'[k] = jobs[k]
    BY <1>2, <2>1, <2>2 DEF JobsSettled, JobsPg!Shown
  <2>3. CASE JobsPg!Shown(k) /\ jobs[k].state = "PROCESSING" /\ jobs[k].worker = "REPOSITORY_INDEX"
    <3>1. k \in DOMAIN JobsPg!SeedJobs => jobs[k] # JobsPg!SeedJobs[k]
      BY <2>3 DEF JobsPg!SeedJobs
    <3>2. QED
      BY <1>2, <2>1, <2>3, <3>1 DEF JobsSettled
  <2>4. QED
    BY <1>4, <2>2, <2>3
<1>10. selectedJob' # None => jobs'[selectedJob'.id] # None
  <2>1. selectedJob # None => selectedJob.id \in JobsPg!Job /\ jobs[selectedJob.id] # None
    BY JobsFacts DEF JobsPg!Drawer
  <2>2. QED
    BY <1>2, <1>6, <2>1
<1>11. \A k \in JobsPg!Job : redoing'[k] <= clicks' /\ (k \in finishing' \/ redoing'[k] > 0 => jobs'[k] # None)
  BY <1>2, <1>6, JobsFacts
<1>12. \A s \in starting' : s[1] \in finishing'
  BY <1>2, JobsFacts
<1>13. QED
  BY <1>7, <1>8, <1>9, <1>10, <1>11, <1>12 DEF JobsInv

\* What leaves the rows and their timers as they are.
LEMMA JobsRowsKept ==
  ASSUME JobsInv, UNCHANGED <<jobs, starting, finishing, redoing>>,
         NEW fleet \in [JobsPg!JobType -> {"ALIVE", "BUSY", "DEAD"}], workers' = fleet,
         clicks' = clicks + 1, clicks < MaxClicks, reaping' = reaping \/ reaping' = reaping + 1,
         NEW shownIn \in JobsPg!Drawer \cup {None}, selectedJob' = shownIn,
         shownIn # None => jobs[shownIn.id] # None
  PROVE  JobsInv'
<1>1. /\ clicks \in 0 .. MaxClicks /\ reaping \in 0 .. MaxClicks /\ reaping <= clicks /\ MaxClicks \in Nat
  BY JobsFacts
<1>2. clicks' \in 0 .. MaxClicks /\ reaping' \in 0 .. MaxClicks /\ reaping' <= clicks' /\ clicks <= clicks'
  BY <1>1
<1>3. JobsPg!TypeOK'
  BY <1>2, JobsFacts DEF JobsPg!TypeOK
<1>4. JobsPg!NothingHangs'
  BY DEF JobsInv, JobsPg!NothingHangs, JobsPg!Shown
<1>5. ASSUME NEW k \in JobsPg!Job PROVE redoing'[k] <= clicks'
  <2>1. redoing[k] \in Nat /\ redoing[k] <= clicks
    BY JobsFacts
  <2>2. QED
    BY <1>1, <1>2, <2>1
<1>6. /\ \A s \in starting' : s[1] \in finishing'
      /\ \A k \in JobsPg!Job : k \in finishing' \/ redoing'[k] > 0 => jobs'[k] # None
      /\ selectedJob' # None => jobs'[selectedJob'.id] # None
  BY JobsFacts
<1>7. QED
  BY <1>2, <1>3, <1>4, <1>5, <1>6 DEF JobsInv

LEMMA JobsStep == JobsInv /\ JobsPg!Next => JobsInv'
<1> SUFFICES ASSUME JobsInv, JobsPg!Next PROVE JobsInv'
  OBVIOUS
<1>1. /\ "COMPLETED" \in JobsPg!JobState /\ "CANCELLED" \in JobsPg!JobState /\ "PROCESSING" \in JobsPg!JobState
  BY DEF JobsPg!JobState
<1>2. /\ clicks \in 0 .. MaxClicks /\ clicks \in Nat /\ MaxClicks \in Nat
      /\ \A k \in JobsPg!Job : redoing[k] \in Nat /\ redoing[k] <= clicks
      /\ redoing \in [JobsPg!Job -> 0 .. MaxClicks]
  BY JobsFacts
<1>3. ASSUME NEW j \in JobsPg!Job, JobsPg!FinishTimer(j) PROVE JobsInv'
  <2>1. /\ j \in finishing /\ (\A s \in starting : s[1] # j) /\ finishing' = finishing \ {j}
        /\ jobs' = [jobs EXCEPT ![j].state = "COMPLETED"]
        /\ UNCHANGED <<workers, starting, redoing, reaping, selectedJob, clicks>>
    BY <1>3 DEF JobsPg!FinishTimer
  <2>2. jobs[j] # None /\ \A s \in starting : s[1] \in finishing'
    BY <2>1, JobsFacts
  <2>3. PICK n : n = redoing[j]
    OBVIOUS
  <2>4. n \in Nat /\ redoing' = [redoing EXCEPT ![j] = n] /\ n <= clicks'
    BY <1>2, <2>1, <2>3
  <2>5. clicks' \in 0 .. MaxClicks /\ clicks <= clicks' /\ (\A k \in finishing : k # j => k \in finishing')
        /\ finishing' \subseteq finishing
    BY <1>2, <2>1
  <2>6. QED
    BY <1>1, <2>1, <2>2, <2>4, <2>5, JobsRowChanges
<1>4. ASSUME NEW j \in JobsPg!Job, JobsPg!Click, jobs[j] # None, JobsPg!Requeue(j),
             UNCHANGED <<workers, starting, finishing, reaping>>,
             selectedJob' = selectedJob \/ selectedJob' = None
      PROVE  JobsInv'
  <2>1. PICK n : n = redoing[j] + 1
    OBVIOUS
  <2>2. jobs' = [jobs EXCEPT ![j].state = "PROCESSING"] /\ redoing' = [redoing EXCEPT ![j] = n]
    BY <1>4, <2>1 DEF JobsPg!Requeue
  <2>3. n \in Nat /\ n <= clicks' /\ n > 0 /\ clicks' \in 0 .. MaxClicks /\ clicks <= clicks'
    BY <1>2, <1>4, <2>1 DEF JobsPg!Click
  <2>4. /\ \A s \in starting : s[1] \in finishing'
        /\ finishing' \subseteq finishing /\ (\A k \in finishing : k # j => k \in finishing')
    BY <1>4, JobsFacts
  <2>5. UNCHANGED <<workers, starting, reaping>>
    BY <1>4
  <2>6. QED
    BY <1>1, <1>4, <2>2, <2>3, <2>4, <2>5, JobsRowChanges
<1>5. ASSUME NEW j \in JobsPg!Job, JobsPg!HandleRetryJob(j) PROVE JobsInv'
  BY <1>4, <1>5 DEF JobsPg!HandleRetryJob, JobsPg!Shown
<1>6. CASE JobsPg!RequeueFromDrawer
  <2>1. selectedJob.id \in JobsPg!Job /\ jobs[selectedJob.id] # None
    BY <1>6, JobsFacts DEF JobsPg!RequeueFromDrawer, JobsPg!Drawer
  <2>2. QED
    BY <1>4, <1>6, <2>1 DEF JobsPg!RequeueFromDrawer
<1>7. ASSUME NEW j \in JobsPg!Job, JobsPg!RedoTimer(j) PROVE JobsInv'
  <2>1. PICK n : n = redoing[j] - 1
    OBVIOUS
  <2>2. /\ redoing[j] > 0 /\ redoing' = [redoing EXCEPT ![j] = n] /\ jobs' = [jobs EXCEPT ![j].state = "COMPLETED"]
        /\ UNCHANGED <<workers, starting, finishing, reaping, selectedJob, clicks>>
    BY <1>7, <2>1 DEF JobsPg!RedoTimer
  <2>3. n \in Nat /\ n <= clicks' /\ clicks' \in 0 .. MaxClicks /\ clicks <= clicks'
    BY <1>2, <2>1, <2>2
  <2>4. /\ jobs[j] # None /\ \A s \in starting : s[1] \in finishing'
        /\ finishing' \subseteq finishing /\ (\A k \in finishing : k # j => k \in finishing')
    BY <2>2, JobsFacts
  <2>5. QED
    BY <1>1, <2>2, <2>3, <2>4, JobsRowChanges
<1>8. ASSUME NEW j \in JobsPg!Job, JobsPg!HandleCancelJob(j) PROVE JobsInv'
  <2>1. /\ jobs[j] # None /\ jobs' = [jobs EXCEPT ![j].state = "CANCELLED"] /\ JobsPg!Click
        /\ UNCHANGED <<workers, starting, finishing, redoing, reaping, selectedJob>>
    BY <1>8 DEF JobsPg!HandleCancelJob, JobsPg!Shown
  <2>2. PICK n : n = redoing[j]
    OBVIOUS
  <2>3. n \in Nat /\ redoing' = [redoing EXCEPT ![j] = n]
    BY <1>2, <2>1, <2>2
  <2>4. n <= clicks' /\ clicks' \in 0 .. MaxClicks /\ clicks <= clicks'
    BY <1>2, <2>1, <2>2 DEF JobsPg!Click
  <2>5. /\ \A s \in starting : s[1] \in finishing'
        /\ finishing' \subseteq finishing /\ (\A k \in finishing : k # j => k \in finishing')
    BY <2>1, JobsFacts
  <2>6. QED
    BY <1>1, <2>1, <2>3, <2>4, <2>5, JobsRowChanges
<1>9. ASSUME NEW j \in JobsPg!Job, JobsPg!ShowDetails(j) PROVE JobsInv'
  <2>1. PICK row : row = [id |-> j, state |-> jobs[j].state]
    OBVIOUS
  <2>2. /\ jobs[j] # None /\ selectedJob' = row /\ clicks' = clicks + 1 /\ clicks < MaxClicks
        /\ UNCHANGED <<jobs, workers, starting, finishing, redoing, reaping>>
    BY <1>9, <2>1 DEF JobsPg!ShowDetails, JobsPg!Click, JobsPg!Shown
  <2>3. row \in JobsPg!Drawer /\ row.id = j
    BY <2>1, <2>2, JobsFacts DEF JobsPg!Drawer, JobsPg!Row
  <2>4. workers \in [JobsPg!JobType -> {"ALIVE", "BUSY", "DEAD"}] /\ workers' = workers /\ reaping' = reaping
    BY <2>2, JobsFacts
  <2>5. row \in JobsPg!Drawer \cup {None} /\ jobs[row.id] # None
    BY <2>2, <2>3
  <2>6. QED
    BY <2>2, <2>4, <2>5, JobsRowsKept
<1>10. CASE JobsPg!ChaosCrash
  <2>1. PICK fleet : fleet = [workers EXCEPT !["REPOSITORY_INDEX"] = "DEAD"]
    OBVIOUS
  <2>2. /\ clicks' = clicks + 1 /\ clicks < MaxClicks /\ reaping' = reaping + 1 /\ workers' = fleet
        /\ UNCHANGED <<jobs, starting, finishing, redoing, selectedJob>>
    BY <1>10, <2>1 DEF JobsPg!ChaosCrash, JobsPg!Click
  <2>3. fleet \in [JobsPg!JobType -> {"ALIVE", "BUSY", "DEAD"}]
    BY <2>1, JobsFacts
  <2>4. /\ selectedJob \in JobsPg!Drawer \cup {None} /\ selectedJob' = selectedJob
        /\ selectedJob # None => jobs[selectedJob.id] # None
    BY <2>2, JobsFacts
  <2>5. QED
    BY <2>2, <2>3, <2>4, JobsRowsKept
<1>11. CASE JobsPg!ChaosRestore
  <2>1. PICK fleet : fleet = [t \in JobsPg!JobType |-> "ALIVE"]
    OBVIOUS
  <2>2. /\ clicks' = clicks + 1 /\ clicks < MaxClicks /\ reaping' = reaping /\ workers' = fleet
        /\ UNCHANGED <<jobs, starting, finishing, redoing, selectedJob>>
    BY <1>11, <2>1 DEF JobsPg!ChaosRestore, JobsPg!Click
  <2>3. fleet \in [JobsPg!JobType -> {"ALIVE", "BUSY", "DEAD"}]
    BY <2>1
  <2>4. /\ selectedJob \in JobsPg!Drawer \cup {None} /\ selectedJob' = selectedJob
        /\ selectedJob # None => jobs[selectedJob.id] # None
    BY <2>2, JobsFacts
  <2>5. QED
    BY <2>2, <2>3, <2>4, JobsRowsKept
<1>12. QED
  BY <1>3, <1>5, <1>6, <1>7, <1>8, <1>9, <1>10, <1>11, JobsEnqueue, JobsStartTimer, JobsReaper DEF JobsPg!Next

LEMMA JobsKept == JobsInv /\ UNCHANGED jobsVars => JobsInv'
BY DEF jobsVars, JobsInv, JobsPg!TypeOK, JobsPg!NothingHangs, JobsPg!Shown
-----------------------------------------------------------------------------
(***************************************************************************)
(* The agents                                                              *)
(***************************************************************************)
\* A run that is planned or executed is at the step its timer is about.
AgentsInv ==
  /\ AgentsPg!TypeOK /\ AgentsPg!NothingHangs /\ AgentsPg!RunsAddUp
  /\ listed \in Seq(AgentsPg!Run)
  /\ \A r \in planning : runs[r] = AgentsPg!Planned
  /\ \A r \in executing \ planning :
       runs[r] # None /\ runs[r].steps = <<<<"search_code">>>> /\ runs[r].sandboxedRunsCount = 0
\* The page's copy of the operator, which the library's facts are not about.
LEMMA AgentsCardinality == \A S : AgentsPg!Cardinality(S) = Cardinality(S)
BY Zenon DEF AgentsPg!Cardinality, Cardinality

LEMMA AgentsInit == AgentsPg!Init => AgentsInv
<1> SUFFICES ASSUME AgentsPg!Init PROVE AgentsInv
  OBVIOUS
<1>1. PICK list : list = AgentsPg!SeedSteps
  OBVIOUS
<1>2. list = <<<<"search_code">>, <<"read_file">>, <<"read_file">>, <<"run_tests">>,
               <<"create_patch", "create_branch">>>>
  BY <1>1 DEF AgentsPg!SeedSteps
<1>3. list \in Seq(Seq(AgentsPg!Tool)) /\ Len(list) = 5
  <2>1. /\ <<"search_code">> \in Seq(AgentsPg!Tool) /\ <<"read_file">> \in Seq(AgentsPg!Tool) /\ <<"run_tests">> \in Seq(AgentsPg!Tool)
        /\ <<"create_patch", "create_branch">> \in Seq(AgentsPg!Tool)
    BY DEF AgentsPg!Tool
  <2>2. QED
    BY <1>2, <2>1
<1>4. AgentsPg!Cardinality(AgentsPg!TestSteps(list)) = 1
  <2>1. /\ DOMAIN list = 1 .. 5 /\ list[1] = <<"search_code">> /\ list[2] = <<"read_file">>
        /\ list[3] = <<"read_file">> /\ list[4] = <<"run_tests">> /\ list[5] = <<"create_patch", "create_branch">>
    BY <1>2, <1>3
  <2>2. /\ "run_tests" \notin AgentsPg!Range(<<"search_code">>) /\ "run_tests" \notin AgentsPg!Range(<<"read_file">>)
        /\ "run_tests" \in AgentsPg!Range(<<"run_tests">>)
        /\ "run_tests" \notin AgentsPg!Range(<<"create_patch", "create_branch">>)
    BY DEF AgentsPg!Range
  <2>3. \A i \in 1 .. 5 : i = 1 \/ i = 2 \/ i = 3 \/ i = 4 \/ i = 5
    OBVIOUS
  <2>4. AgentsPg!TestSteps(list) = {4}
    BY <2>1, <2>2, <2>3 DEF AgentsPg!TestSteps
  <2>5. QED
    BY <2>4, FS_Singleton, AgentsCardinality
<1>5. PICK run : run = [status |-> "COMPLETED", steps |-> list, iterationsCount |-> 5, sandboxedRunsCount |-> 1,
                        patches |-> <<FALSE>>, pullRequest |-> FALSE, finalResponse |-> TRUE]
  OBVIOUS
<1>6. run \in AgentsPg!AgentRun /\ run # None
  <2>1. <<FALSE>> \in Seq(BOOLEAN)
    OBVIOUS
  <2>2. run \in AgentsPg!AgentRun
    BY <1>3, <1>5, <2>1 DEF AgentsPg!AgentRun
  <2>3. QED
    BY <2>2, AgentsAssumption
<1>7. /\ runs = [r \in AgentsPg!Run |-> IF r = Seed THEN run ELSE None]
      /\ listed = <<Seed>> /\ selectedRunId = Seed /\ isExecuting = FALSE /\ planning = {} /\ executing = {}
  BY <1>1, <1>5 DEF AgentsPg!Init, AgentsPg!SeedRun
<1>8. Seed \in AgentsPg!Run
  BY DEF AgentsPg!Run
<1>9. DOMAIN listed = 1 .. 1 /\ listed[1] = Seed /\ Len(listed) = 1 /\ listed \in Seq(AgentsPg!Run)
      /\ \A i \in 1 .. 1 : i = 1
  BY <1>7, <1>8
<1>10. AgentsPg!TypeOK
  <2>1. runs \in [AgentsPg!Run -> AgentsPg!AgentRun \cup {None}]
    BY <1>6, <1>7
  <2>2. AgentsPg!Range(listed) = {Seed}
    BY <1>9 DEF AgentsPg!Range
  <2>3. {r \in AgentsPg!Run : runs[r] # None} = {Seed}
    BY <1>6, <1>7, <1>8
  <2>4. AgentsPg!IsInjective(listed) /\ selectedRunId \in AgentsPg!Range(listed)
    BY <1>7, <1>9 DEF AgentsPg!IsInjective, AgentsPg!Range
  <2>5. QED
    BY <1>7, <2>1, <2>2, <2>3, <2>4 DEF AgentsPg!TypeOK
<1>11. AgentsPg!RunsAddUp
  <2> SUFFICES ASSUME NEW r \in AgentsPg!Run, runs[r] # None
               PROVE  /\ runs[r].iterationsCount = Len(runs[r].steps)
                      /\ runs[r].sandboxedRunsCount = AgentsPg!Cardinality(AgentsPg!TestSteps(runs[r].steps))
                      /\ runs[r].finalResponse <=> runs[r].status = "COMPLETED"
    BY Zenon DEF AgentsPg!RunsAddUp
  <2>1. runs[r] = run
    BY <1>7
  <2>2. QED
    BY <1>3, <1>4, <1>5, <2>1
<1>12. AgentsPg!NothingHangs
  BY <1>5, <1>7 DEF AgentsPg!NothingHangs
<1>13. QED
  BY <1>7, <1>9, <1>10, <1>11, <1>12 DEF AgentsInv

LEMMA AgentsFacts ==
  ASSUME AgentsInv
  PROVE  /\ runs \in [AgentsPg!Run -> AgentsPg!AgentRun \cup {None}]
         /\ listed \in Seq(AgentsPg!Run) /\ DOMAIN listed = 1 .. Len(listed)
         /\ \A i, k \in DOMAIN listed : listed[i] = listed[k] => i = k
         /\ \A r : (\E i \in DOMAIN listed : listed[i] = r) <=> r \in AgentsPg!Run /\ runs[r] # None
         /\ selectedRunId \in AgentsPg!Run /\ runs[selectedRunId] # None
         /\ isExecuting \in BOOLEAN /\ planning \subseteq executing /\ executing \subseteq NewRun
         /\ NewRun \subseteq AgentsPg!Run /\ None \notin AgentsPg!AgentRun
<1>1. AgentsPg!TypeOK /\ listed \in Seq(AgentsPg!Run)
  BY DEF AgentsInv
<1>2. DOMAIN listed = 1 .. Len(listed)
  BY <1>1
<1>3. \A r : (\E i \in DOMAIN listed : listed[i] = r) <=> r \in AgentsPg!Run /\ runs[r] # None
  <2>1. AgentsPg!Range(listed) = {r \in AgentsPg!Run : runs[r] # None}
    BY <1>1 DEF AgentsPg!TypeOK
  <2>2. \A r : r \in AgentsPg!Range(listed) <=> \E i \in DOMAIN listed : listed[i] = r
    BY DEF AgentsPg!Range
  <2>3. QED
    BY <2>1, <2>2
<1>4. selectedRunId \in AgentsPg!Run /\ runs[selectedRunId] # None
  <2>1. \E i \in DOMAIN listed : listed[i] = selectedRunId
    BY <1>1, <1>2, Zenon DEF AgentsPg!TypeOK, AgentsPg!Range
  <2>2. QED
    BY <1>3, <2>1
<1>5. \A i, k \in DOMAIN listed : listed[i] = listed[k] => i = k
  BY <1>1, Zenon DEF AgentsPg!TypeOK, AgentsPg!IsInjective
<1>6. NewRun \subseteq AgentsPg!Run /\ None \notin AgentsPg!AgentRun
  BY AgentsAssumption DEF AgentsPg!Run
<1>7. QED
  BY <1>1, <1>2, <1>3, <1>4, <1>5, <1>6 DEF AgentsPg!TypeOK

\* What is known of a run.
RunIsWhole(r) ==
  runs[r] # None =>
    /\ runs[r].status # "COMPLETED" <=> r \in executing
    /\ runs[r].iterationsCount = Len(runs[r].steps)
    /\ runs[r].sandboxedRunsCount = AgentsPg!Cardinality(AgentsPg!TestSteps(runs[r].steps))
    /\ runs[r].finalResponse <=> runs[r].status = "COMPLETED"

RunsStarted ==
  /\ \A r \in planning : runs[r] = AgentsPg!Planned
  /\ \A r \in executing \ planning :
       runs[r] # None /\ runs[r].steps = <<<<"search_code">>>> /\ runs[r].sandboxedRunsCount = 0

\* The parts of the invariant.
LEMMA AgentsParts ==
  ASSUME AgentsInv
  PROVE  /\ AgentsPg!TypeOK /\ listed \in Seq(AgentsPg!Run) /\ RunsStarted
         /\ \A r \in AgentsPg!Run : RunIsWhole(r)
         /\ isExecuting => executing # {}
<1>1. AgentsPg!TypeOK /\ listed \in Seq(AgentsPg!Run) /\ RunsStarted
  BY Zenon DEF AgentsInv, RunsStarted
<1>2. ASSUME NEW r \in AgentsPg!Run PROVE RunIsWhole(r)
  <2>1. SUFFICES ASSUME runs[r] # None
                 PROVE  /\ runs[r].status # "COMPLETED" <=> r \in executing
                        /\ runs[r].iterationsCount = Len(runs[r].steps)
                        /\ runs[r].sandboxedRunsCount = AgentsPg!Cardinality(AgentsPg!TestSteps(runs[r].steps))
                        /\ runs[r].finalResponse <=> runs[r].status = "COMPLETED"
    BY Zenon DEF RunIsWhole
  <2>2. runs[r].status # "COMPLETED" <=> r \in executing
    BY <2>1, Zenon DEF AgentsInv, AgentsPg!NothingHangs
  <2>3. /\ runs[r].iterationsCount = Len(runs[r].steps)
        /\ runs[r].sandboxedRunsCount = AgentsPg!Cardinality(AgentsPg!TestSteps(runs[r].steps))
        /\ runs[r].finalResponse <=> runs[r].status = "COMPLETED"
    BY <2>1, Zenon DEF AgentsInv, AgentsPg!RunsAddUp
  <2>4. QED
    BY <2>2, <2>3, Zenon
<1>3. isExecuting => executing # {}
  BY Zenon DEF AgentsInv, AgentsPg!NothingHangs
<1>4. QED
  BY <1>1, <1>2, <1>3

LEMMA AgentsPartsAfter ==
  ASSUME AgentsPg!TypeOK', listed' \in Seq(AgentsPg!Run), RunsStarted',
         \A r \in AgentsPg!Run : RunIsWhole(r)',
         isExecuting' => executing' # {}
  PROVE  AgentsInv'
<1>1. AgentsPg!NothingHangs'
  <2>1. ASSUME NEW r \in AgentsPg!Run, (runs[r] # None)'
        PROVE  (runs[r].status # "COMPLETED" <=> r \in executing)'
    BY <2>1, Zenon DEF RunIsWhole
  <2>2. QED
    BY <2>1, Zenon DEF AgentsPg!NothingHangs
<1>2. AgentsPg!RunsAddUp'
  <2>1. ASSUME NEW r \in AgentsPg!Run, (runs[r] # None)'
        PROVE  (/\ runs[r].iterationsCount = Len(runs[r].steps)
                /\ runs[r].sandboxedRunsCount = AgentsPg!Cardinality(AgentsPg!TestSteps(runs[r].steps))
                /\ runs[r].finalResponse <=> runs[r].status = "COMPLETED")'
    BY <2>1, Zenon DEF RunIsWhole
  <2>2. QED
    BY <2>1, Zenon DEF AgentsPg!RunsAddUp
<1>3. QED
  BY <1>1, <1>2, Zenon DEF AgentsInv, RunsStarted

\* A run that is listed changes.
LEMMA AgentsRunChanges ==
  ASSUME AgentsInv, NEW r \in AgentsPg!Run, runs[r] # None, NEW new \in AgentsPg!AgentRun,
         runs' = [runs EXCEPT ![r] = new],
         UNCHANGED <<listed, selectedRunId>>, isExecuting' \in BOOLEAN,
         planning' \subseteq planning, executing' \subseteq executing,
         \A q \in executing : q # r => q \in executing',
         \A q \in planning : q # r => q \in planning',
         r \in planning' => new = AgentsPg!Planned /\ r \in executing',
         r \in executing' /\ r \notin planning' => new.steps = <<<<"search_code">>>> /\ new.sandboxedRunsCount = 0,
         new.status # "COMPLETED" <=> r \in executing',
         new.iterationsCount = Len(new.steps),
         new.sandboxedRunsCount = AgentsPg!Cardinality(AgentsPg!TestSteps(new.steps)),
         new.finalResponse <=> new.status = "COMPLETED",
         isExecuting' => executing' # {}
  PROVE  AgentsInv'
<1>1. new # None
  BY AgentsFacts
<1>2. /\ runs' \in [AgentsPg!Run -> AgentsPg!AgentRun \cup {None}]
      /\ runs'[r] = new /\ \A q \in AgentsPg!Run \ {r} : runs'[q] = runs[q]
  <2>1. runs \in [AgentsPg!Run -> AgentsPg!AgentRun \cup {None}]
    BY AgentsFacts
  <2>2. QED
    BY <2>1
<1>3. AgentsPg!TypeOK'
  <2>1. {q \in AgentsPg!Run : runs'[q] # None} = {q \in AgentsPg!Run : runs[q] # None}
    BY <1>1, <1>2
  <2>2. planning' \subseteq executing' /\ executing' \subseteq NewRun
    BY AgentsFacts
  <2>3. AgentsPg!TypeOK
    BY DEF AgentsInv
  <2>4. /\ AgentsPg!IsInjective(listed') /\ selectedRunId' \in AgentsPg!Range(listed')
        /\ AgentsPg!Range(listed') = {q \in AgentsPg!Run : runs'[q] # None}
    BY <2>1, <2>3 DEF AgentsPg!TypeOK
  <2>5. QED
    BY <1>2, <2>2, <2>4 DEF AgentsPg!TypeOK
<1>4. RunsStarted'
  <2>1. ASSUME NEW q \in planning' PROVE runs'[q] = AgentsPg!Planned
    <3>1. CASE q = r
      BY <1>2, <2>1, <3>1
    <3>2. CASE q # r
      <4>1. q \in planning /\ q \in AgentsPg!Run
        BY <2>1, AgentsFacts
      <4>2. QED
        BY <1>2, <3>2, <4>1 DEF AgentsInv
    <3>3. QED
      BY <3>1, <3>2
  <2>2. ASSUME NEW q \in executing', q \notin planning'
        PROVE  runs'[q] # None /\ runs'[q].steps = <<<<"search_code">>>> /\ runs'[q].sandboxedRunsCount = 0
    <3>1. CASE q = r
      BY <1>1, <1>2, <2>2, <3>1
    <3>2. CASE q # r
      <4>1. q \in executing \ planning /\ q \in AgentsPg!Run
        BY <2>2, <3>2, AgentsFacts
      <4>2. QED
        BY <1>2, <3>2, <4>1 DEF AgentsInv
    <3>3. QED
      BY <3>1, <3>2
  <2>3. QED
    BY <2>1, <2>2 DEF RunsStarted
<1>5. ASSUME NEW q \in AgentsPg!Run PROVE RunIsWhole(q)'
  <2>1. CASE q = r
    BY <1>2, <2>1 DEF RunIsWhole
  <2>2. CASE q # r
    <3>1. RunIsWhole(q)
      BY AgentsParts
    <3>2. runs'[q] = runs[q] /\ (q \in executing' <=> q \in executing)
      BY <1>2, <2>2
    <3>3. QED
      BY <3>1, <3>2 DEF RunIsWhole
  <2>3. QED
    BY <2>1, <2>2
<1>6. listed' \in Seq(AgentsPg!Run)
  BY AgentsFacts
<1>7. QED
  BY <1>3, <1>4, <1>5, <1>6, AgentsPartsAfter

\* A dispatched run is planned and nothing of it is executed.
LEMMA AgentsDispatch ==
  ASSUME AgentsInv, NEW r \in NewRun, AgentsPg!HandleDispatch(r)
  PROVE  AgentsInv'
<1>1. PICK new : new = AgentsPg!Planned
  OBVIOUS
<1>2. /\ runs[r] = None /\ runs' = [runs EXCEPT ![r] = new] /\ listed' = <<r>> \o listed /\ selectedRunId' = r
      /\ isExecuting' = TRUE /\ planning' = planning \cup {r} /\ executing' = executing \cup {r}
  BY <1>1 DEF AgentsPg!HandleDispatch
<1>3. /\ new \in AgentsPg!AgentRun /\ new # None /\ new.status = "PLANNING" /\ new.iterationsCount = 0
      /\ new.steps = <<>> /\ new.sandboxedRunsCount = 0 /\ new.finalResponse = FALSE
  <2>1. <<>> \in Seq(Seq(AgentsPg!Tool)) /\ <<>> \in Seq(BOOLEAN)
    OBVIOUS
  <2>2. new \in AgentsPg!AgentRun
    BY <1>1, <2>1 DEF AgentsPg!Planned, AgentsPg!AgentRun
  <2>3. QED
    BY <1>1, <2>2, AgentsFacts DEF AgentsPg!Planned
<1>4. r \in AgentsPg!Run
  BY AgentsFacts
<1>5. /\ runs' \in [AgentsPg!Run -> AgentsPg!AgentRun \cup {None}]
      /\ runs'[r] = new /\ \A q \in AgentsPg!Run \ {r} : runs'[q] = runs[q]
  <2>1. runs \in [AgentsPg!Run -> AgentsPg!AgentRun \cup {None}]
    BY AgentsFacts
  <2>2. QED
    BY <1>2, <1>3, <1>4, <2>1
<1>6. \A i \in DOMAIN listed : listed[i] # r
  BY <1>2, AgentsFacts
<1>7. /\ listed' \in Seq(AgentsPg!Run) /\ 1 \in DOMAIN listed' /\ listed'[1] = r
      /\ \A i \in DOMAIN listed' : listed'[i] = r \/ \E k \in DOMAIN listed : listed'[i] = listed[k]
      /\ \A k \in DOMAIN listed : \E i \in DOMAIN listed' : listed'[i] = listed[k]
      /\ \A i, k \in DOMAIN listed' : listed'[i] = listed'[k] => i = k
  <2>1. /\ listed \in Seq(AgentsPg!Run) /\ listed' = <<r>> \o listed
        /\ \A i, k \in DOMAIN listed : listed[i] = listed[k] => i = k
    BY <1>2, AgentsFacts
  <2>2. listed' \in Seq(AgentsPg!Run) /\ IsInFront(listed', r, listed)
    BY <1>4, <2>1, InFront
  <2>3. QED
    BY <1>6, <2>1, <2>2 DEF IsInFront
<1>8. AgentsPg!TypeOK'
  <2>1. ASSUME NEW q PROVE q \in AgentsPg!Range(listed') <=> q \in {p \in AgentsPg!Run : runs'[p] # None}
    <3>1. q \in AgentsPg!Range(listed') <=> \E i \in DOMAIN listed' : listed'[i] = q
      BY DEF AgentsPg!Range
    <3>2. (\E i \in DOMAIN listed' : listed'[i] = q) <=> q = r \/ \E i \in DOMAIN listed : listed[i] = q
      BY <1>7
    <3>3. (\E i \in DOMAIN listed : listed[i] = q) <=> q \in AgentsPg!Run /\ runs[q] # None
      BY AgentsFacts
    <3>4. q \in AgentsPg!Run /\ runs'[q] # None <=> q = r \/ (q \in AgentsPg!Run /\ runs[q] # None)
      <4>1. CASE q = r
        <5>1. q \in AgentsPg!Run /\ runs'[q] = new /\ new # None
          BY <1>3, <1>4, <1>5, <4>1
        <5>2. QED
          BY <4>1, <5>1, Zenon
      <4>2. CASE q # r
        <5>1. q \in AgentsPg!Run => runs'[q] = runs[q]
          BY <1>5, <4>2
        <5>2. QED
          BY <4>2, <5>1, Zenon
      <4>3. QED
        BY <4>1, <4>2, Zenon
    <3>5. q \in {p \in AgentsPg!Run : runs'[p] # None} <=> q \in AgentsPg!Run /\ runs'[q] # None
      OBVIOUS
    <3>6. QED
      BY <3>1, <3>2, <3>3, <3>4, <3>5, Zenon
  <2>2. AgentsPg!Range(listed') = {p \in AgentsPg!Run : runs'[p] # None}
    BY <2>1
  <2>3. AgentsPg!IsInjective(listed')
    BY <1>7, Zenon DEF AgentsPg!IsInjective
  <2>4. selectedRunId' \in AgentsPg!Range(listed')
    BY <1>2, <1>7 DEF AgentsPg!Range
  <2>5. planning' \subseteq executing' /\ executing' \subseteq NewRun /\ isExecuting' \in BOOLEAN
    BY <1>2, AgentsFacts
  <2>6. QED
    BY <1>5, <2>2, <2>3, <2>4, <2>5 DEF AgentsPg!TypeOK
<1>9. RunsStarted'
  <2>1. ASSUME NEW q \in planning' PROVE runs'[q] = AgentsPg!Planned
    <3>1. CASE q = r
      BY <1>1, <1>5, <3>1
    <3>2. CASE q # r
      <4>1. q \in planning /\ q \in AgentsPg!Run
        BY <1>2, <2>1, <3>2, AgentsFacts
      <4>2. QED
        BY <1>5, <3>2, <4>1 DEF AgentsInv
    <3>3. QED
      BY <3>1, <3>2
  <2>2. ASSUME NEW q \in executing', q \notin planning'
        PROVE  runs'[q] # None /\ runs'[q].steps = <<<<"search_code">>>> /\ runs'[q].sandboxedRunsCount = 0
    <3>1. q # r /\ q \in executing \ planning /\ q \in AgentsPg!Run
      BY <1>2, <2>2, AgentsFacts
    <3>2. QED
      BY <1>5, <3>1 DEF AgentsInv
  <2>3. QED
    BY <2>1, <2>2 DEF RunsStarted
<1>10. ASSUME NEW q \in AgentsPg!Run PROVE RunIsWhole(q)'
  <2>1. CASE q = r
    <3>1. AgentsPg!TestSteps(new.steps) = {} /\ Len(new.steps) = 0
      BY <1>3 DEF AgentsPg!TestSteps
    <3>2. AgentsPg!Cardinality(AgentsPg!TestSteps(new.steps)) = 0
      BY <3>1, FS_EmptySet, AgentsCardinality
    <3>3. runs'[q] = new /\ q \in executing'
      BY <1>2, <1>5, <2>1
    <3>4. QED
      BY <1>3, <3>1, <3>2, <3>3 DEF RunIsWhole
  <2>2. CASE q # r
    <3>1. RunIsWhole(q)
      BY AgentsParts
    <3>2. runs'[q] = runs[q] /\ (q \in executing' <=> q \in executing)
      BY <1>2, <1>5, <2>2
    <3>3. QED
      BY <3>1, <3>2 DEF RunIsWhole
  <2>3. QED
    BY <2>1, <2>2
<1>11. executing' # {}
  BY <1>2
<1>12. QED
  BY <1>7, <1>8, <1>9, <1>10, <1>11, AgentsPartsAfter

\* The first step is of the run as it was planned.
LEMMA AgentsFirstStep ==
  ASSUME AgentsInv, NEW r \in NewRun, AgentsPg!FirstStep(r)
  PROVE  AgentsInv'
<1>1. PICK run : run = runs[r]
  OBVIOUS
<1>2. /\ r \in planning /\ planning' = planning \ {r}
      /\ runs' = [runs EXCEPT ![r] = [@ EXCEPT !.status = "EXECUTING_TOOLS", !.iterationsCount = 1,
                                               !.steps = <<<<"search_code">>>>]]
      /\ UNCHANGED <<listed, selectedRunId, isExecuting, executing>>
  BY DEF AgentsPg!FirstStep
<1>3. run = AgentsPg!Planned /\ r \in executing /\ r \in AgentsPg!Run
  BY <1>1, <1>2, AgentsFacts DEF AgentsInv
<1>4. run \in AgentsPg!AgentRun /\ run # None /\ run.sandboxedRunsCount = 0 /\ run.finalResponse = FALSE
  <2>1. <<>> \in Seq(Seq(AgentsPg!Tool)) /\ <<>> \in Seq(BOOLEAN)
    OBVIOUS
  <2>2. run \in AgentsPg!AgentRun
    BY <1>3, <2>1 DEF AgentsPg!Planned, AgentsPg!AgentRun
  <2>3. QED
    BY <1>3, <2>2, AgentsFacts DEF AgentsPg!Planned
<1>5. PICK list : list = <<<<"search_code">>>>
  OBVIOUS
<1>6. list \in Seq(Seq(AgentsPg!Tool)) /\ Len(list) = 1 /\ AgentsPg!TestSteps(list) = {}
  <2>1. <<"search_code">> \in Seq(AgentsPg!Tool)
    BY DEF AgentsPg!Tool
  <2>2. list \in Seq(Seq(AgentsPg!Tool)) /\ DOMAIN list = 1 .. 1 /\ list[1] = <<"search_code">> /\ Len(list) = 1
    BY <1>5, <2>1
  <2>3. "run_tests" \notin AgentsPg!Range(<<"search_code">>)
    BY DEF AgentsPg!Range
  <2>4. \A i \in 1 .. 1 : i = 1
    OBVIOUS
  <2>5. QED
    BY <2>2, <2>3, <2>4 DEF AgentsPg!TestSteps
<1>7. PICK one : one = [run EXCEPT !.status = "EXECUTING_TOOLS"]
  OBVIOUS
<1>8. PICK two : two = [one EXCEPT !.iterationsCount = 1]
  OBVIOUS
<1>9. PICK new : new = [two EXCEPT !.steps = list]
  OBVIOUS
<1>10. /\ one \in AgentsPg!AgentRun /\ one.status = "EXECUTING_TOOLS" /\ one.sandboxedRunsCount = 0
       /\ one.finalResponse = FALSE
  BY <1>4, <1>7 DEF AgentsPg!AgentRun
<1>11. /\ two \in AgentsPg!AgentRun /\ two.status = "EXECUTING_TOOLS" /\ two.sandboxedRunsCount = 0
       /\ two.finalResponse = FALSE /\ two.iterationsCount = 1
  BY <1>8, <1>10 DEF AgentsPg!AgentRun
<1>12. /\ new \in AgentsPg!AgentRun /\ new.status = "EXECUTING_TOOLS" /\ new.sandboxedRunsCount = 0
       /\ new.finalResponse = FALSE /\ new.iterationsCount = 1 /\ new.steps = list
  BY <1>6, <1>9, <1>11 DEF AgentsPg!AgentRun
<1>13. runs' = [runs EXCEPT ![r] = new]
  BY <1>1, <1>2, <1>5, <1>7, <1>8, <1>9
<1>14. AgentsPg!Cardinality(AgentsPg!TestSteps(list)) = 0
  BY <1>6, FS_EmptySet, AgentsCardinality
<1>15. /\ r \notin planning' /\ r \in executing' /\ planning' \subseteq planning /\ executing' \subseteq executing
       /\ (\A q \in executing : q # r => q \in executing') /\ (\A q \in planning : q # r => q \in planning')
       /\ isExecuting' \in BOOLEAN /\ executing' # {} /\ UNCHANGED <<listed, selectedRunId>>
  BY <1>2, <1>3, AgentsFacts
<1>16. QED
  BY <1>1, <1>3, <1>4, <1>5, <1>6, <1>12, <1>13, <1>14, <1>15, AgentsRunChanges

\* The longer timer finds the run with its first step, and completes it.
LEMMA AgentsLastStep ==
  ASSUME AgentsInv, NEW r \in NewRun, AgentsPg!LastStep(r)
  PROVE  AgentsInv'
<1>1. PICK run : run = runs[r]
  OBVIOUS
<1>2. /\ r \in executing /\ r \notin planning /\ executing' = executing \ {r}
      /\ runs' = [runs EXCEPT ![r] = [@ EXCEPT !.status = "COMPLETED", !.finalResponse = TRUE,
                                               !.iterationsCount = 2, !.sandboxedRunsCount = 1,
                                               !.steps = Append(runs[r].steps, <<"run_tests">>)]]
      /\ isExecuting' = FALSE
      /\ UNCHANGED <<listed, selectedRunId, planning>>
  BY DEF AgentsPg!LastStep
<1>3. r \in AgentsPg!Run /\ run # None /\ run \in AgentsPg!AgentRun /\ run.steps = <<<<"search_code">>>>
  BY <1>1, <1>2, AgentsFacts DEF AgentsInv
<1>4. PICK list : list = Append(<<<<"search_code">>>>, <<"run_tests">>)
  OBVIOUS
<1>5. list \in Seq(Seq(AgentsPg!Tool)) /\ Len(list) = 2 /\ AgentsPg!TestSteps(list) = {2}
  <2>1. <<"search_code">> \in Seq(AgentsPg!Tool) /\ <<"run_tests">> \in Seq(AgentsPg!Tool)
    BY DEF AgentsPg!Tool
  <2>2. /\ list \in Seq(Seq(AgentsPg!Tool)) /\ DOMAIN list = 1 .. 2 /\ list[1] = <<"search_code">>
        /\ list[2] = <<"run_tests">> /\ Len(list) = 2
    BY <1>4, <2>1
  <2>3. "run_tests" \notin AgentsPg!Range(<<"search_code">>) /\ "run_tests" \in AgentsPg!Range(<<"run_tests">>)
    BY DEF AgentsPg!Range
  <2>4. (\A i \in 1 .. 2 : i = 1 \/ i = 2) /\ 2 \in 1 .. 2
    OBVIOUS
  <2>5. QED
    BY <2>2, <2>3, <2>4 DEF AgentsPg!TestSteps
<1>6. PICK one : one = [run EXCEPT !.status = "COMPLETED"]
  OBVIOUS
<1>7. PICK two : two = [one EXCEPT !.finalResponse = TRUE]
  OBVIOUS
<1>8. PICK three : three = [two EXCEPT !.iterationsCount = 2]
  OBVIOUS
<1>9. PICK four : four = [three EXCEPT !.sandboxedRunsCount = 1]
  OBVIOUS
<1>10. PICK new : new = [four EXCEPT !.steps = list]
  OBVIOUS
<1>11. one \in AgentsPg!AgentRun /\ one.status = "COMPLETED" /\ one.steps = run.steps
  BY <1>3, <1>6 DEF AgentsPg!AgentRun
<1>12. two \in AgentsPg!AgentRun /\ two.status = "COMPLETED" /\ two.steps = run.steps /\ two.finalResponse = TRUE
  BY <1>7, <1>11 DEF AgentsPg!AgentRun
<1>13. /\ three \in AgentsPg!AgentRun /\ three.status = "COMPLETED" /\ three.steps = run.steps
       /\ three.finalResponse = TRUE /\ three.iterationsCount = 2
  BY <1>8, <1>12 DEF AgentsPg!AgentRun
<1>14. /\ four \in AgentsPg!AgentRun /\ four.status = "COMPLETED" /\ four.steps = run.steps
       /\ four.finalResponse = TRUE /\ four.iterationsCount = 2 /\ four.sandboxedRunsCount = 1
  BY <1>9, <1>13 DEF AgentsPg!AgentRun
<1>15. /\ new \in AgentsPg!AgentRun /\ new.status = "COMPLETED" /\ new.steps = list
       /\ new.finalResponse = TRUE /\ new.iterationsCount = 2 /\ new.sandboxedRunsCount = 1
  BY <1>5, <1>10, <1>14 DEF AgentsPg!AgentRun
<1>16. runs' = [runs EXCEPT ![r] = new]
  <2>1. list = Append(runs[r].steps, <<"run_tests">>)
    BY <1>1, <1>3, <1>4
  <2>2. new = [run EXCEPT !.status = "COMPLETED", !.finalResponse = TRUE, !.iterationsCount = 2,
                          !.sandboxedRunsCount = 1, !.steps = list]
    BY <1>6, <1>7, <1>8, <1>9, <1>10
  <2>3. QED
    BY <1>1, <1>2, <2>1, <2>2
<1>17. AgentsPg!Cardinality(AgentsPg!TestSteps(list)) = 1
  BY <1>5, FS_Singleton, AgentsCardinality
<1>18. /\ r \notin planning' /\ r \notin executing' /\ planning' \subseteq planning /\ executing' \subseteq executing
       /\ (\A q \in executing : q # r => q \in executing') /\ (\A q \in planning : q # r => q \in planning')
       /\ isExecuting' = FALSE /\ isExecuting' \in BOOLEAN /\ UNCHANGED <<listed, selectedRunId>>
  BY <1>2
<1>19. QED
  BY <1>1, <1>3, <1>5, <1>15, <1>16, <1>17, <1>18, AgentsRunChanges

\* The buttons of the run that is shown, which has patches and is complete.
LEMMA AgentsRunShown ==
  ASSUME AgentsInv, NEW new \in AgentsPg!AgentRun, runs[selectedRunId].patches # <<>>,
         runs' = [runs EXCEPT ![selectedRunId] = new],
         new.steps = runs[selectedRunId].steps, new.status = runs[selectedRunId].status,
         new.iterationsCount = runs[selectedRunId].iterationsCount,
         new.sandboxedRunsCount = runs[selectedRunId].sandboxedRunsCount,
         new.finalResponse = runs[selectedRunId].finalResponse,
         UNCHANGED <<listed, selectedRunId, isExecuting, planning, executing>>
  PROVE  AgentsInv'
<1>1. PICK r : r = selectedRunId
  OBVIOUS
<1>2. PICK run : run = runs[r]
  OBVIOUS
<1>3. r \in AgentsPg!Run /\ run # None /\ run \in AgentsPg!AgentRun
  BY <1>1, <1>2, AgentsFacts
<1>4. r \notin planning
  <2>1. r \in planning => run.patches = <<>>
    BY <1>2 DEF AgentsInv, AgentsPg!Planned
  <2>2. QED
    BY <1>1, <1>2, <2>1
<1>5. RunIsWhole(r)
  BY <1>3, AgentsParts
<1>6. /\ new.status # "COMPLETED" <=> r \in executing'
      /\ new.iterationsCount = Len(new.steps)
      /\ new.sandboxedRunsCount = AgentsPg!Cardinality(AgentsPg!TestSteps(new.steps))
      /\ new.finalResponse <=> new.status = "COMPLETED"
  BY <1>1, <1>2, <1>3, <1>5 DEF RunIsWhole
<1>7. r \in executing' /\ r \notin planning' => new.steps = <<<<"search_code">>>> /\ new.sandboxedRunsCount = 0
  BY <1>1, <1>4 DEF AgentsInv
<1>8. /\ runs' = [runs EXCEPT ![r] = new] /\ UNCHANGED <<listed, selectedRunId>>
      /\ isExecuting' \in BOOLEAN /\ planning' \subseteq planning /\ executing' \subseteq executing
      /\ (\A q \in executing : q # r => q \in executing') /\ (\A q \in planning : q # r => q \in planning')
      /\ r \notin planning' /\ (isExecuting' => executing' # {})
  BY <1>1, <1>4, AgentsFacts, AgentsParts
<1>9. QED
  BY <1>2, <1>3, <1>6, <1>7, <1>8, AgentsRunChanges

LEMMA AgentsStep == AgentsInv /\ AgentsPg!Next => AgentsInv'
<1> SUFFICES ASSUME AgentsInv, AgentsPg!Next PROVE AgentsInv'
  OBVIOUS
<1>1. PICK run : run = runs[selectedRunId]
  OBVIOUS
<1>2. run \in AgentsPg!AgentRun
  BY <1>1, AgentsFacts
<1>3. ASSUME NEW r \in AgentsPg!Run, AgentsPg!SelectRun(r) PROVE AgentsInv'
  <2>1. /\ r \in AgentsPg!Range(listed) /\ selectedRunId' = r
        /\ UNCHANGED <<runs, listed, isExecuting, planning, executing>>
    BY <1>3 DEF AgentsPg!SelectRun
  <2>2. AgentsPg!TypeOK'
    BY <2>1 DEF AgentsInv, AgentsPg!TypeOK
  <2>3. RunsStarted' /\ \A q \in AgentsPg!Run : RunIsWhole(q)'
    BY <2>1, AgentsParts DEF RunsStarted, RunIsWhole
  <2>4. listed' \in Seq(AgentsPg!Run) /\ (isExecuting' => executing' # {})
    BY <2>1, AgentsParts
  <2>5. QED
    BY <2>2, <2>3, <2>4, AgentsPartsAfter
<1>4. CASE AgentsPg!HandleApplyPatch(1)
  <2>1. /\ 1 \in DOMAIN run.patches /\ runs' = [runs EXCEPT ![selectedRunId].patches[1] = TRUE]
        /\ UNCHANGED <<listed, selectedRunId, isExecuting, planning, executing>>
    BY <1>1, <1>4 DEF AgentsPg!HandleApplyPatch
  <2>2. PICK list : list = [run.patches EXCEPT ![1] = TRUE]
    OBVIOUS
  <2>3. run.patches \in Seq(BOOLEAN)
    BY <1>2 DEF AgentsPg!AgentRun
  <2>4. list \in Seq(BOOLEAN) /\ run.patches # <<>>
    BY <2>1, <2>2, <2>3
  <2>5. PICK new : new = [run EXCEPT !.patches = list]
    OBVIOUS
  <2>6. /\ new \in AgentsPg!AgentRun /\ new.steps = run.steps /\ new.status = run.status
        /\ new.iterationsCount = run.iterationsCount /\ new.sandboxedRunsCount = run.sandboxedRunsCount
        /\ new.finalResponse = run.finalResponse
    BY <1>2, <2>4, <2>5 DEF AgentsPg!AgentRun
  <2>7. runs' = [runs EXCEPT ![selectedRunId] = new]
    BY <1>1, <2>1, <2>2, <2>5
  <2>8. QED
    BY <1>1, <2>1, <2>4, <2>6, <2>7, AgentsRunShown
<1>5. CASE AgentsPg!HandleCreatePR
  <2>1. /\ run.patches # <<>> /\ runs' = [runs EXCEPT ![selectedRunId].pullRequest = TRUE]
        /\ UNCHANGED <<listed, selectedRunId, isExecuting, planning, executing>>
    BY <1>1, <1>5 DEF AgentsPg!HandleCreatePR
  <2>2. PICK new : new = [run EXCEPT !.pullRequest = TRUE]
    OBVIOUS
  <2>3. /\ new \in AgentsPg!AgentRun /\ new.steps = run.steps /\ new.status = run.status
        /\ new.iterationsCount = run.iterationsCount /\ new.sandboxedRunsCount = run.sandboxedRunsCount
        /\ new.finalResponse = run.finalResponse
    BY <1>2, <2>2 DEF AgentsPg!AgentRun
  <2>4. runs' = [runs EXCEPT ![selectedRunId] = new]
    BY <1>1, <2>1, <2>2
  <2>5. QED
    BY <1>1, <2>1, <2>3, <2>4, AgentsRunShown
<1>6. QED
  BY <1>3, <1>4, <1>5, AgentsDispatch, AgentsFirstStep, AgentsLastStep DEF AgentsPg!Next

LEMMA AgentsKept == AgentsInv /\ UNCHANGED agentsVars => AgentsInv'
BY DEF agentsVars, AgentsInv, AgentsPg!TypeOK, AgentsPg!NothingHangs, AgentsPg!RunsAddUp
-----------------------------------------------------------------------------
(***************************************************************************)
(* The test studio                                                         *)
(***************************************************************************)
\* A fix under way is of a suite of the page.
TestsInv ==
  /\ TestsPg!TypeOK /\ TestsPg!NothingHangs /\ TestsPg!SuiteAddsUp
  /\ fixing \in [type : TestType, suite : TestsPg!Suites] \cup {None}
\* The numbers of the page are those of this module.
LEMMA TestsCardinality == \A S : TestsPg!Cardinality(S) = Cardinality(S)
BY Zenon DEF TestsPg!Cardinality, Cardinality

\* A suite is one of statuses, and its fixes are of its cases.
LEMMA TestsSuites ==
  /\ \A types \in SUBSET TestType : \A status \in [types -> {"PASS", "FAIL"}] :
       /\ TestsPg!SuiteOf(status) \in TestsPg!Suites
       /\ TestsPg!SuiteOf(status).status = status
  /\ \A x \in TestsPg!Suites : \E types \in SUBSET TestType :
       x.status \in [types -> {"PASS", "FAIL"}] /\ x.fixes \subseteq types
<1>1. ASSUME NEW types \in SUBSET TestType, NEW status \in [types -> {"PASS", "FAIL"}]
      PROVE  TestsPg!SuiteOf(status) \in TestsPg!Suites /\ TestsPg!SuiteOf(status).status = status
  <2>1. status \in UNION {[some -> {"PASS", "FAIL"}] : some \in SUBSET TestType}
    OBVIOUS
  <2>2. TestsPg!SuiteOf(status) \in TestsPg!Suites
    BY <2>1, Zenon DEF TestsPg!Suites
  <2>3. TestsPg!SuiteOf(status).status = status
    BY DEF TestsPg!SuiteOf
  <2>4. QED
    BY <2>2, <2>3
<1>2. ASSUME NEW x \in TestsPg!Suites
      PROVE  \E types \in SUBSET TestType : x.status \in [types -> {"PASS", "FAIL"}] /\ x.fixes \subseteq types
  <2>1. PICK status \in UNION {[some -> {"PASS", "FAIL"}] : some \in SUBSET TestType} : x = TestsPg!SuiteOf(status)
    BY Zenon DEF TestsPg!Suites
  <2>2. PICK types \in SUBSET TestType : status \in [types -> {"PASS", "FAIL"}]
    BY <2>1
  <2>3. x.status = status /\ x.fixes = {t \in DOMAIN status : status[t] = "FAIL"}
    BY <2>1 DEF TestsPg!SuiteOf
  <2>4. x.fixes \subseteq types
    BY <2>2, <2>3
  <2>5. QED
    BY <2>2, <2>3, <2>4
<1>3. QED
  BY <1>1, <1>2, Zenon

\* The suite that replaces the one shown.
LEMMA TestsSuiteIn ==
  ASSUME NEW types \in SUBSET TestType, NEW status \in [types -> {"PASS", "FAIL"}],
         NEW new, new = TestsPg!SuiteOf(status)
  PROVE  new \in TestsPg!Suites /\ DOMAIN new.status \subseteq TestType
BY TestsSuites

LEMMA TestsInit == TestsPg!Init => TestsInv
<1> SUFFICES ASSUME TestsPg!Init PROVE TestsInv
  OBVIOUS
<1>1. /\ suite = TestsPg!SuiteOf([t \in TestType |-> IF t = "unit" THEN "FAIL" ELSE "PASS"])
      /\ selectedBenchmark = "checkout-service" /\ selectedTypes = TestType
      /\ generating = None /\ fixing = None
      /\ isGenerating = FALSE /\ isRunning = FALSE /\ isApplyingFix = FALSE
      /\ activeStep = 0 /\ orders = 0
  BY DEF TestsPg!Init, TestsPg!InitialSuite
<1>2. suite \in TestsPg!Suites /\ DOMAIN suite.status \subseteq TestType
  <2>1. [t \in TestType |-> IF t = "unit" THEN "FAIL" ELSE "PASS"] \in [TestType -> {"PASS", "FAIL"}]
    OBVIOUS
  <2>2. TestType \in SUBSET TestType
    OBVIOUS
  <2>3. QED
    BY <1>1, <2>1, <2>2, TestsSuiteIn
<1>3. TestsPg!TypeOK
  <2>1. activeStep \in 0 .. PipelineSteps /\ orders \in 0 .. MaxOrders
    BY <1>1, TestsAssumption
  <2>2. selectedBenchmark \in Benchmarks /\ selectedTypes # {}
    BY <1>1, TestsAssumption
  <2>3. QED
    BY <1>1, <1>2, <2>1, <2>2 DEF TestsPg!TypeOK
<1>4. TestsPg!NothingHangs /\ TestsPg!SuiteAddsUp
  BY <1>1, <1>2 DEF TestsPg!NothingHangs, TestsPg!SuiteAddsUp
<1>5. QED
  BY <1>1, <1>3, <1>4 DEF TestsInv

LEMMA TestsFacts ==
  ASSUME TestsInv
  PROVE  /\ suite \in TestsPg!Suites /\ DOMAIN suite.status \subseteq TestType /\ selectedBenchmark \in Benchmarks
         /\ selectedTypes \subseteq TestType /\ selectedTypes # {}
         /\ generating \in TestsPg!Generation \cup {None}
         /\ fixing \in [type : TestType, suite : TestsPg!Suites] \cup {None}
         /\ isGenerating \in BOOLEAN /\ isRunning \in BOOLEAN /\ isApplyingFix \in BOOLEAN
         /\ activeStep \in 0 .. PipelineSteps /\ orders \in 0 .. MaxOrders
         /\ (isGenerating <=> generating # None) /\ (isApplyingFix <=> fixing # None)
         /\ activeStep = IF generating = None THEN 0 ELSE generating.step
         /\ ~(isRunning /\ isGenerating)
         /\ PipelineSteps \in Nat \ {0} /\ MaxOrders \in Nat
         /\ None \notin TestsPg!Generation /\ None \notin [type : TestType, suite : TestsPg!Suites]
BY TestsAssumption DEF TestsInv, TestsPg!TypeOK, TestsPg!NothingHangs, TestsPg!SuiteAddsUp

\* What the invariant says, of the state that follows.
LEMMA TestsAfter ==
  ASSUME suite' \in TestsPg!Suites, DOMAIN (suite'.status) \subseteq TestType, selectedBenchmark' \in Benchmarks,
         selectedTypes' \subseteq TestType, selectedTypes' # {},
         generating' \in TestsPg!Generation \cup {None},
         fixing' \in [type : TestType, suite : TestsPg!Suites] \cup {None},
         isGenerating' \in BOOLEAN, isRunning' \in BOOLEAN, isApplyingFix' \in BOOLEAN,
         activeStep' \in 0 .. PipelineSteps, orders' \in 0 .. MaxOrders,
         (isGenerating' <=> generating' # None), (isApplyingFix' <=> fixing' # None),
         activeStep' = IF generating' = None THEN 0 ELSE generating'.step,
         ~(isRunning' /\ isGenerating')
  PROVE  TestsInv'
<1>1. TestsPg!TypeOK'
  BY DEF TestsPg!TypeOK
<1>2. TestsPg!NothingHangs'
  BY Zenon DEF TestsPg!NothingHangs
<1>3. TestsPg!SuiteAddsUp'
  BY DEF TestsPg!SuiteAddsUp
<1>4. QED
  BY <1>1, <1>2, <1>3 DEF TestsInv

LEMMA TestsToggle ==
  ASSUME TestsInv, NEW type \in TestType, TestsPg!ToggleTestType(type)
  PROVE  TestsInv'
<1>1. /\ selectedTypes' = IF type \notin selectedTypes THEN selectedTypes \cup {type}
                          ELSE IF Cardinality(selectedTypes) > 1 THEN selectedTypes \ {type} ELSE selectedTypes
      /\ UNCHANGED <<suite, selectedBenchmark, generating, fixing, isGenerating, isRunning, isApplyingFix, activeStep, orders>>
  BY TestsCardinality DEF TestsPg!ToggleTestType
<1>2. selectedTypes' \subseteq TestType /\ selectedTypes' # {}
  <2>1. CASE type \in selectedTypes /\ Cardinality(selectedTypes) > 1
    <3>1. selectedTypes # {type}
      <4>1. Cardinality({type}) = 1
        BY FS_Singleton
      <4>2. QED
        BY <2>1, <4>1
    <3>2. QED
      BY <1>1, <2>1, <3>1, TestsFacts
  <2>2. CASE ~(type \in selectedTypes /\ Cardinality(selectedTypes) > 1)
    BY <1>1, <2>2, TestsFacts
  <2>3. QED
    BY <2>1, <2>2
<1>3. QED
  BY <1>1, <1>2, TestsFacts, TestsAfter

LEMMA TestsApplyFix ==
  ASSUME TestsInv, NEW type \in TestType, TestsPg!HandleApplyFix(type)
  PROVE  TestsInv'
<1>1. /\ fixing' = [type |-> type, suite |-> suite] /\ isApplyingFix' = TRUE /\ orders < MaxOrders /\ orders' = orders + 1
      /\ UNCHANGED <<suite, selectedBenchmark, selectedTypes, generating, isGenerating, isRunning, activeStep>>
  BY DEF TestsPg!HandleApplyFix, TestsPg!Order
<1>2. fixing' \in [type : TestType, suite : TestsPg!Suites] /\ orders' \in 0 .. MaxOrders
  BY <1>1, TestsFacts
<1>3. fixing' # None
  BY <1>2, TestsFacts
<1>4. QED
  BY <1>1, <1>2, <1>3, TestsFacts, TestsAfter

LEMMA TestsGenerate ==
  ASSUME TestsInv, TestsPg!HandleGenerateTests
  PROVE  TestsInv'
<1>1. /\ ~isRunning /\ generating' = [step |-> 1, benchmark |-> selectedBenchmark, types |-> selectedTypes]
      /\ isGenerating' = TRUE /\ activeStep' = 1 /\ orders < MaxOrders /\ orders' = orders + 1
      /\ UNCHANGED <<suite, selectedBenchmark, selectedTypes, fixing, isRunning, isApplyingFix>>
  BY DEF TestsPg!HandleGenerateTests, TestsPg!Order
<1>2. generating' \in TestsPg!Generation /\ generating'.step = 1 /\ orders' \in 0 .. MaxOrders
      /\ activeStep' \in 0 .. PipelineSteps
  BY <1>1, TestsFacts DEF TestsPg!Generation
<1>3. generating' # None
  BY <1>2, TestsFacts
<1>4. QED
  BY <1>1, <1>2, <1>3, TestsFacts, TestsAfter

\* The stepper moves on with the request behind it.
LEMMA TestsTimer ==
  ASSUME TestsInv, TestsPg!PipelineTimer
  PROVE  TestsInv'
<1>1. /\ generating # None /\ generating.step < PipelineSteps
      /\ generating' = [generating EXCEPT !.step = @ + 1] /\ activeStep' = generating.step + 1
      /\ UNCHANGED <<suite, selectedBenchmark, selectedTypes, fixing, isGenerating, isRunning, isApplyingFix, orders>>
  BY DEF TestsPg!PipelineTimer
<1>2. generating' \in TestsPg!Generation /\ generating'.step = generating.step + 1 /\ activeStep' \in 0 .. PipelineSteps
  BY <1>1, TestsFacts DEF TestsPg!Generation
<1>3. generating' # None /\ isGenerating
  BY <1>1, <1>2, TestsFacts
<1>4. QED
  BY <1>1, <1>2, <1>3, TestsFacts, TestsAfter

\* A new suite takes the place of the old one; a fix under way keeps the one
\* it is of.
LEMMA TestsGenerated ==
  ASSUME TestsInv, TestsPg!GenerationAnswered
  PROVE  TestsInv'
<1>1. /\ generating # None /\ generating' = None /\ isGenerating' = FALSE /\ activeStep' = 0
      /\ UNCHANGED <<selectedBenchmark, selectedTypes, fixing, isRunning, isApplyingFix, orders>>
      /\ \/ suite' = TestsPg!Simulated(generating)
         \/ \E status \in [generating.types -> {"PASS", "FAIL"}] : suite' = TestsPg!SuiteOf(status)
  BY DEF TestsPg!GenerationAnswered
<1>2. generating.types \in SUBSET TestType
  BY <1>1, TestsFacts DEF TestsPg!Generation
<1>3. \E status \in [generating.types -> {"PASS", "FAIL"}] : suite' = TestsPg!SuiteOf(status)
  <2>1. CASE suite' = TestsPg!Simulated(generating)
    <3>1. PICK status : status = [t \in generating.types |->
                          IF \/ generating.benchmark = "checkout-service" /\ t = "unit"
                             \/ generating.benchmark = "rate-limiter" /\ t = "edge_case"
                          THEN "FAIL" ELSE "PASS"]
      OBVIOUS
    <3>2. status \in [generating.types -> {"PASS", "FAIL"}]
      BY <3>1
    <3>3. suite' = TestsPg!SuiteOf(status)
      BY <2>1, <3>1, Zenon DEF TestsPg!Simulated
    <3>4. QED
      BY <3>2, <3>3
  <2>2. QED
    BY <1>1, <2>1
<1>4. suite' \in TestsPg!Suites /\ DOMAIN (suite'.status) \subseteq TestType
  BY <1>2, <1>3, TestsSuiteIn
<1>5. /\ generating' = None /\ ~isGenerating' /\ isGenerating' \in BOOLEAN /\ activeStep' = 0
      /\ UNCHANGED <<selectedBenchmark, selectedTypes, fixing, isRunning, isApplyingFix, orders>>
  BY <1>1
<1>6. activeStep' \in 0 .. PipelineSteps
  BY <1>5, TestsFacts
<1>7. QED
  BY <1>4, <1>5, <1>6, TestsFacts, TestsAfter

\* A fix puts back the suite it is of, counted anew.
LEMMA TestsFixed ==
  ASSUME TestsInv, TestsPg!FixAnswered
  PROVE  TestsInv'
<1>1. /\ fixing # None /\ suite' = TestsPg!Fixed(fixing) /\ fixing' = None /\ isApplyingFix' = FALSE
      /\ UNCHANGED <<selectedBenchmark, selectedTypes, generating, isGenerating, isRunning, activeStep, orders>>
  BY DEF TestsPg!FixAnswered
<1>2. PICK types \in SUBSET TestType : fixing.suite.status \in [types -> {"PASS", "FAIL"}]
  BY <1>1, TestsFacts, TestsSuites
<1>3. PICK status : status = [fixing.suite.status EXCEPT ![fixing.type] = "PASS"]
  OBVIOUS
<1>4. status \in [types -> {"PASS", "FAIL"}] /\ suite' = TestsPg!SuiteOf(status)
  BY <1>1, <1>2, <1>3 DEF TestsPg!Fixed
<1>5. suite' \in TestsPg!Suites /\ DOMAIN (suite'.status) \subseteq TestType
  BY <1>4, TestsSuiteIn
<1>6. QED
  BY <1>1, <1>5, TestsFacts, TestsAfter

LEMMA TestsStep == TestsInv /\ TestsPg!Next => TestsInv'
<1> SUFFICES ASSUME TestsInv, TestsPg!Next PROVE TestsInv'
  OBVIOUS
<1>1. ASSUME NEW x \in Benchmarks, TestsPg!HandleBenchmarkSelect(x) PROVE TestsInv'
  <2>1. /\ selectedBenchmark' = x
        /\ UNCHANGED <<suite, selectedTypes, generating, fixing, isGenerating, isRunning, isApplyingFix, activeStep, orders>>
    BY <1>1 DEF TestsPg!HandleBenchmarkSelect
  <2>2. QED
    BY <1>1, <2>1, TestsFacts, TestsAfter
<1>2. CASE TestsPg!HandleRunInSandbox
  <2>1. /\ isRunning' = TRUE /\ ~isGenerating /\ orders < MaxOrders /\ orders' = orders + 1
        /\ UNCHANGED <<suite, selectedBenchmark, selectedTypes, generating, fixing, isGenerating, isApplyingFix, activeStep>>
    BY <1>2 DEF TestsPg!HandleRunInSandbox, TestsPg!Order
  <2>2. orders' \in 0 .. MaxOrders
    BY <2>1, TestsFacts
  <2>3. QED
    BY <2>1, <2>2, TestsFacts, TestsAfter
<1>3. CASE TestsPg!SandboxTimer
  <2>1. /\ isRunning' = FALSE
        /\ UNCHANGED <<suite, selectedBenchmark, selectedTypes, generating, fixing, isGenerating, isApplyingFix, activeStep, orders>>
    BY <1>3 DEF TestsPg!SandboxTimer
  <2>2. QED
    BY <2>1, TestsFacts, TestsAfter
<1>4. QED
  BY <1>1, <1>2, <1>3, TestsToggle, TestsApplyFix, TestsGenerate, TestsTimer, TestsGenerated, TestsFixed DEF TestsPg!Next

LEMMA TestsKept == TestsInv /\ UNCHANGED testsVars => TestsInv'
<1> SUFFICES ASSUME TestsInv, UNCHANGED testsVars PROVE TestsInv'
  OBVIOUS
<1>1. UNCHANGED <<suite, selectedBenchmark, selectedTypes, generating, fixing, isGenerating, isRunning, isApplyingFix,
                  activeStep, orders>>
  BY DEF testsVars
<1>2. QED
  BY <1>1, TestsFacts, TestsAfter
-----------------------------------------------------------------------------
(***************************************************************************)
(* The list of reviews                                                     *)
(***************************************************************************)
\* A row of the list, and what a review that found a leak says of it.
CockpitRow == [id : Nat, score : 0 .. 100, decision : {"APPROVED", "CHANGES_REQUESTED", "COMMENTED"},
        security : {0, 1}, findings : SUBSET {"Security", "Correctness"}]
AsFound(row) == row.security = 1 <=> row.decision = "CHANGES_REQUESTED" /\ "Security" \in row.findings
\* No two reviews of one number, and the seeded ones among them.
ReviewsListed(list) ==
  /\ list \in Seq(CockpitRow)
  /\ \A i, k \in DOMAIN list : list[i].id = list[k].id => i = k
  /\ \A n \in {143, 142, 141, 140} : \E i \in DOMAIN list : list[i].id = n
  /\ \A i \in DOMAIN list : AsFound(list[i])
CockpitInv == Cockpit!TypeOK /\ ReviewsListed(reviews)
\* What is assumed of the numbers and the code that are typed.
LEMMA CockpitFacts ==
  /\ \A f \in Cockpit!Form : f.number \in Nat
  /\ \A n \in PrNumber \cup {145} : \A diff \in Diff : [number |-> n, diff |-> diff] \in Cockpit!Form
  /\ "empty" \in Diff /\ "sql" \in Diff /\ "loop" \in Diff /\ None \notin Cockpit!Form
<1>1. PrNumber \subseteq Nat /\ {"empty", "sql", "loop"} \subseteq Diff /\ None \notin Cockpit!Form
  BY ReviewsAssumption
<1>2. ASSUME NEW f \in Cockpit!Form PROVE f.number \in Nat
  <2>1. f.number \in PrNumber \cup {145}
    BY DEF Cockpit!Form
  <2>2. PrNumber \subseteq Nat
    BY <1>1
  <2>3. CASE f.number = 145
    BY <2>3
  <2>4. CASE f.number \in PrNumber
    BY <2>2, <2>4
  <2>5. QED
    BY <2>1, <2>3, <2>4
<1>3. ASSUME NEW n \in PrNumber \cup {145}, NEW diff \in Diff
      PROVE  [number |-> n, diff |-> diff] \in Cockpit!Form
  BY DEF Cockpit!Form
<1>4. QED
  BY <1>1, <1>2, <1>3

LEMMA CockpitInit == Cockpit!Init => CockpitInv
<1> SUFFICES ASSUME Cockpit!Init PROVE CockpitInv
  OBVIOUS
<1>1. PICK one : one = [id |-> 143, score |-> 78, decision |-> "CHANGES_REQUESTED", security |-> 1, findings |-> {"Security"}]
  OBVIOUS
<1>2. PICK two : two = [id |-> 142, score |-> 98, decision |-> "APPROVED", security |-> 0, findings |-> {}]
  OBVIOUS
<1>3. PICK three : three = [id |-> 141, score |-> 95, decision |-> "APPROVED", security |-> 0, findings |-> {}]
  OBVIOUS
<1>4. PICK four : four = [id |-> 140, score |-> 91, decision |-> "APPROVED", security |-> 0, findings |-> {}]
  OBVIOUS
<1>5. /\ one \in CockpitRow /\ two \in CockpitRow /\ three \in CockpitRow /\ four \in CockpitRow
      /\ one.id = 143 /\ two.id = 142 /\ three.id = 141 /\ four.id = 140
      /\ AsFound(one) /\ AsFound(two) /\ AsFound(three) /\ AsFound(four)
  BY <1>1, <1>2, <1>3, <1>4 DEF CockpitRow, AsFound
<1>6. /\ reviews = <<one, two, three, four>>
      /\ form = [number |-> 145, diff |-> "empty"] /\ isModalOpen = FALSE /\ triggering = None
  BY <1>1, <1>2, <1>3, <1>4, Zenon DEF Cockpit!Init, Cockpit!InitialReviews
<1>7. /\ reviews \in Seq(CockpitRow) /\ DOMAIN reviews = 1 .. 4
      /\ reviews[1] = one /\ reviews[2] = two /\ reviews[3] = three /\ reviews[4] = four
  BY <1>5, <1>6
<1>8. \A i \in 1 .. 4 : i = 1 \/ i = 2 \/ i = 3 \/ i = 4
  OBVIOUS
<1>9. ReviewsListed(reviews)
  <2>1. \A i, k \in DOMAIN reviews : reviews[i].id = reviews[k].id => i = k
    BY <1>5, <1>7, <1>8
  <2>2. \A n \in {143, 142, 141, 140} : \E i \in DOMAIN reviews : reviews[i].id = n
    <3>1. 1 \in DOMAIN reviews /\ 2 \in DOMAIN reviews /\ 3 \in DOMAIN reviews /\ 4 \in DOMAIN reviews
      BY <1>7
    <3>2. QED
      BY <1>5, <1>7, <3>1
  <2>3. \A i \in DOMAIN reviews : AsFound(reviews[i])
    BY <1>5, <1>7, <1>8
  <2>4. QED
    BY <1>7, <2>1, <2>2, <2>3 DEF ReviewsListed
<1>10. Cockpit!TypeOK
  <2>1. form \in Cockpit!Form
    BY <1>6, CockpitFacts
  <2>2. Cockpit!Range(reviews) \subseteq CockpitRow
    <3>1. reviews \in Seq(CockpitRow)
      BY <1>7
    <3>2. \A i \in DOMAIN reviews : reviews[i] \in CockpitRow
      BY <3>1
    <3>3. QED
      BY <3>2, Zenon DEF Cockpit!Range
  <2>3. isModalOpen \in BOOLEAN /\ triggering \in Cockpit!Form \cup {None}
    BY <1>6
  <2>4. QED
    BY <2>1, <2>2, <2>3, Zenon DEF Cockpit!TypeOK, CockpitRow
<1>11. QED
  BY <1>9, <1>10 DEF CockpitInv

\* What the built-in review says of a diff fits the verdict it gives.
LEMMA CockpitReviewed ==
  ASSUME NEW f \in Cockpit!Form, NEW row, row = Cockpit!Reviewed(f)
  PROVE  row \in CockpitRow /\ AsFound(row)
<1>1. f.number \in Nat
  BY CockpitFacts
<1>2. PICK isSecPr \in BOOLEAN : isSecPr <=> f.number = 143 \/ f.diff = "sql"
  OBVIOUS
<1>3. PICK isPerfPr \in BOOLEAN : isPerfPr <=> f.number = 144 \/ f.diff = "loop"
  OBVIOUS
<1>4. row = [id |-> f.number,
             score |-> IF isSecPr THEN 78 ELSE IF isPerfPr THEN 82 ELSE 96,
             decision |-> IF isSecPr THEN "CHANGES_REQUESTED" ELSE IF isPerfPr THEN "COMMENTED" ELSE "APPROVED",
             security |-> IF isSecPr THEN 1 ELSE 0,
             findings |-> IF isSecPr THEN {"Security"} ELSE IF isPerfPr THEN {"Correctness"} ELSE {}]
  BY <1>2, <1>3 DEF Cockpit!Reviewed
<1>5. QED
  BY <1>1, <1>4 DEF CockpitRow, AsFound

\* The list is the old one without the number that is reviewed again, with
\* the new row in front: no number is there twice and none is lost.
LEMMA CockpitTimer ==
  ASSUME CockpitInv, Cockpit!ReviewTimer
  PROVE  CockpitInv'
<1>1. PICK row : row = Cockpit!Reviewed(triggering)
  OBVIOUS
<1>2. PICK keep : keep = {i \in DOMAIN reviews : reviews[i].id # row.id}
  OBVIOUS
<1>3. PICK rest : rest = Kept(reviews, keep)
  OBVIOUS
<1>4. triggering # None /\ reviews' = <<row>> \o rest /\ triggering' = None /\ isModalOpen' = FALSE /\ form' = form
  <2>1. Cockpit!Listing(row) = <<row>> \o rest
    BY <1>2, <1>3, Zenon DEF Cockpit!Listing, Cockpit!Kept, Kept
  <2>2. QED
    BY <1>1, <2>1, Zenon DEF Cockpit!ReviewTimer
<1>5. /\ reviews \in Seq(CockpitRow) /\ DOMAIN reviews = 1 .. Len(reviews)
      /\ \A i, k \in DOMAIN reviews : reviews[i].id = reviews[k].id => i = k
      /\ \A n \in {143, 142, 141, 140} : \E i \in DOMAIN reviews : reviews[i].id = n
      /\ \A i \in DOMAIN reviews : AsFound(reviews[i])
  <2>1. ReviewsListed(reviews)
    BY DEF CockpitInv
  <2>2. reviews \in Seq(CockpitRow)
    BY <2>1 DEF ReviewsListed
  <2>3. QED
    BY <2>1, <2>2 DEF ReviewsListed
<1>6. row \in CockpitRow /\ AsFound(row)
  <2>1. triggering \in Cockpit!Form
    BY <1>4 DEF CockpitInv, Cockpit!TypeOK
  <2>2. QED
    BY <1>1, <2>1, CockpitReviewed
<1>7. rest \in Seq(CockpitRow) /\ PartOf(rest, reviews, keep, Len(reviews)) /\ DOMAIN rest = 1 .. Len(rest)
  <2>1. rest \in Seq(CockpitRow) /\ PartOf(rest, reviews, keep, Len(reviews))
    BY <1>3, <1>5, KeptIsPart
  <2>2. QED
    BY <2>1
<1>8. reviews' \in Seq(CockpitRow) /\ IsInFront(reviews', row, rest)
  BY <1>4, <1>6, <1>7, InFront
<1>9. /\ 1 \in DOMAIN reviews' /\ reviews'[1] = row
      /\ \A i \in DOMAIN reviews' : reviews'[i] = row \/ \E k \in DOMAIN rest : reviews'[i] = rest[k]
      /\ \A k \in DOMAIN rest : \E i \in DOMAIN reviews' : reviews'[i] = rest[k]
  BY <1>8, Zenon DEF IsInFront
<1>10. \A k \in DOMAIN rest : \E j \in DOMAIN reviews : j \in keep /\ rest[k] = reviews[j]
  <2>1. PartOf(rest, reviews, keep, Len(reviews)) /\ DOMAIN rest = 1 .. Len(rest)
    BY <1>7
  <2>2. DOMAIN reviews = 1 .. Len(reviews)
    BY <1>5
  <2>3. QED
    BY <2>1, <2>2, Zenon DEF PartOf
<1>11. \A j \in DOMAIN reviews : j \in keep => \E k \in DOMAIN rest : rest[k] = reviews[j]
  <2>1. PartOf(rest, reviews, keep, Len(reviews)) /\ DOMAIN rest = 1 .. Len(rest)
    BY <1>7
  <2>2. DOMAIN reviews = 1 .. Len(reviews)
    BY <1>5
  <2>3. QED
    BY <2>1, <2>2, Zenon DEF PartOf
<1>12. \A i, k \in DOMAIN rest : rest[i].id = rest[k].id => i = k
  <2> SUFFICES ASSUME NEW i \in DOMAIN rest, NEW k \in DOMAIN rest, i # k PROVE rest[i].id # rest[k].id
    OBVIOUS
  <2>1. PartOf(rest, reviews, keep, Len(reviews)) /\ i \in 1 .. Len(rest) /\ k \in 1 .. Len(rest)
    BY <1>7
  <2>2. DOMAIN reviews = 1 .. Len(reviews) /\ \A j, m \in DOMAIN reviews : reviews[j].id = reviews[m].id => j = m
    BY <1>5
  <2>3. PICK j, m \in 1 .. Len(reviews) : j # m /\ j \in keep /\ m \in keep /\ rest[i] = reviews[j] /\ rest[k] = reviews[m]
    BY <2>1, Zenon DEF PartOf
  <2>4. j \in DOMAIN reviews /\ m \in DOMAIN reviews
    BY <2>2
  <2>5. reviews[j].id # reviews[m].id
    BY <2>2, <2>3, <2>4
  <2>6. QED
    BY <2>3, <2>5
<1>13. \A k \in DOMAIN rest : rest[k].id # row.id
  BY <1>2, <1>10
<1>14. \A i, k \in DOMAIN reviews' : reviews'[i].id = reviews'[k].id => i = k
  <2>1. (\A k \in DOMAIN rest : rest[k] # row) /\ (\A i, k \in DOMAIN rest : rest[i] = rest[k] => i = k)
    BY <1>12, <1>13
  <2>2. \A i, k \in DOMAIN reviews' : reviews'[i] = reviews'[k] => i = k
    BY <1>8, <2>1, Zenon DEF IsInFront
  <2>3. ASSUME NEW i \in DOMAIN reviews', NEW k \in DOMAIN reviews', reviews'[i].id = reviews'[k].id
        PROVE  reviews'[i] = reviews'[k]
    <3>1. CASE reviews'[i] = row
      BY <1>9, <1>13, <2>3, <3>1
    <3>2. CASE reviews'[k] = row
      BY <1>9, <1>13, <2>3, <3>2
    <3>3. CASE reviews'[i] # row /\ reviews'[k] # row
      <4>1. PICK j \in DOMAIN rest : reviews'[i] = rest[j]
        BY <1>9, <3>3
      <4>2. PICK m \in DOMAIN rest : reviews'[k] = rest[m]
        BY <1>9, <3>3
      <4>3. QED
        BY <1>12, <2>3, <4>1, <4>2
    <3>4. QED
      BY <3>1, <3>2, <3>3
  <2>4. QED
    BY <2>2, <2>3
<1>15. \A n \in {143, 142, 141, 140} : \E i \in DOMAIN reviews' : reviews'[i].id = n
  <2> SUFFICES ASSUME NEW n \in {143, 142, 141, 140}, n # row.id PROVE \E i \in DOMAIN reviews' : reviews'[i].id = n
    BY <1>9
  <2>1. PICK j \in DOMAIN reviews : reviews[j].id = n
    BY <1>5
  <2>2. PICK k \in DOMAIN rest : rest[k] = reviews[j]
    BY <1>2, <1>11, <2>1
  <2>3. QED
    BY <1>9, <2>1, <2>2
<1>16. \A i \in DOMAIN reviews' : AsFound(reviews'[i])
  BY <1>5, <1>6, <1>9, <1>10
<1>17. ReviewsListed(reviews)'
  BY <1>8, <1>14, <1>15, <1>16 DEF ReviewsListed
<1>18. Cockpit!TypeOK'
  <2>1. \A x \in Cockpit!Range(reviews') : x \in CockpitRow
    BY <1>8 DEF Cockpit!Range
  <2>2. QED
    BY <1>4, <2>1 DEF CockpitInv, Cockpit!TypeOK, CockpitRow
<1>19. QED
  BY <1>17, <1>18 DEF CockpitInv

LEMMA CockpitStep == CockpitInv /\ Cockpit!Next => CockpitInv'
<1> SUFFICES ASSUME CockpitInv, Cockpit!Next PROVE CockpitInv'
  OBVIOUS
<1>1. ASSUME form' \in Cockpit!Form, isModalOpen' \in BOOLEAN, triggering' \in Cockpit!Form \cup {None}, reviews' = reviews
      PROVE  CockpitInv'
  BY <1>1 DEF CockpitInv, Cockpit!TypeOK
<1>2. form \in Cockpit!Form /\ isModalOpen \in BOOLEAN /\ triggering \in Cockpit!Form \cup {None}
  BY DEF CockpitInv, Cockpit!TypeOK
<1>3. CASE Cockpit!ToggleModal
  BY <1>1, <1>2, <1>3 DEF Cockpit!ToggleModal
<1>4. CASE Cockpit!HandleTriggerReview
  BY <1>1, <1>2, <1>4 DEF Cockpit!HandleTriggerReview
<1>5. ASSUME NEW n \in PrNumber, Cockpit!HandleSelectPreset(n) PROVE CockpitInv'
  <2>1. form' \in Cockpit!Form
    BY <1>5, CockpitFacts DEF Cockpit!HandleSelectPreset
  <2>2. QED
    BY <1>1, <1>2, <1>5, <2>1 DEF Cockpit!HandleSelectPreset
<1>6. ASSUME NEW n \in PrNumber, NEW diff \in Diff, Cockpit!Type(n, diff) PROVE CockpitInv'
  <2>1. form' \in Cockpit!Form
    BY <1>6 DEF Cockpit!Type, Cockpit!Form
  <2>2. QED
    BY <1>1, <1>2, <1>6, <2>1 DEF Cockpit!Type
<1>7. QED
  BY <1>3, <1>4, <1>5, <1>6, CockpitTimer DEF Cockpit!Next

LEMMA CockpitKept == CockpitInv /\ UNCHANGED cockpitVars => CockpitInv'
BY DEF cockpitVars, CockpitInv, Cockpit!TypeOK

\* The total is the number of those the filters find.
LEMMA CockpitTotals ==
  ASSUME NEW list, ReviewsListed(list), NEW keep, NEW part, part = Kept(list, keep),
         \A i \in DOMAIN list :
           i \in keep <=> list[i].decision = "CHANGES_REQUESTED" /\ "Security" \in list[i].findings,
         NEW total, total \in [0 .. Len(list) -> Nat], total[0] = 0,
         \A i \in 1 .. Len(list) : total[i] = total[i - 1] + list[i].security
  PROVE  total[Len(list)] = Len(part)
<1>1. PICK n : n = Len(list)
  OBVIOUS
<1>2. list \in Seq(CockpitRow) /\ n \in Nat /\ DOMAIN list = 1 .. n /\ \A i \in 1 .. n : AsFound(list[i]) /\ list[i] \in CockpitRow
  <2>1. list \in Seq(CockpitRow)
    BY Zenon DEF ReviewsListed
  <2>2. n \in Nat /\ DOMAIN list = 1 .. n /\ \A i \in 1 .. n : list[i] \in CockpitRow
    BY <1>1, <2>1
  <2>3. \A i \in DOMAIN list : AsFound(list[i])
    BY Zenon DEF ReviewsListed
  <2>4. QED
    BY <2>1, <2>2, <2>3
<1>3. PICK sofar : KeptUpTo(list, keep, n, sofar) /\ part = sofar[n]
  BY <1>1, <1>2, KeptIs
<1>4. /\ sofar[0] = <<>>
      /\ \A i \in 1 .. n : sofar[i] = IF i \in keep THEN Append(sofar[i - 1], list[i]) ELSE sofar[i - 1]
  <2>1. n \in Nat /\ KeptUpTo(list, keep, n, sofar)
    BY <1>2, <1>3, Zenon
  <2>2. QED
    BY <2>1, KeptStep
<1>5. \A i \in 1 .. n : list[i].security = IF i \in keep THEN 1 ELSE 0
  BY <1>2 DEF AsFound, CockpitRow
<1>6. PICK S : S = {i \in Nat : i <= n => sofar[i] \in Seq(CockpitRow) /\ total[i] = Len(sofar[i])}
  OBVIOUS
<1>7. 0 \in S
  <2>1. sofar[0] \in Seq(CockpitRow) /\ Len(sofar[0]) = 0
    BY <1>4
  <2>2. QED
    BY <1>6, <2>1
<1>8. ASSUME NEW i \in Nat, i \in S PROVE i + 1 \in S
  <2> SUFFICES ASSUME i + 1 <= n PROVE sofar[i + 1] \in Seq(CockpitRow) /\ total[i + 1] = Len(sofar[i + 1])
    BY <1>6
  <2>1. i + 1 \in 1 .. n /\ (i + 1) - 1 = i
    BY <1>2
  <2>2. sofar[i] \in Seq(CockpitRow) /\ total[i] = Len(sofar[i])
    BY <1>2, <1>6, <1>8
  <2>3. sofar[i + 1] = IF i + 1 \in keep THEN Append(sofar[i], list[i + 1]) ELSE sofar[i]
    BY <1>4, <2>1
  <2>4. total[i + 1] = total[i] + (IF i + 1 \in keep THEN 1 ELSE 0)
    BY <1>1, <1>5, <2>1
  <2>5. list[i + 1] \in CockpitRow
    BY <1>2, <2>1
  <2>6. PICK before : before = sofar[i]
    OBVIOUS
  <2>7. before \in Seq(CockpitRow) /\ Len(before) \in Nat
    BY <2>2, <2>6
  <2>8. Append(before, list[i + 1]) \in Seq(CockpitRow) /\ Len(Append(before, list[i + 1])) = Len(before) + 1
    BY <2>5, <2>7
  <2>9. total[i] = Len(before)
    BY <2>2, <2>6
  <2>10. CASE i + 1 \in keep
    <3>1. sofar[i + 1] = Append(before, list[i + 1]) /\ total[i + 1] = Len(before) + 1
      BY <2>3, <2>4, <2>6, <2>9, <2>10
    <3>2. QED
      BY <2>8, <3>1
  <2>11. CASE i + 1 \notin keep
    <3>1. sofar[i + 1] = before /\ total[i + 1] = Len(before)
      <4>1. sofar[i + 1] = sofar[i] /\ total[i + 1] = total[i] + 0
        BY <2>3, <2>4, <2>11
      <4>2. QED
        BY <2>6, <2>7, <2>9, <4>1
    <3>2. QED
      BY <2>7, <3>1
  <2>12. QED
    BY <2>10, <2>11
<1>9. n \in S
  BY <1>2, <1>7, <1>8, AllNumbers
<1>10. QED
  BY <1>1, <1>2, <1>3, <1>6, <1>9

LEMMA CockpitPromises == CockpitInv => Cockpit!ReviewsKept
<1> SUFFICES ASSUME CockpitInv PROVE Cockpit!ReviewsKept
  OBVIOUS
<1>1. PICK n : n = Len(reviews)
  OBVIOUS
<1>2. /\ reviews \in Seq(CockpitRow) /\ n \in Nat /\ DOMAIN reviews = 1 .. n
      /\ \A i \in 1 .. n : reviews[i].security \in Nat
      /\ \A i, k \in DOMAIN reviews : reviews[i].id = reviews[k].id => i = k
      /\ \A m \in {143, 142, 141, 140} : \E i \in DOMAIN reviews : reviews[i].id = m
  <2>1. reviews \in Seq(CockpitRow)
    BY DEF CockpitInv, ReviewsListed
  <2>2. n \in Nat /\ DOMAIN reviews = 1 .. n /\ \A i \in 1 .. n : reviews[i] \in CockpitRow
    BY <1>1, <2>1
  <2>3. \A i \in 1 .. n : reviews[i].security \in Nat
    BY <2>2 DEF CockpitRow
  <2>4. QED
    BY <2>1, <2>2, <2>3 DEF CockpitInv, ReviewsListed
<1>3. Cockpit!IsInjective([i \in DOMAIN reviews |-> reviews[i].id])
  BY <1>2 DEF Cockpit!IsInjective
<1>4. {r.id : r \in Cockpit!Range(Cockpit!InitialReviews)} \subseteq {r.id : r \in Cockpit!Range(reviews)}
  <2>1. ASSUME NEW r \in Cockpit!Range(Cockpit!InitialReviews) PROVE r.id \in {143, 142, 141, 140}
    <3>1. PICK list : list = Cockpit!InitialReviews
      OBVIOUS
    <3>2. Len(list) = 4 /\ DOMAIN list = 1 .. 4 /\ list[1].id = 143 /\ list[2].id = 142 /\ list[3].id = 141 /\ list[4].id = 140
      BY <3>1 DEF Cockpit!InitialReviews
    <3>3. \E i \in DOMAIN list : r = list[i]
      BY <3>1 DEF Cockpit!Range
    <3>4. \A i \in 1 .. 4 : i = 1 \/ i = 2 \/ i = 3 \/ i = 4
      OBVIOUS
    <3>5. QED
      BY <3>2, <3>3, <3>4
  <2>2. ASSUME NEW m \in {143, 142, 141, 140} PROVE m \in {r.id : r \in Cockpit!Range(reviews)}
    <3>1. PICK i \in DOMAIN reviews : reviews[i].id = m
      BY <1>2
    <3>2. reviews[i] \in Cockpit!Range(reviews)
      BY DEF Cockpit!Range
    <3>3. QED
      BY <3>1, <3>2
  <2>3. QED
    BY <2>1, <2>2
<1>5. PICK keep : keep = {i \in DOMAIN reviews : reviews[i].decision = "CHANGES_REQUESTED" /\ "Security" \in reviews[i].findings}
  OBVIOUS
<1>6. PICK part : part = Kept(reviews, keep)
  OBVIOUS
<1>7. Cockpit!FilteredReviews("CHANGES_REQUESTED", "Security") = part
  <2>1. {i \in DOMAIN reviews : /\ "CHANGES_REQUESTED" \in {"ALL", reviews[i].decision}
                                /\ "Security" \in {"ALL"} \cup reviews[i].findings} = keep
    BY <1>5
  <2>2. Cockpit!Kept(reviews, keep) = part
    BY <1>6, Zenon DEF Cockpit!Kept, Kept
  <2>3. QED
    BY <2>1, <2>2, Zenon DEF Cockpit!FilteredReviews
<1>8. PICK next : next = [x \in (1 .. n) \X Nat |-> x[2] + reviews[x[1]].security]
  OBVIOUS
<1>9. next \in [(1 .. n) \X Nat -> Nat] /\ \A i \in 1 .. n : \A x \in Nat : next[<<i, x>>] = x + reviews[i].security
  <2>1. \A i \in 1 .. n : reviews[i].security \in Nat
    BY <1>2
  <2>2. \A i \in 1 .. n : \A x \in Nat : x + reviews[i].security \in Nat
    BY <2>1
  <2>3. ASSUME NEW p \in (1 .. n) \X Nat PROVE p[2] + reviews[p[1]].security \in Nat
    BY <2>2
  <2>4. next \in [(1 .. n) \X Nat -> Nat]
    BY <1>8, <2>3
  <2>5. ASSUME NEW i \in 1 .. n, NEW x \in Nat PROVE next[<<i, x>>] = x + reviews[i].security
    BY <1>8
  <2>6. QED
    BY <2>4, <2>5
<1>10. PICK f \in [0 .. n -> Nat] : f[0] = 0 /\ \A i \in 1 .. n : f[i] = next[<<i, f[i - 1]>>]
  <2>1. \E f : Recursion(f, Nat, 0, n, next)
    <3>1. 0 \in Nat /\ n \in Nat
      BY <1>2
    <3>2. next \in [(1 .. n) \X Nat -> Nat]
      BY <1>9
    <3>3. QED
      BY <3>1, <3>2, RecursionExists, Zenon
  <2>2. QED
    BY <2>1, Zenon DEF Recursion
<1>11. f = [i \in 0 .. n |-> IF i = 0 THEN 0 ELSE f[i - 1] + reviews[i].security]
  <2>1. \A i \in 0 .. n : f[i] = IF i = 0 THEN 0 ELSE f[i - 1] + reviews[i].security
    <3> TAKE i \in 0 .. n
    <3>1. CASE i # 0
      <4>1. i \in 1 .. n /\ i - 1 \in 0 .. n
        BY <1>2, <3>1
      <4>2. f[i] = next[<<i, f[i - 1]>>] /\ f[i - 1] \in Nat
        BY <1>10, <4>1
      <4>3. QED
        BY <1>9, <3>1, <4>1, <4>2
    <3>2. QED
      BY <1>10, <3>1
  <2>2. f = [i \in 0 .. n |-> f[i]]
    BY <1>10
  <2>3. QED
    BY <2>1, <2>2
<1>12. PICK total : total = CHOOSE g : g = [i \in 0 .. Len(reviews) |-> IF i = 0 THEN 0 ELSE g[i - 1] + reviews[i].security]
  OBVIOUS
<1>13. total = [i \in 0 .. n |-> IF i = 0 THEN 0 ELSE total[i - 1] + reviews[i].security]
  BY <1>1, <1>11, <1>12, Zenon
<1>14. Cockpit!SecurityPrevented = total[n]
  BY <1>1, <1>12, Zenon DEF Cockpit!SecurityPrevented
<1>15. total[0] = 0 /\ \A i \in 1 .. n : total[i] = total[i - 1] + reviews[i].security
  <2>1. \A i \in 0 .. n : total[i] = IF i = 0 THEN 0 ELSE total[i - 1] + reviews[i].security
    BY <1>13, Zenon
  <2>2. 0 \in 0 .. n /\ \A i \in 1 .. n : i \in 0 .. n /\ i # 0
    BY <1>2
  <2>3. QED
    BY <2>1, <2>2
<1>16. total \in [0 .. n -> Nat]
  <2>1. PICK S : S = {i \in Nat : i <= n => total[i] \in Nat}
    OBVIOUS
  <2>2. 0 \in S
    BY <1>15, <2>1
  <2>3. ASSUME NEW i \in Nat, i \in S PROVE i + 1 \in S
    <3> SUFFICES ASSUME i + 1 <= n PROVE total[i + 1] \in Nat
      BY <2>1
    <3>1. n \in Nat
      BY <1>2
    <3>2. i + 1 \in 1 .. n /\ (i + 1) - 1 = i
      BY <3>1
    <3>3. i <= n
      BY <3>1
    <3>4. total[i] \in Nat
      BY <2>1, <2>3, <3>3
    <3>5. total[i + 1] = total[i] + reviews[i + 1].security
      BY <1>15, <3>2
    <3>6. reviews[i + 1].security \in Nat
      BY <1>2, <3>2
    <3>7. QED
      BY <3>4, <3>5, <3>6
  <2>4. \A i \in 0 .. n : total[i] \in Nat
    <3>1. Nat \subseteq S
      BY <2>2, <2>3, AllNumbers
    <3>2. QED
      BY <1>2, <2>1, <3>1
  <2>5. QED
    BY <1>13, <2>4
<1>17. total[n] = Len(part)
  <2>1. ReviewsListed(reviews)
    BY DEF CockpitInv
  <2>2. \A i \in DOMAIN reviews :
          i \in keep <=> reviews[i].decision = "CHANGES_REQUESTED" /\ "Security" \in reviews[i].findings
    BY <1>5
  <2>3. QED
    BY <1>1, <1>6, <1>15, <1>16, <2>1, <2>2, CockpitTotals
<1>18. QED
  BY <1>3, <1>4, <1>7, <1>14, <1>17, Zenon DEF Cockpit!ReviewsKept
-----------------------------------------------------------------------------
(***************************************************************************)
(* The report of a review                                                  *)
(***************************************************************************)
\* The findings a report can have.
OpenLeak == [id |-> "sec", category |-> "Security", severity |-> "CRITICAL", applied |-> FALSE]
FixedLeak == [id |-> "sec", category |-> "Security", severity |-> "CRITICAL", applied |-> TRUE]
\* The report is the seeded one or one of the three a decision can leave.
ReportInv ==
  /\ Report!TypeOK /\ Report!VerdictIsOfOpenFindings
  /\ report \in [findings : {{}, {OpenLeak}, {FixedLeak}}, decision : {"APPROVED", "CHANGES_REQUESTED"},
                 overallScore : Int, security : Nat, published : BOOLEAN]
LEMMA ReportCardinality == \A S : Report!Cardinality(S) = Cardinality(S)
BY Zenon DEF Report!Cardinality, Cardinality

ReportRow == [findings : {{}, {OpenLeak}, {FixedLeak}}, decision : {"APPROVED", "CHANGES_REQUESTED"},
              overallScore : Int, security : Nat, published : BOOLEAN]

\* What the invariant says of the report and the buttons.
LEMMA ReportFacts ==
  ASSUME ReportInv
  PROVE  /\ report \in ReportRow
         /\ isRunningSandbox \in BOOLEAN /\ sandboxLogs \in BOOLEAN /\ isPublishingGitHub \in BOOLEAN
         /\ githubPublished \in BOOLEAN /\ humanComments \in 0 .. MaxComments /\ MaxComments \in Nat
         /\ (report.decision = "APPROVED" <=> \A f \in report.findings : f.applied)
         /\ appliedFindingIds = {f.id : f \in {g \in report.findings : g.applied}}
         /\ githubPublished = report.published
<1>1. MaxComments \in Nat
  BY ReviewsAssumption
<1>2. report \in ReportRow
  BY DEF ReportInv, ReportRow
<1>3. /\ isRunningSandbox \in BOOLEAN /\ sandboxLogs \in BOOLEAN /\ isPublishingGitHub \in BOOLEAN
      /\ githubPublished \in BOOLEAN /\ humanComments \in 0 .. MaxComments
  BY DEF ReportInv, Report!TypeOK
<1>4. /\ (report.decision = "APPROVED" <=> \A f \in report.findings : f.applied)
      /\ appliedFindingIds = {f.id : f \in {g \in report.findings : g.applied}}
      /\ githubPublished = report.published
  BY Zenon DEF ReportInv, Report!VerdictIsOfOpenFindings
<1>5. QED
  BY <1>1, <1>2, <1>3, <1>4

LEMMA ReportAfter ==
  ASSUME report' \in ReportRow,
         isRunningSandbox' \in BOOLEAN, sandboxLogs' \in BOOLEAN, isPublishingGitHub' \in BOOLEAN,
         githubPublished' \in BOOLEAN, humanComments' \in 0 .. MaxComments,
         (report'.decision = "APPROVED" <=> \A f \in report'.findings : f.applied),
         appliedFindingIds' = {f.id : f \in {g \in report'.findings : g.applied}},
         githubPublished' = report'.published
  PROVE  ReportInv'
<1>1. Report!TypeOK'
  BY DEF Report!TypeOK, ReportRow
<1>2. Report!VerdictIsOfOpenFindings'
  BY Zenon DEF Report!VerdictIsOfOpenFindings
<1>3. QED
  BY <1>1, <1>2 DEF ReportInv, ReportRow

LEMMA ReportInit == Report!Init => ReportInv
<1> SUFFICES ASSUME Report!Init PROVE ReportInv
  OBVIOUS
<1>1. PICK i \in ReviewIds : report = IF i = 142 THEN Report!Report142 ELSE Report!Report143
  BY DEF Report!Init
<1>2. /\ appliedFindingIds = {} /\ isRunningSandbox = FALSE /\ sandboxLogs = FALSE
      /\ isPublishingGitHub = FALSE /\ githubPublished = report.published /\ humanComments = 2
  BY DEF Report!Init
<1>3. /\ report \in ReportRow /\ report.published \in BOOLEAN
      /\ (report.decision = "APPROVED" <=> \A f \in report.findings : f.applied)
      /\ \A f \in report.findings : ~f.applied
  <2>1. CASE report = Report!Report142
    BY <2>1 DEF Report!Report142, ReportRow
  <2>2. CASE report = Report!Report143
    <3>1. report = [findings |-> {OpenLeak}, decision |-> "CHANGES_REQUESTED", overallScore |-> 78, security |-> 1,
                    published |-> FALSE]
      BY <2>2, Zenon DEF Report!Report143, OpenLeak
    <3>2. OpenLeak.applied = FALSE
      BY DEF OpenLeak
    <3>3. PICK leaks : leaks = {OpenLeak}
      OBVIOUS
    <3>4. leaks \in {{}, {OpenLeak}, {FixedLeak}} /\ (\A f \in leaks : ~f.applied) /\ \E f \in leaks : ~f.applied
      BY <3>2, <3>3
    <3>5. report = [findings |-> leaks, decision |-> "CHANGES_REQUESTED", overallScore |-> 78, security |-> 1,
                    published |-> FALSE]
      BY <3>1, <3>3
    <3>6. report \in ReportRow
      <4>1. leaks \in {{}, {OpenLeak}, {FixedLeak}}
        BY <3>4
      <4>2. QED
        BY <3>5, <4>1 DEF ReportRow
    <3>7. QED
      BY <3>4, <3>5, <3>6
  <2>3. QED
    BY <1>1, <2>1, <2>2
<1>4. humanComments \in 0 .. MaxComments
  <2>1. MaxComments \in Nat \ {0, 1}
    BY ReviewsAssumption
  <2>2. QED
    BY <1>2, <2>1
<1>5. Report!TypeOK
  BY <1>2, <1>3, <1>4 DEF Report!TypeOK, ReportRow
<1>6. appliedFindingIds = {f.id : f \in {g \in report.findings : g.applied}}
  BY <1>2, <1>3
<1>7. Report!VerdictIsOfOpenFindings
  BY <1>2, <1>3, <1>6, Zenon DEF Report!VerdictIsOfOpenFindings
<1>8. QED
  BY <1>3, <1>5, <1>7 DEF ReportInv, ReportRow

LEMMA MarkedFixed ==
  ASSUME NEW leak, leak = [id |-> "sec", category |-> "Security", severity |-> "CRITICAL", applied |-> FALSE],
         NEW new, new = [leak EXCEPT !.applied = TRUE]
  PROVE  new = [id |-> "sec", category |-> "Security", severity |-> "CRITICAL", applied |-> TRUE]
BY Zenon

LEMMA LeakFixed ==
  ASSUME NEW leak, leak = OpenLeak, NEW fixed, fixed = FixedLeak
  PROVE  /\ leak.id = "sec" /\ leak.applied = FALSE /\ [leak EXCEPT !.applied = TRUE] = fixed
         /\ fixed.id = "sec" /\ fixed.applied = TRUE
<1>1. leak = [id |-> "sec", category |-> "Security", severity |-> "CRITICAL", applied |-> FALSE]
  BY Zenon DEF OpenLeak
<1>2. fixed = [id |-> "sec", category |-> "Security", severity |-> "CRITICAL", applied |-> TRUE]
  BY Zenon DEF FixedLeak
<1>3. PICK new : new = [leak EXCEPT !.applied = TRUE]
  OBVIOUS
<1>4. new = [id |-> "sec", category |-> "Security", severity |-> "CRITICAL", applied |-> TRUE]
  BY <1>1, <1>3, MarkedFixed
<1>5. leak.id = "sec" /\ leak.applied = FALSE /\ fixed.id = "sec" /\ fixed.applied = TRUE
  BY <1>1, <1>2
<1>6. [leak EXCEPT !.applied = TRUE] = fixed
  BY <1>2, <1>3, <1>4, Zenon
<1>7. QED
  BY <1>5, <1>6

\* With the leak fixed nothing blocks, and the verdict says so.
LEMMA ReportFix ==
  ASSUME ReportInv, NEW f \in report.findings, Report!HandleApplyFix(f)
  PROVE  ReportInv'
<1>1. /\ ~f.applied /\ report' = Report!Recounted((report.findings \ {f}) \cup {[f EXCEPT !.applied = TRUE]})
      /\ appliedFindingIds' = appliedFindingIds \cup {f.id}
      /\ UNCHANGED <<isRunningSandbox, sandboxLogs, isPublishingGitHub, githubPublished, humanComments>>
  BY DEF Report!HandleApplyFix, Report!FixOffered
<1>2. PICK leak : leak = OpenLeak
  OBVIOUS
<1>3. PICK fixed : fixed = FixedLeak
  OBVIOUS
<1>4. /\ leak.id = "sec" /\ leak.applied = FALSE /\ [leak EXCEPT !.applied = TRUE] = fixed
      /\ fixed.id = "sec" /\ fixed.applied = TRUE
  BY <1>2, <1>3, LeakFixed
<1>5. report \in ReportRow /\ report.findings \in {{}, {leak}, {fixed}}
  BY <1>2, <1>3, ReportFacts DEF ReportRow
<1>6. f = leak /\ report.findings = {leak}
  BY <1>1, <1>4, <1>5
<1>7. (report.findings \ {f}) \cup {[f EXCEPT !.applied = TRUE]} = {fixed}
  BY <1>4, <1>6
<1>8. {g \in {fixed} : ~g.applied} = {} /\ \A x, y : {g \in {} : g.category = x} = {} /\ {g \in {} : g.severity = y} = {}
  BY <1>4
<1>9. Report!Cardinality({}) = 0
  BY FS_EmptySet, ReportCardinality
<1>10. report' = [report EXCEPT !.findings = {fixed}, !.security = 0, !.overallScore = 100, !.decision = "APPROVED"]
  <2>1. report' = Report!Recounted({fixed})
    BY <1>1, <1>7
  <2>2. PICK zero : zero = Report!Cardinality({})
    OBVIOUS
  <2>3. Report!Recounted({fixed}) =
          [report EXCEPT !.findings = {fixed}, !.security = zero, !.overallScore = 100 - zero * 22 - zero * 12,
                         !.decision = IF zero = 0 /\ zero = 0 /\ 100 - zero * 22 - zero * 12 >= 90
                                      THEN "APPROVED" ELSE "CHANGES_REQUESTED"]
    BY <1>8, <2>2, ZenonT(40) DEF Report!Recounted
  <2>4. zero = 0
    BY <1>9, <2>2
  <2>5. 100 - zero * 22 - zero * 12 = 100 /\ 100 >= 90
    BY <2>4
  <2>6. QED
    BY <2>1, <2>3, <2>4, <2>5
<1>11. PICK new : new = report'
  OBVIOUS
<1>12. /\ new \in ReportRow /\ new.findings = {fixed} /\ new.decision = "APPROVED" /\ new.published = report.published
  <2>1. {fixed} \in {{}, {OpenLeak}, {FixedLeak}}
    BY <1>3
  <2>2. PICK some : some = {fixed}
    OBVIOUS
  <2>3. PICK one : one = [report EXCEPT !.findings = some]
    OBVIOUS
  <2>4. PICK two : two = [one EXCEPT !.security = 0]
    OBVIOUS
  <2>5. PICK three : three = [two EXCEPT !.overallScore = 100]
    OBVIOUS
  <2>6. one \in ReportRow /\ one.findings = some /\ one.published = report.published
    BY <1>5, <2>1, <2>2, <2>3 DEF ReportRow
  <2>7. two \in ReportRow /\ two.findings = some /\ two.published = report.published
    BY <2>4, <2>6 DEF ReportRow
  <2>8. three \in ReportRow /\ three.findings = some /\ three.published = report.published
    BY <2>5, <2>7 DEF ReportRow
  <2>9. new = [three EXCEPT !.decision = "APPROVED"]
    <3>1. new = [report EXCEPT !.findings = some, !.security = 0, !.overallScore = 100, !.decision = "APPROVED"]
      BY <1>10, <1>11, <2>2, Zenon
    <3>2. QED
      BY <2>3, <2>4, <2>5, <3>1
  <2>10. QED
    BY <2>2, <2>8, <2>9 DEF ReportRow
<1>13. appliedFindingIds' = {g.id : g \in {h \in new.findings : h.applied}}
  <2>1. appliedFindingIds = {}
    BY <1>4, <1>6, ReportFacts
  <2>2. {h \in new.findings : h.applied} = {fixed}
    BY <1>4, <1>12
  <2>3. QED
    BY <1>1, <1>4, <1>6, <2>1, <2>2
<1>14. \A g \in new.findings : g.applied
  BY <1>4, <1>12
<1>15. QED
  BY <1>1, <1>11, <1>12, <1>13, <1>14, ReportFacts, ReportAfter

LEMMA ReportStep == ReportInv /\ Report!Next => ReportInv'
<1> SUFFICES ASSUME ReportInv, Report!Next PROVE ReportInv'
  OBVIOUS
<1>1. CASE Report!HandleRunSandbox
  BY <1>1, ReportFacts, ReportAfter DEF Report!HandleRunSandbox
<1>2. CASE Report!SandboxTimer
  BY <1>2, ReportFacts, ReportAfter DEF Report!SandboxTimer
<1>3. CASE Report!HandlePublishToGitHub
  BY <1>3, ReportFacts, ReportAfter DEF Report!HandlePublishToGitHub
<1>4. CASE Report!PublishTimer
  <2>1. /\ isPublishingGitHub' = FALSE /\ githubPublished' = TRUE /\ report' = [report EXCEPT !.published = TRUE]
        /\ UNCHANGED <<appliedFindingIds, isRunningSandbox, sandboxLogs, humanComments>>
    BY <1>4 DEF Report!PublishTimer
  <2>2. PICK new : new = report'
    OBVIOUS
  <2>3. /\ new \in ReportRow /\ new.findings = report.findings /\ new.decision = report.decision /\ new.published = TRUE
    BY <2>1, <2>2, ReportFacts DEF ReportRow
  <2>4. QED
    BY <2>1, <2>2, <2>3, ReportFacts, ReportAfter
<1>5. CASE Report!HandleAddComment
  <2>1. humanComments' \in 0 .. MaxComments
    BY <1>5, ReportFacts DEF Report!HandleAddComment
  <2>2. QED
    BY <1>5, <2>1, ReportFacts, ReportAfter DEF Report!HandleAddComment
<1>6. QED
  BY <1>1, <1>2, <1>3, <1>4, <1>5, ReportFix DEF Report!Next

LEMMA ReportKept == ReportInv /\ UNCHANGED reportVars => ReportInv'
BY DEF reportVars, ReportInv, Report!TypeOK, Report!VerdictIsOfOpenFindings
-----------------------------------------------------------------------------
(***************************************************************************)
(* The workspaces: the list, the active one and the page that is open      *)
(***************************************************************************)
\* The promises of the context, and its list is a list of workspaces.
ContextInv ==
  /\ Workspaces!TypeOK /\ Workspaces!NothingHangs /\ Workspaces!ActiveIsListed
  /\ workspaces \in Seq(Workspace)
\* The parts of the invariant: the list with what is active of it, the
\* requests of the context, and the page that is open.
ContextCalls == [fetch : BOOLEAN, create : Workspace \cup {None}, update : Workspaces!Call \cup {None},
                 delete : Workspaces!Call \cup {None}]
ContextLoads == [Workspaces!Slot -> Workspaces!Run \cup {None}]
ContextList ==
  /\ server \subseteq Workspace /\ workspaces \in Seq(Workspace)
  /\ activeWorkspace \in Workspace \cup {None} /\ raced \in BOOLEAN
  /\ raced \/ activeWorkspace = None \/ \E i \in 1 .. Len(workspaces) : workspaces[i] = activeWorkspace
ContextWork ==
  /\ calls \in ContextCalls /\ isLoading \in BOOLEAN /\ acts \in 0 .. MaxActs
  /\ isLoading => calls.fetch \/ calls.create # None
ContextPage ==
  /\ page \in Workspaces!Page \cup {None} /\ typed \in BOOLEAN /\ pageLoading \in BOOLEAN
  /\ loads \in ContextLoads
  /\ pageLoading => \E s \in Workspaces!Slot : loads[s] # None /\ loads[s].live

\* The invariant in three parts: the list and the active workspace, the
\* requests of the context, and the page that is open with its loads.
LEMMA ContextParts == ContextInv <=> ContextList /\ ContextWork /\ ContextPage
<1>1. workspaces \in Seq(Workspace) =>
        /\ Workspaces!Listed \subseteq Workspace
        /\ \A w : w \in Workspaces!Listed <=> \E i \in 1 .. Len(workspaces) : workspaces[i] = w
  BY DEF Workspaces!Listed, Workspaces!Range
<1>2. QED
  BY <1>1 DEF ContextInv, ContextList, ContextWork, ContextPage, ContextCalls, ContextLoads,
     Workspaces!TypeOK, Workspaces!NothingHangs, Workspaces!ActiveIsListed

LEMMA ContextPartsAfter ==
  ASSUME ContextList', ContextWork', ContextPage'
  PROVE  ContextInv'
<1>1. /\ Workspaces!Listed' \subseteq Workspace
      /\ \A w : w \in Workspaces!Listed' <=> \E i \in 1 .. Len(workspaces') : workspaces'[i] = w
  BY DEF ContextList, Workspaces!Listed, Workspaces!Range
<1>2. QED
  BY <1>1 DEF ContextInv, ContextList, ContextWork, ContextPage, ContextCalls, ContextLoads,
     Workspaces!TypeOK, Workspaces!NothingHangs, Workspaces!ActiveIsListed

\* The list the server makes of its workspaces.
LEMMA ListingIs ==
  ASSUME NEW S, IsFiniteSet(S), NEW list, list = Workspaces!Listing(S)
  PROVE  list \in Seq(S) /\ (\A w \in S : \E i \in 1 .. Len(list) : list[i] = w) /\ (S # {} => Len(list) >= 1)
<1>1. PICK n : n = Cardinality(S)
  OBVIOUS
<1>2. n \in Nat /\ ExistsBijection(1 .. n, S)
  BY <1>1, FS_CardinalityType
<1>3. PICK f \in [1 .. n -> S] : \A w \in S : \E i \in 1 .. n : f[i] = w
  BY <1>2 DEF ExistsBijection, Bijection, Injection, Surjection
<1>4. Workspaces!Range(f) = S
  BY <1>3 DEF Workspaces!Range
<1>5. Workspaces!Cardinality(S) = n
  BY <1>1, Zenon DEF Workspaces!Cardinality, Cardinality
<1>6. list = CHOOSE l \in [1 .. n -> S] : Workspaces!Range(l) = S
  BY <1>5, Zenon DEF Workspaces!Listing
<1>7. list \in [1 .. n -> S] /\ Workspaces!Range(list) = S
  BY <1>3, <1>4, <1>6, Zenon
<1>8. \A w \in S : \E i \in 1 .. n : list[i] = w
  BY <1>7 DEF Workspaces!Range
<1>9. list \in Seq(S) /\ Len(list) = n
  BY <1>2, <1>7
<1>10. QED
  BY <1>2, <1>8, <1>9

\* Fields of a request, a load, and of the requests of the context.
LEMMA FetchSet ==
  ASSUME NEW old \in ContextCalls, NEW busy \in BOOLEAN, NEW new, new = [old EXCEPT !.fetch = busy]
  PROVE  new \in ContextCalls /\ new.fetch = busy /\ new.create = old.create
BY Zenon DEF ContextCalls

LEMMA CreateSet ==
  ASSUME NEW old \in ContextCalls, NEW w \in Workspace \cup {None}, NEW new, new = [old EXCEPT !.create = w]
  PROVE  new \in ContextCalls /\ new.fetch = old.fetch /\ new.create = w
BY Zenon DEF ContextCalls

LEMMA UpdateSet ==
  ASSUME NEW old \in ContextCalls, NEW c \in Workspaces!Call \cup {None}, NEW new, new = [old EXCEPT !.update = c]
  PROVE  new \in ContextCalls /\ new.fetch = old.fetch /\ new.create = old.create
BY Zenon DEF ContextCalls

LEMMA DeleteSet ==
  ASSUME NEW old \in ContextCalls, NEW c \in Workspaces!Call \cup {None}, NEW new, new = [old EXCEPT !.delete = c]
  PROVE  new \in ContextCalls /\ new.fetch = old.fetch /\ new.create = old.create
BY Zenon DEF ContextCalls

LEMMA RunGoesOn ==
  ASSUME NEW r \in Workspaces!Run, NEW new, new = [r EXCEPT !.step = "rest"]
  PROVE  new \in Workspaces!Run /\ new.live = r.live
BY Zenon DEF Workspaces!Run

\* The page of a load is left: the load goes on, and is not live.
LEMMA RunIsClosed ==
  ASSUME NEW r \in Workspaces!Run, NEW new, new = [r EXCEPT !.live = FALSE]
  PROVE  new \in Workspaces!Run
BY Zenon DEF Workspaces!Run

LEMMA RunStarts ==
  ASSUME NEW p \in Workspaces!Page, NEW list
  PROVE  Workspaces!Load(p, list) \in Workspaces!Run /\ Workspaces!Load(p, list).live
<1>1. PICK known : known = (p.id \in Workspaces!Range(list))
  OBVIOUS
<1>2. known \in BOOLEAN
  BY <1>1
<1>3. Workspaces!Load(p, list) = [id |-> p.id, kind |-> p.kind, step |-> "workspace", live |-> TRUE, known |-> known]
  BY <1>1, Zenon DEF Workspaces!Load
<1>4. p.id \in Workspace /\ p.kind \in PageKind
  BY DEF Workspaces!Page
<1>5. QED
  BY <1>2, <1>3, <1>4 DEF Workspaces!Run

\* No load is what a free slot holds.
LEMMA ContextApart == None \notin Workspace /\ None \notin Workspaces!Call /\ None \notin Workspaces!Page /\ None \notin Workspaces!Run
BY ContextAssumption

LEMMA LoadStarts ==
  ASSUME NEW from \in ContextLoads, NEW p \in Workspaces!Page, NEW list, Workspaces!StartedLoad(from, p, list)
  PROVE  loads' \in ContextLoads /\ pageLoading' = TRUE /\ \E s \in Workspaces!Slot : loads'[s] # None /\ loads'[s].live
<1>1. PICK s \in Workspaces!Slot : loads' = [from EXCEPT ![s] = Workspaces!Load(p, list)] /\ pageLoading' = TRUE
  BY Zenon DEF Workspaces!StartedLoad
<1>2. PICK new : new = Workspaces!Load(p, list)
  OBVIOUS
<1>3. new \in Workspaces!Run /\ new.live /\ new # None
  BY <1>2, RunStarts, ContextApart
<1>4. loads' \in ContextLoads /\ loads'[s] = new
  BY <1>1, <1>2, <1>3 DEF ContextLoads
<1>5. QED
  BY <1>1, <1>3, <1>4

\* When the list changes, a page that is open loads anew.
LEMMA ListChanges ==
  ASSUME ContextPage, NEW from \in ContextLoads, NEW list, Workspaces!ListChanged(from, list), typed' \in BOOLEAN,
         pageLoading => \E s \in Workspaces!Slot : from[s] # None /\ from[s].live
  PROVE  ContextPage' /\ workspaces' = list
<1>1. workspaces' = list /\ page' = page
  BY DEF Workspaces!ListChanged
<1>2. CASE page = None
  BY <1>1, <1>2 DEF Workspaces!ListChanged, ContextPage
<1>3. CASE page # None
  <2>1. page \in Workspaces!Page /\ Workspaces!StartedLoad(from, page, list)
    BY <1>3, Zenon DEF Workspaces!ListChanged, ContextPage
  <2>2. loads' \in ContextLoads /\ pageLoading' = TRUE /\ \E s \in Workspaces!Slot : loads'[s] # None /\ loads'[s].live
    BY <2>1, LoadStarts
  <2>3. QED
    BY <1>1, <2>2 DEF ContextPage
<1>4. QED
  BY <1>2, <1>3

LEMMA ContextInit == Workspaces!Init => ContextInv
<1> SUFFICES ASSUME Workspaces!Init PROVE ContextInv
  OBVIOUS
<1>1. /\ server \in {{}, Workspaces!Range(SeedList)} /\ workspaces = <<>> /\ activeWorkspace = None /\ isLoading = TRUE
      /\ calls = [fetch |-> TRUE, create |-> None, update |-> None, delete |-> None]
      /\ page = None /\ pageLoading = FALSE /\ loads = [s \in Workspaces!Slot |-> None] /\ typed = FALSE
      /\ acts = 0 /\ raced = FALSE
  BY Zenon DEF Workspaces!Init
<1>2. Workspaces!Range(SeedList) \subseteq Workspace
  <2>1. Workspaces!Range(SeedList) = Range(SeedList)
    BY Zenon DEF Workspaces!Range, Range
  <2>2. QED
    BY <2>1, ContextAssumption
<1>3. ContextList
  <2>1. server \subseteq Workspace
    BY <1>1, <1>2
  <2>2. workspaces = <<>> /\ raced = FALSE /\ activeWorkspace = None
    BY <1>1
  <2>3. <<>> \in Seq(Workspace)
    OBVIOUS
  <2>4. workspaces \in Seq(Workspace)
    BY <2>2, <2>3
  <2>5. raced \in BOOLEAN
    BY <2>2
  <2>6. QED
    BY <2>1, <2>2, <2>4, <2>5, Zenon DEF ContextList
<1>4. ContextWork
  <2>1. calls \in ContextCalls /\ calls.fetch
    BY <1>1 DEF ContextCalls
  <2>2. acts \in 0 .. MaxActs
    BY <1>1, ContextAssumption
  <2>3. QED
    BY <1>1, <2>1, <2>2 DEF ContextWork
<1>5. ContextPage
  BY <1>1 DEF ContextPage, ContextLoads
<1>6. QED
  BY <1>3, <1>4, <1>5, ContextParts

LEMMA SeedListIs == SeedList \in Seq(Workspace) /\ Len(SeedList) = 2
<1>1. SeedList = <<"w1", "w2">>
  BY DEF SeedList
<1>2. "w1" \in Range(SeedList) /\ "w2" \in Range(SeedList)
  BY <1>1 DEF Range
<1>3. QED
  BY <1>1, <1>2, ContextAssumption

LEMMA Acts == ASSUME ContextWork, Workspaces!Act PROVE acts' \in 0 .. MaxActs
BY ContextAssumption DEF ContextWork, Workspaces!Act

\* Answers to a fetch of the list.
LEMMA ContextFetched ==
  ASSUME ContextInv, Workspaces!Fetched
  PROVE  ContextInv'
<1>1. PICK list : list = Workspaces!Listing(server)
  OBVIOUS
<1>2. /\ Workspaces!ListChanged(loads, list)
      /\ activeWorkspace' = IF server = {} \/ activeWorkspace \in server THEN activeWorkspace ELSE list[1]
      /\ raced' = (raced \/ (server = {} /\ activeWorkspace # None))
      /\ calls' = [calls EXCEPT !.fetch = FALSE] /\ isLoading' = FALSE
      /\ UNCHANGED <<server, typed, acts>>
  BY <1>1, Zenon DEF Workspaces!Fetched
<1>3. ContextList /\ ContextWork /\ ContextPage
  BY ContextParts
<1>4. ContextPage' /\ workspaces' = list
  <2>1. loads \in ContextLoads /\ typed' \in BOOLEAN
        /\ (pageLoading => \E s \in Workspaces!Slot : loads[s] # None /\ loads[s].live)
    BY <1>2, <1>3 DEF ContextPage
  <2>2. QED
    BY <1>2, <1>3, <2>1, ListChanges
<1>5. ContextWork'
  <2>1. calls' \in ContextCalls
    BY <1>2, <1>3, FetchSet DEF ContextWork
  <2>2. QED
    BY <1>2, <1>3, <2>1 DEF ContextWork
<1>6. /\ list \in Seq(server) /\ \A w \in server : \E i \in 1 .. Len(list) : list[i] = w
      /\ server # {} => Len(list) >= 1
  <2>1. IsFiniteSet(server)
    BY <1>3, ContextAssumption, FS_Subset DEF ContextList
  <2>2. QED
    BY <1>1, <2>1, ListingIs
<1>7. ContextList'
  <2>1. list \in Seq(Workspace)
    BY <1>3, <1>6, ListIn DEF ContextList
  <2>2. CASE server = {}
    BY <1>2, <1>3, <1>4, <2>1, <2>2 DEF ContextList
  <2>3. CASE server # {} /\ activeWorkspace \in server
    BY <1>2, <1>3, <1>4, <1>6, <2>1, <2>3 DEF ContextList
  <2>4. CASE server # {} /\ activeWorkspace \notin server
    <3>1. 1 \in 1 .. Len(list) /\ list[1] \in Workspace
      BY <1>6, <2>1, <2>4
    <3>2. activeWorkspace' = list[1] /\ raced' = raced
      BY <1>2, <1>3, <2>4 DEF ContextList
    <3>3. QED
      BY <1>2, <1>3, <1>4, <2>1, <3>1, <3>2 DEF ContextList
  <2>5. QED
    BY <2>2, <2>3, <2>4
<1>8. QED
  BY <1>4, <1>5, <1>7, ContextPartsAfter

\* An empty list becomes the seeded one, and its first workspace active when
\* none was.
LEMMA ContextFetchFailed ==
  ASSUME ContextInv, Workspaces!FetchFailed
  PROVE  ContextInv'
<1>1. /\ \/ Workspaces!ListChanged(loads, SeedList)
         \/ UNCHANGED <<workspaces, page, pageLoading, loads>>
      /\ activeWorkspace' = IF activeWorkspace = None THEN SeedList[1] ELSE activeWorkspace
      /\ raced' = (raced \/ activeWorkspace' \notin Workspaces!Range(workspaces'))
      /\ calls' = [calls EXCEPT !.fetch = FALSE] /\ isLoading' = FALSE
      /\ UNCHANGED <<server, typed, acts>>
  BY Zenon DEF Workspaces!FetchFailed
<1>2. ContextList /\ ContextWork /\ ContextPage
  BY ContextParts
<1>3. ContextPage' /\ workspaces' \in Seq(Workspace)
  <2>1. loads \in ContextLoads /\ typed' \in BOOLEAN
        /\ (pageLoading => \E s \in Workspaces!Slot : loads[s] # None /\ loads[s].live)
    BY <1>1, <1>2 DEF ContextPage
  <2>2. CASE Workspaces!ListChanged(loads, SeedList)
    BY <1>2, <2>1, <2>2, ListChanges, SeedListIs
  <2>3. CASE UNCHANGED <<workspaces, page, pageLoading, loads>>
    BY <1>1, <1>2, <2>3 DEF ContextPage, ContextList
  <2>4. QED
    BY <1>1, <2>2, <2>3
<1>4. ContextWork'
  <2>1. calls' \in ContextCalls
    BY <1>1, <1>2, FetchSet DEF ContextWork
  <2>2. QED
    BY <1>1, <1>2, <2>1 DEF ContextWork
<1>5. ContextList'
  <2>1. SeedList[1] \in Workspace
    BY SeedListIs
  <2>2. activeWorkspace' \in Workspace \cup {None}
    BY <1>1, <1>2, <2>1 DEF ContextList
  <2>3. raced' \in BOOLEAN
    BY <1>1, <1>2 DEF ContextList
  <2>4. raced' \/ \E i \in 1 .. Len(workspaces') : workspaces'[i] = activeWorkspace'
    <3>1. raced' \/ activeWorkspace' \in Workspaces!Range(workspaces')
      BY <1>1
    <3>2. activeWorkspace' \in Workspaces!Range(workspaces') => \E i \in 1 .. Len(workspaces') : workspaces'[i] = activeWorkspace'
      BY <1>3 DEF Workspaces!Range
    <3>3. QED
      BY <3>1, <3>2
  <2>5. QED
    BY <1>1, <1>2, <1>3, <2>2, <2>3, <2>4 DEF ContextList
<1>6. QED
  BY <1>3, <1>4, <1>5, ContextPartsAfter

\* The list is looked at, a workspace asked for, and the server does its part.
LEMMA ContextAsks ==
  ASSUME ContextInv,
         \/ Workspaces!FetchWorkspaces \/ Workspaces!ServerCreates \/ Workspaces!ServerDeletes
         \/ \E w \in Workspace : Workspaces!SelectWorkspace(w) \/ Workspaces!CreateWorkspace(w)
  PROVE  ContextInv'
<1>1. ContextList /\ ContextWork /\ ContextPage
  BY ContextParts
<1>2. ASSUME Workspaces!FetchWorkspaces PROVE ContextInv'
  <2>1. /\ Workspaces!Act /\ calls' = [calls EXCEPT !.fetch = TRUE] /\ isLoading' = TRUE
        /\ UNCHANGED <<server, workspaces, activeWorkspace, raced, page, pageLoading, loads, typed>>
    BY <1>2 DEF Workspaces!FetchWorkspaces, Workspaces!pageVars
  <2>2. calls' \in ContextCalls /\ calls'.fetch
    BY <1>1, <2>1, FetchSet DEF ContextWork
  <2>3. ContextWork'
    BY <1>1, <2>1, <2>2, Acts DEF ContextWork
  <2>4. ContextList' /\ ContextPage'
    BY <1>1, <2>1 DEF ContextList, ContextPage
  <2>5. QED
    BY <2>3, <2>4, ContextPartsAfter
<1>3. ASSUME Workspaces!ServerCreates \/ Workspaces!ServerDeletes PROVE ContextInv'
  <2>1. /\ \/ calls.create # None /\ server' = server \cup {calls.create}
           \/ server' = server \ {calls.delete.id}
        /\ UNCHANGED <<workspaces, activeWorkspace, isLoading, calls, page, pageLoading, loads, typed, acts, raced>>
    BY <1>3 DEF Workspaces!ServerCreates, Workspaces!ServerDeletes, Workspaces!pageVars, Workspaces!ctxVars
  <2>2. calls.create \in Workspace \cup {None}
    BY <1>1 DEF ContextWork, ContextCalls
  <2>3. server' \subseteq Workspace
    BY <1>1, <2>1, <2>2 DEF ContextList
  <2>4. ContextList' /\ ContextWork' /\ ContextPage'
    BY <1>1, <2>1, <2>3 DEF ContextList, ContextWork, ContextPage
  <2>5. QED
    BY <2>4, ContextPartsAfter
<1>4. ASSUME NEW w \in Workspace, Workspaces!SelectWorkspace(w) PROVE ContextInv'
  <2>1. /\ Workspaces!Act /\ w \in Workspaces!Listed /\ activeWorkspace' = w
        /\ UNCHANGED <<server, workspaces, isLoading, calls, page, pageLoading, loads, typed, raced>>
    BY <1>4 DEF Workspaces!SelectWorkspace, Workspaces!pageVars
  <2>2. \E i \in 1 .. Len(workspaces) : workspaces[i] = w
    BY <1>1, <2>1 DEF ContextList, Workspaces!Listed, Workspaces!Range
  <2>3. ContextList'
    BY <1>1, <2>1, <2>2 DEF ContextList
  <2>4. ContextWork' /\ ContextPage'
    BY <1>1, <2>1, Acts DEF ContextWork, ContextPage
  <2>5. QED
    BY <2>3, <2>4, ContextPartsAfter
<1>5. ASSUME NEW w \in Workspace, Workspaces!CreateWorkspace(w) PROVE ContextInv'
  <2>1. /\ Workspaces!Act /\ calls' = [calls EXCEPT !.create = w] /\ isLoading' = TRUE
        /\ UNCHANGED <<server, workspaces, activeWorkspace, page, pageLoading, loads, typed, raced>>
    BY <1>5 DEF Workspaces!CreateWorkspace, Workspaces!pageVars
  <2>2. calls' \in ContextCalls /\ calls'.create = w /\ w # None
    BY <1>1, <2>1, CreateSet, ContextApart DEF ContextWork
  <2>3. ContextWork'
    BY <1>1, <2>1, <2>2, Acts DEF ContextWork
  <2>4. ContextList' /\ ContextPage'
    BY <1>1, <2>1 DEF ContextList, ContextPage
  <2>5. QED
    BY <2>3, <2>4, ContextPartsAfter
<1>6. QED
  BY <1>2, <1>3, <1>4, <1>5

\* A workspace comes first in the list, and is active.
LEMMA ContextCreated ==
  ASSUME ContextInv, Workspaces!Created
  PROVE  ContextInv'
<1>1. PICK w : w = calls.create
  OBVIOUS
<1>2. /\ w # None /\ Workspaces!ListChanged(loads, <<w>> \o workspaces) /\ activeWorkspace' = w
      /\ calls' = [calls EXCEPT !.create = None] /\ isLoading' = FALSE
      /\ UNCHANGED <<server, typed, acts, raced>>
  BY <1>1, Zenon DEF Workspaces!Created
<1>3. ContextList /\ ContextWork /\ ContextPage
  BY ContextParts
<1>4. w \in Workspace
  BY <1>1, <1>2, <1>3 DEF ContextWork, ContextCalls
<1>5. ContextPage' /\ workspaces' = <<w>> \o workspaces
  <2>1. loads \in ContextLoads /\ typed' \in BOOLEAN
        /\ (pageLoading => \E s \in Workspaces!Slot : loads[s] # None /\ loads[s].live)
    BY <1>2, <1>3 DEF ContextPage
  <2>2. QED
    BY <1>2, <1>3, <2>1, ListChanges
<1>6. workspaces' \in Seq(Workspace) /\ 1 \in 1 .. Len(workspaces') /\ workspaces'[1] = w
  BY <1>3, <1>4, <1>5 DEF ContextList
<1>7. ContextList'
  BY <1>2, <1>3, <1>4, <1>6 DEF ContextList
<1>8. ContextWork'
  <2>1. calls' \in ContextCalls
    BY <1>2, <1>3, CreateSet DEF ContextWork
  <2>2. QED
    BY <1>2, <1>3, <2>1 DEF ContextWork
<1>9. QED
  BY <1>5, <1>7, <1>8, ContextPartsAfter

\* What the settings page asks for, with what is active at the click.
LEMMA ContextClicks ==
  ASSUME ContextInv, Workspaces!HandleSave \/ Workspaces!HandleDelete \/ Workspaces!EditForm
  PROVE  ContextInv'
<1>1. ContextList /\ ContextWork /\ ContextPage
  BY ContextParts
<1>2. /\ Workspaces!Act /\ Workspaces!OnSettings
      /\ UNCHANGED <<server, workspaces, activeWorkspace, isLoading, page, pageLoading, loads, raced>>
  BY DEF Workspaces!HandleSave, Workspaces!HandleDelete, Workspaces!EditForm, Workspaces!pageVars, Workspaces!ctxVars
<1>3. /\ typed' = typed \/ typed' = TRUE
      /\ \/ calls' = calls
         \/ calls' = [calls EXCEPT !.update = Workspaces!Closure]
         \/ calls' = [calls EXCEPT !.delete = Workspaces!Closure]
  <2>1. CASE Workspaces!HandleSave
    BY <2>1, Zenon DEF Workspaces!HandleSave, Workspaces!pageVars
  <2>2. CASE Workspaces!HandleDelete
    BY <2>2, Zenon DEF Workspaces!HandleDelete, Workspaces!pageVars
  <2>3. CASE Workspaces!EditForm
    BY <2>3, Zenon DEF Workspaces!EditForm
  <2>4. QED
    BY <2>1, <2>2, <2>3
<1>4. Workspaces!Closure \in Workspaces!Call
  <2>1. page.id \in Workspace
    BY <1>1, <1>2 DEF ContextPage, Workspaces!OnSettings, Workspaces!Page
  <2>2. PICK was : was = (activeWorkspace = page.id)
    OBVIOUS
  <2>3. was \in BOOLEAN
    BY <2>2
  <2>4. Workspaces!Closure = [id |-> page.id, wasActive |-> was]
    BY <2>2, Zenon DEF Workspaces!Closure
  <2>5. QED
    BY <2>1, <2>3, <2>4 DEF Workspaces!Call
<1>5. calls' \in ContextCalls /\ calls'.fetch = calls.fetch /\ calls'.create = calls.create
  BY <1>1, <1>3, <1>4, UpdateSet, DeleteSet DEF ContextWork
<1>6. ContextWork'
  BY <1>1, <1>2, <1>5, Acts DEF ContextWork
<1>7. ContextList' /\ ContextPage'
  BY <1>1, <1>2, <1>3 DEF ContextList, ContextPage
<1>8. QED
  BY <1>6, <1>7, ContextPartsAfter

LEMMA ContextUpdates ==
  ASSUME ContextInv, Workspaces!UpdateWorkspace
  PROVE  ContextInv'
<1>1. PICK c : c = calls.update
  OBVIOUS
<1>2. /\ c # None /\ Workspaces!ListChanged(loads, workspaces)
      /\ activeWorkspace' = activeWorkspace \/ (c.wasActive /\ activeWorkspace' = c.id)
      /\ raced' = (raced \/ Workspaces!Differs(c))
      /\ calls' = [calls EXCEPT !.update = None]
      /\ UNCHANGED <<server, isLoading, typed, acts>>
  BY <1>1, Zenon DEF Workspaces!UpdateWorkspace
<1>3. ContextList /\ ContextWork /\ ContextPage
  BY ContextParts
<1>4. c.id \in Workspace /\ c.wasActive \in BOOLEAN
  BY <1>1, <1>2, <1>3 DEF ContextWork, ContextCalls, Workspaces!Call
<1>5. ContextPage' /\ workspaces' = workspaces
  <2>1. loads \in ContextLoads /\ typed' \in BOOLEAN
        /\ (pageLoading => \E s \in Workspaces!Slot : loads[s] # None /\ loads[s].live)
    BY <1>2, <1>3 DEF ContextPage
  <2>2. QED
    BY <1>2, <1>3, <2>1, ListChanges
<1>6. ContextWork'
  <2>1. calls' \in ContextCalls /\ calls'.fetch = calls.fetch /\ calls'.create = calls.create
    BY <1>2, <1>3, UpdateSet DEF ContextWork
  <2>2. QED
    BY <1>2, <1>3, <2>1 DEF ContextWork
<1>7. raced' \in BOOLEAN /\ (~raced' => ~raced /\ (c.wasActive <=> activeWorkspace = c.id))
  BY <1>2, <1>3, <1>4 DEF ContextList, Workspaces!Differs
<1>8. ~raced' => activeWorkspace' = activeWorkspace
  BY <1>2, <1>7
<1>9. ContextList'
  BY <1>2, <1>3, <1>4, <1>5, <1>7, <1>8 DEF ContextList
<1>10. QED
  BY <1>5, <1>6, <1>9, ContextPartsAfter

LEMMA ContextCloses == ASSUME NEW from \in ContextLoads PROVE Workspaces!Closed(from) \in ContextLoads
<1>1. ASSUME NEW s \in Workspaces!Slot
      PROVE  (IF from[s] = None THEN None ELSE [from[s] EXCEPT !.live = FALSE]) \in Workspaces!Run \cup {None}
  <2>1. CASE from[s] = None
    BY <2>1
  <2>2. CASE from[s] # None
    <3>1. from[s] \in Workspaces!Run
      BY <2>2 DEF ContextLoads
    <3>2. [from[s] EXCEPT !.live = FALSE] \in Workspaces!Run
      BY <3>1, RunIsClosed
    <3>3. QED
      BY <2>2, <3>2
  <2>3. QED
    BY <2>1, <2>2
<1>2. QED
  BY <1>1 DEF Workspaces!Closed, ContextLoads

\* The list loses a row.  What was active at the click decides what is active,
\* which may by now be another: then requests have overlapped.
LEMMA ContextDeletes ==
  ASSUME ContextInv, Workspaces!DeleteWorkspace
  PROVE  ContextInv'
<1>1. PICK c : c = calls.delete
  OBVIOUS
<1>2. PICK keep : keep = {i \in DOMAIN workspaces : workspaces[i] # c.id}
  OBVIOUS
<1>3. PICK rest : rest = Kept(workspaces, keep)
  OBVIOUS
<1>4. rest = Workspaces!Without(c.id)
  BY <1>2, <1>3, Zenon DEF Workspaces!Without, Workspaces!Kept, Kept
<1>5. /\ c # None /\ workspaces' = rest
      /\ activeWorkspace' = IF ~c.wasActive THEN activeWorkspace ELSE IF rest = <<>> THEN None ELSE rest[1]
      /\ raced' = (raced \/ Workspaces!Differs(c))
      /\ page' = None /\ pageLoading' = FALSE /\ loads' = Workspaces!Closed(loads) /\ typed' = FALSE
      /\ calls' = [calls EXCEPT !.delete = None]
      /\ UNCHANGED <<server, isLoading, acts>>
  BY <1>1, <1>4, Zenon DEF Workspaces!DeleteWorkspace, Workspaces!Removed
<1>6. ContextList /\ ContextWork /\ ContextPage
  BY ContextParts
<1>7. c.id \in Workspace /\ c.wasActive \in BOOLEAN
  BY <1>1, <1>5, <1>6 DEF ContextWork, ContextCalls, Workspaces!Call
<1>8. ContextPage'
  BY <1>5, <1>6, ContextCloses DEF ContextPage
<1>9. ContextWork'
  <2>1. calls' \in ContextCalls /\ calls'.fetch = calls.fetch /\ calls'.create = calls.create
    BY <1>5, <1>6, DeleteSet DEF ContextWork
  <2>2. QED
    BY <1>5, <1>6, <2>1 DEF ContextWork
<1>10. raced' \in BOOLEAN /\ (~raced' => ~raced /\ (c.wasActive <=> activeWorkspace = c.id))
  BY <1>5, <1>6, <1>7 DEF ContextList, Workspaces!Differs
<1>11. rest \in Seq(Workspace) /\ PartOf(rest, workspaces, keep, Len(workspaces))
  BY <1>3, <1>6, KeptIsPart DEF ContextList
<1>12. \A i \in 1 .. Len(workspaces) : workspaces[i] # c.id => \E k \in 1 .. Len(rest) : rest[k] = workspaces[i]
  <2> SUFFICES ASSUME NEW i \in 1 .. Len(workspaces), workspaces[i] # c.id
               PROVE  \E k \in 1 .. Len(rest) : rest[k] = workspaces[i]
    OBVIOUS
  <2>1. DOMAIN workspaces = 1 .. Len(workspaces)
    BY <1>6 DEF ContextList
  <2>2. i \in keep
    BY <1>2, <2>1
  <2>3. QED
    BY <1>11, <2>2 DEF PartOf
<1>13. CASE c.wasActive /\ rest # <<>>
  <2>1. 1 \in 1 .. Len(rest) /\ rest[1] \in Workspace
    BY <1>11, <1>13
  <2>2. ContextList'
    BY <1>5, <1>6, <1>10, <1>11, <1>13, <2>1 DEF ContextList
  <2>3. QED
    BY <1>8, <1>9, <2>2, ContextPartsAfter
<1>14. CASE c.wasActive /\ rest = <<>>
  <2>1. ContextList'
    BY <1>5, <1>6, <1>10, <1>11, <1>14 DEF ContextList
  <2>2. QED
    BY <1>8, <1>9, <2>1, ContextPartsAfter
<1>15. CASE ~c.wasActive
  <2>1. activeWorkspace' = activeWorkspace
    BY <1>5, <1>15
  <2>2. ~raced' => activeWorkspace # c.id
    BY <1>10, <1>15
  <2>3. raced' \/ activeWorkspace = None \/ \E k \in 1 .. Len(rest) : rest[k] = activeWorkspace
    BY <1>6, <1>10, <1>12, <2>2 DEF ContextList
  <2>4. ContextList'
    BY <1>5, <1>6, <1>10, <1>11, <2>1, <2>3 DEF ContextList
  <2>5. QED
    BY <1>8, <1>9, <2>4, ContextPartsAfter
<1>16. QED
  BY <1>7, <1>13, <1>14, <1>15

LEMMA ContextOpens ==
  ASSUME ContextInv, NEW w \in Workspace, NEW kind \in PageKind, Workspaces!OpenPage(kind, w)
  PROVE  ContextInv'
<1>1. /\ Workspaces!Act /\ page' = [kind |-> kind, id |-> w] /\ typed' = FALSE
      /\ Workspaces!StartedLoad(Workspaces!Closed(loads), page', workspaces)
      /\ UNCHANGED <<server, workspaces, activeWorkspace, isLoading, calls, raced>>
  BY Zenon DEF Workspaces!OpenPage, Workspaces!ctxVars
<1>2. ContextList /\ ContextWork /\ ContextPage
  BY ContextParts
<1>3. page' \in Workspaces!Page
  BY <1>1 DEF Workspaces!Page
<1>4. PICK from : from = Workspaces!Closed(loads)
  OBVIOUS
<1>5. from \in ContextLoads /\ Workspaces!StartedLoad(from, page', workspaces)
  BY <1>1, <1>2, <1>4, ContextCloses DEF ContextPage
<1>6. loads' \in ContextLoads /\ pageLoading' = TRUE /\ \E s \in Workspaces!Slot : loads'[s] # None /\ loads'[s].live
  BY <1>3, <1>5, LoadStarts
<1>7. ContextPage'
  BY <1>1, <1>3, <1>6 DEF ContextPage
<1>8. ContextList' /\ ContextWork'
  BY <1>1, <1>2, Acts DEF ContextList, ContextWork
<1>9. QED
  BY <1>7, <1>8, ContextPartsAfter

\* A load goes on, or is over.
LEMMA LoadGoesOn ==
  ASSUME ContextPage, NEW s \in Workspaces!Slot, loads[s] # None,
         NEW from, from = [loads EXCEPT ![s].step = "rest"]
  PROVE  from \in ContextLoads /\ (pageLoading => \E t \in Workspaces!Slot : from[t] # None /\ from[t].live)
<1>1. loads \in ContextLoads /\ loads[s] \in Workspaces!Run
  BY DEF ContextPage, ContextLoads
<1>2. PICK new : new = [loads[s] EXCEPT !.step = "rest"]
  OBVIOUS
<1>3. new \in Workspaces!Run /\ new.live = loads[s].live /\ new # None
  BY <1>1, <1>2, RunGoesOn, ContextApart
<1>4. from = [loads EXCEPT ![s] = new]
  BY <1>1, <1>2 DEF ContextLoads
<1>5. from \in ContextLoads /\ from[s] = new /\ \A t \in Workspaces!Slot : t # s => from[t] = loads[t]
  BY <1>1, <1>3, <1>4 DEF ContextLoads
<1>6. QED
  BY <1>3, <1>5 DEF ContextPage

LEMMA LoadEnds ==
  ASSUME ContextPage, NEW s \in Workspaces!Slot, loads[s] # None, NEW overwrites,
         Workspaces!LoadOver(s, loads, overwrites), page' = page
  PROVE  ContextPage'
<1>1. /\ loads' = [loads EXCEPT ![s] = None]
      /\ pageLoading' = IF loads[s].live THEN FALSE ELSE pageLoading
      /\ typed' = IF loads[s].live /\ overwrites THEN FALSE ELSE typed
  BY Zenon DEF Workspaces!LoadOver
<1>2. loads' \in ContextLoads /\ \A t \in Workspaces!Slot : t # s => loads'[t] = loads[t]
  BY <1>1 DEF ContextPage, ContextLoads
<1>3. pageLoading' \in BOOLEAN /\ typed' \in BOOLEAN /\ (pageLoading' => pageLoading /\ ~loads[s].live)
  BY <1>1 DEF ContextPage
<1>4. QED
  BY <1>2, <1>3 DEF ContextPage

LEMMA ContextGets ==
  ASSUME ContextInv, NEW s \in Workspaces!Slot, Workspaces!GotWorkspace(s)
  PROVE  ContextInv'
<1>1. PICK w : w = loads[s].id
  OBVIOUS
<1>2. PICK list : list = IF w \in Workspaces!Listed THEN workspaces ELSE Append(workspaces, w)
  OBVIOUS
<1>3. PICK from : from = [loads EXCEPT ![s].step = "rest"]
  OBVIOUS
<1>4. /\ loads[s] # None /\ w \in server /\ Workspaces!ListChanged(from, list)
      /\ activeWorkspace' = w \/ activeWorkspace' = activeWorkspace
      /\ UNCHANGED <<server, isLoading, calls, typed, acts, raced>>
  BY <1>1, <1>2, <1>3, Zenon DEF Workspaces!GotWorkspace
<1>5. ContextList /\ ContextWork /\ ContextPage
  BY ContextParts
<1>6. from \in ContextLoads /\ (pageLoading => \E t \in Workspaces!Slot : from[t] # None /\ from[t].live)
  BY <1>3, <1>4, <1>5, LoadGoesOn
<1>7. ContextPage' /\ workspaces' = list
  <2>1. typed' \in BOOLEAN
    BY <1>4, <1>5 DEF ContextPage
  <2>2. QED
    BY <1>4, <1>5, <1>6, <2>1, ListChanges
<1>8. w \in Workspace
  BY <1>4, <1>5 DEF ContextList
<1>9. /\ list \in Seq(Workspace) /\ \E i \in 1 .. Len(list) : list[i] = w
      /\ \A i \in 1 .. Len(workspaces) : \E k \in 1 .. Len(list) : list[k] = workspaces[i]
  <2>1. CASE w \in Workspaces!Listed
    BY <1>2, <1>5, <2>1 DEF ContextList, Workspaces!Listed, Workspaces!Range
  <2>2. CASE w \notin Workspaces!Listed
    <3>1. PICK n : n = Len(workspaces)
      OBVIOUS
    <3>2. /\ list \in Seq(Workspace) /\ Len(list) = n + 1 /\ list[n + 1] = w /\ n \in Nat
          /\ \A i \in 1 .. n : list[i] = workspaces[i]
      BY <1>2, <1>5, <1>8, <2>2, <3>1 DEF ContextList
    <3>3. QED
      BY <3>1, <3>2
  <2>3. QED
    BY <2>1, <2>2
<1>10. ContextList'
  BY <1>4, <1>5, <1>7, <1>8, <1>9 DEF ContextList
<1>11. ContextWork'
  BY <1>4, <1>5 DEF ContextWork
<1>12. QED
  BY <1>7, <1>10, <1>11, ContextPartsAfter

LEMMA ContextGetsLocal ==
  ASSUME ContextInv, NEW s \in Workspaces!Slot, Workspaces!GotLocal(s)
  PROVE  ContextInv'
<1>1. PICK w : w = loads[s].id
  OBVIOUS
<1>2. /\ loads[s] # None
      /\ \/ /\ loads' = [loads EXCEPT ![s].step = "rest"] /\ UNCHANGED <<pageLoading, typed>>
            /\ activeWorkspace' = activeWorkspace \/ (w \in Workspaces!Listed /\ activeWorkspace' = w)
         \/ Workspaces!LoadOver(s, loads, FALSE) /\ activeWorkspace' = activeWorkspace
      /\ UNCHANGED <<server, workspaces, isLoading, calls, page, acts, raced>>
  BY <1>1, Zenon DEF Workspaces!GotLocal
<1>3. ContextList /\ ContextWork /\ ContextPage
  BY ContextParts
<1>4. ContextWork'
  BY <1>2, <1>3 DEF ContextWork
<1>5. w \in Workspaces!Listed => w \in Workspace /\ \E i \in 1 .. Len(workspaces) : workspaces[i] = w
  BY <1>3 DEF ContextList, Workspaces!Listed, Workspaces!Range
<1>6. ContextList'
  BY <1>2, <1>3, <1>5 DEF ContextList
<1>7. ContextPage'
  <2>1. CASE Workspaces!LoadOver(s, loads, FALSE)
    BY <1>2, <1>3, <2>1, LoadEnds
  <2>2. CASE loads' = [loads EXCEPT ![s].step = "rest"] /\ UNCHANGED <<pageLoading, typed>>
    <3>1. loads' \in ContextLoads /\ (pageLoading => \E t \in Workspaces!Slot : loads'[t] # None /\ loads'[t].live)
      BY <1>2, <1>3, <2>2, LoadGoesOn
    <3>2. QED
      BY <1>2, <1>3, <2>2, <3>1 DEF ContextPage
  <2>3. QED
    BY <1>2, <2>1, <2>2
<1>8. QED
  BY <1>4, <1>6, <1>7, ContextPartsAfter

LEMMA ContextRests ==
  ASSUME ContextInv, NEW s \in Workspaces!Slot, Workspaces!LoadRest(s)
  PROVE  ContextInv'
<1>1. /\ loads[s] # None /\ Workspaces!LoadOver(s, loads, loads[s].kind = "settings")
      /\ UNCHANGED <<server, workspaces, activeWorkspace, isLoading, calls, page, acts, raced>>
  BY Zenon DEF Workspaces!LoadRest, Workspaces!ctxVars
<1>2. ContextList /\ ContextWork /\ ContextPage
  BY ContextParts
<1>3. ContextPage'
  BY <1>1, <1>2, LoadEnds
<1>4. ContextList' /\ ContextWork'
  BY <1>1, <1>2 DEF ContextList, ContextWork
<1>5. QED
  BY <1>3, <1>4, ContextPartsAfter

LEMMA ContextStep == ContextInv /\ Workspaces!Next => ContextInv'
BY ContextFetched, ContextFetchFailed, ContextAsks, ContextCreated, ContextClicks, ContextUpdates,
   ContextDeletes, ContextOpens, ContextGets, ContextGetsLocal, ContextRests DEF Workspaces!Next

LEMMA ContextKept == ContextInv /\ UNCHANGED workspacesVars => ContextInv'
<1> SUFFICES ASSUME ContextInv, UNCHANGED workspacesVars PROVE ContextInv'
  OBVIOUS
<1>1. UNCHANGED <<server, workspaces, activeWorkspace, isLoading, calls, page, pageLoading, loads, typed, acts, raced>>
  BY DEF workspacesVars
<1>2. ContextList' /\ ContextWork' /\ ContextPage'
  BY <1>1, ContextParts DEF ContextList, ContextWork, ContextPage
<1>3. QED
  BY <1>2, ContextPartsAfter
-----------------------------------------------------------------------------
(***************************************************************************)
(* The members of a workspace                                              *)
(***************************************************************************)
\* The requests of the page: a load carries its lists only when answered.
TeamRole == Role \cup {None}
TeamCall ==
  [n : Nat, kind : {"load"}, state : {"sent", "refused"}]
    \cup [n : Nat, kind : {"load"}, state : {"done"}, team : [Member -> TeamRole], invited : SUBSET Email]
    \cup [n : Nat, kind : {"change"}, member : Member, role : TeamRole, state : {"sent", "done", "refused"}]
    \cup [n : Nat, kind : {"invite"}, email : Email, state : {"sent", "done", "refused"}]
\* While no two requests are of the same rows: an answer to a load is what the
\* server has, a change is of a row that is shown, and a row that is not what
\* the server has is about to be.
TeamApart ==
  /\ \A c, d \in teamCalls : c # d => ~Team!Contradict(c, d)
  /\ \A c \in teamCalls :
       /\ c.kind = "load" /\ c.state = "done" => c.team = roleOf /\ c.invited = invitedTo
       /\ c.kind = "change" => members[c.member] # None /\ (c.state = "done" => roleOf[c.member] = c.role)
  /\ ~teamDemo /\ (\A c \in teamCalls : c.kind # "load") =>
       /\ \A m \in Member : \/ members[m] = roleOf[m]
                            \/ \E c \in teamCalls : c.kind = "change" /\ c.state = "done" /\ c.member = m
       /\ \A e \in Email : e \in invitedTo <=>
            e \in invitations \/ \E c \in teamCalls : c.kind = "invite" /\ c.state = "done" /\ c.email = e
\* The promises of the page, with what holds while no requests overlap.
TeamInv ==
  /\ Team!TypeOK /\ Team!NothingHangs /\ teamCalls \subseteq TeamCall
  /\ \A c, d \in teamCalls : c.kind = "invite" /\ d.kind = "invite" => c = d
  /\ ~teamOverlapped => TeamApart
\* The parts of the invariant: the page, what is under way, and what is known
\* of both while no two requests are of the same rows.
TeamState ==
  /\ roleOf \in [Member -> TeamRole] /\ members \in [Member -> TeamRole]
  /\ invitedTo \subseteq Email /\ invitations \subseteq Email
  /\ teamLoading \in BOOLEAN /\ isInviting \in BOOLEAN /\ teamDemo \in BOOLEAN /\ teamOverlapped \in BOOLEAN
  /\ teamSent \in 0 .. MaxCalls
TeamWork ==
  /\ teamCalls \subseteq TeamCall
  /\ teamLoading => \E c \in teamCalls : c.kind = "load"
  /\ isInviting <=> \E c \in teamCalls : c.kind = "invite"
  /\ \A c, d \in teamCalls : c.kind = "invite" /\ d.kind = "invite" => c = d
TeamNoTwo == \A c, d \in teamCalls : c # d => ~Team!Contradict(c, d)
TeamAnswers ==
  \A c \in teamCalls :
    /\ c.kind = "load" /\ c.state = "done" => c.team = roleOf /\ c.invited = invitedTo
    /\ c.kind = "change" => members[c.member] # None /\ (c.state = "done" => roleOf[c.member] = c.role)
TeamShown ==
  ~teamDemo /\ (\A c \in teamCalls : c.kind # "load") =>
    /\ \A m \in Member : \/ members[m] = roleOf[m]
                         \/ \E c \in teamCalls : c.kind = "change" /\ c.state = "done" /\ c.member = m
    /\ \A e \in Email : e \in invitedTo <=>
         e \in invitations \/ \E c \in teamCalls : c.kind = "invite" /\ c.state = "done" /\ c.email = e

\* The fields of a request.
LEMMA TeamCallFacts ==
  ASSUME NEW c \in TeamCall
  PROVE  /\ c.kind \in {"load", "change", "invite"} /\ c.state \in {"sent", "done", "refused"}
         /\ c.kind = "load" /\ c.state = "done" => c.team \in [Member -> TeamRole] /\ c.invited \subseteq Email
         /\ c.kind = "change" => c.member \in Member /\ c.role \in TeamRole
         /\ c.kind = "invite" => c.email \in Email
<1>1. CASE c \in [n : Nat, kind : {"load"}, state : {"sent", "refused"}]
  BY <1>1
<1>2. CASE c \in [n : Nat, kind : {"load"}, state : {"done"}, team : [Member -> TeamRole], invited : SUBSET Email]
  BY <1>2
<1>3. CASE c \in [n : Nat, kind : {"change"}, member : Member, role : TeamRole, state : {"sent", "done", "refused"}]
  BY <1>3
<1>4. CASE c \in [n : Nat, kind : {"invite"}, email : Email, state : {"sent", "done", "refused"}]
  BY <1>4
<1>5. QED
  BY <1>1, <1>2, <1>3, <1>4 DEF TeamCall

\* A request whose answer is on its way.
LEMMA TeamCallChanges ==
  ASSUME NEW c \in TeamCall, NEW state \in {"done", "refused"}, NEW new, new = [c EXCEPT !.state = state],
         c.kind # "load" \/ (c.state = "sent" /\ state = "refused")
  PROVE  /\ new \in TeamCall /\ new.kind = c.kind /\ new.state = state
         /\ c.kind = "change" => new.member = c.member /\ new.role = c.role
         /\ c.kind = "invite" => new.email = c.email
<1>1. CASE c \in [n : Nat, kind : {"load"}, state : {"sent", "refused"}]
  <2>1. c.kind = "load" /\ state = "refused"
    BY <1>1
  <2>2. QED
    BY <1>1, <2>1 DEF TeamCall
<1>2. CASE c \in [n : Nat, kind : {"load"}, state : {"done"}, team : [Member -> TeamRole], invited : SUBSET Email]
  BY <1>2
<1>3. CASE c \in [n : Nat, kind : {"change"}, member : Member, role : TeamRole, state : {"sent", "done", "refused"}]
  BY <1>3 DEF TeamCall
<1>4. CASE c \in [n : Nat, kind : {"invite"}, email : Email, state : {"sent", "done", "refused"}]
  BY <1>4 DEF TeamCall
<1>5. QED
  BY <1>1, <1>2, <1>3, <1>4 DEF TeamCall

\* The invariant in five parts: types, spinners, and what holds while no
\* requests overlap.
LEMMA TeamParts ==
  TeamInv <=> TeamState /\ TeamWork /\ (~teamOverlapped => TeamNoTwo /\ TeamAnswers /\ TeamShown)
<1>1. teamCalls \subseteq TeamCall =>
        \A c \in teamCalls : c.kind \in {"load", "change", "invite"} /\ c.state \in {"sent", "done", "refused"}
  BY TeamCallFacts
<1>2. TeamApart <=> TeamNoTwo /\ TeamAnswers /\ TeamShown
  BY Zenon DEF TeamApart, TeamNoTwo, TeamAnswers, TeamShown
<1>3. QED
  BY <1>1, <1>2 DEF TeamInv, TeamState, TeamWork, TeamRole, Team!TypeOK, Team!NothingHangs

LEMMA TeamPartsAfter ==
  ASSUME TeamState', TeamWork', ~teamOverlapped' => TeamNoTwo' /\ TeamAnswers' /\ TeamShown'
  PROVE  TeamInv'
<1>1. \A c \in teamCalls' : c.kind \in {"load", "change", "invite"} /\ c.state \in {"sent", "done", "refused"}
  BY TeamCallFacts DEF TeamWork
<1>2. ~teamOverlapped' => TeamApart'
  BY Zenon DEF TeamApart, TeamNoTwo, TeamAnswers, TeamShown
<1>3. QED
  BY <1>1, <1>2 DEF TeamInv, TeamState, TeamWork, TeamRole, Team!TypeOK, Team!NothingHangs

LEMMA TeamInit == Team!Init => TeamInv
<1> SUFFICES ASSUME Team!Init PROVE TeamInv
  OBVIOUS
<1>1. PICK first : first = [n |-> 1, kind |-> "load", state |-> "sent"]
  OBVIOUS
<1>2. /\ roleOf \in {t \in [Member -> {"ADMIN", None}] : t[Me] = "ADMIN"} /\ invitedTo = {}
      /\ members = [m \in Member |-> None] /\ invitations = {} /\ teamLoading = TRUE /\ isInviting = FALSE
      /\ teamCalls = {first} /\ teamSent = 1 /\ teamDemo = FALSE /\ teamOverlapped = FALSE
  BY <1>1, Zenon DEF Team!Init, Team!Nobody
<1>3. first \in TeamCall /\ first.kind = "load" /\ first.state = "sent"
  BY <1>1 DEF TeamCall
<1>4. TeamState
  <2>1. teamSent \in 0 .. MaxCalls
    BY <1>2, RepositoriesAssumption
  <2>2. roleOf \in [Member -> TeamRole] /\ members \in [Member -> TeamRole]
    BY <1>2, TeamAssumption DEF TeamRole
  <2>3. QED
    BY <1>2, <2>1, <2>2 DEF TeamState
<1>5. TeamWork
  BY <1>2, <1>3 DEF TeamWork
<1>6. TeamNoTwo /\ TeamAnswers /\ TeamShown
  BY <1>2, <1>3 DEF TeamNoTwo, TeamAnswers, TeamShown
<1>7. QED
  BY <1>4, <1>5, <1>6, TeamParts

\* Another request is sent.
LEMMA TeamSends ==
  ASSUME TeamInv, NEW new \in TeamCall, Team!SendCall(new), new.state = "sent",
         UNCHANGED <<roleOf, invitedTo, members, invitations, teamDemo>>,
         new.kind = "change" => members[new.member] # None,
         teamLoading' = teamLoading \/ (new.kind = "load" /\ teamLoading' = TRUE),
         \/ new.kind # "invite" /\ isInviting' = isInviting
         \/ new.kind = "invite" /\ isInviting = FALSE /\ isInviting' = TRUE
  PROVE  TeamInv'
<1>1. /\ teamSent < MaxCalls /\ teamSent' = teamSent + 1 /\ teamCalls' = teamCalls \cup {new}
      /\ teamOverlapped' = (teamOverlapped \/ \E c \in teamCalls : Team!Contradict(c, new))
  BY Zenon DEF Team!SendCall
<1>2. TeamState /\ TeamWork /\ (~teamOverlapped => TeamNoTwo /\ TeamAnswers /\ TeamShown) /\ MaxCalls \in Nat
  BY TeamParts, RepositoriesAssumption
<1>3. TeamState'
  <2>1. teamOverlapped' \in BOOLEAN
    BY <1>1, <1>2 DEF TeamState
  <2>2. teamLoading' \in BOOLEAN /\ isInviting' \in BOOLEAN
    BY <1>2 DEF TeamState
  <2>3. teamSent' \in 0 .. MaxCalls
    BY <1>1, <1>2 DEF TeamState
  <2>4. QED
    BY <1>2, <2>1, <2>2, <2>3 DEF TeamState
<1>4. TeamWork'
  BY <1>1, <1>2 DEF TeamWork
<1>5. ~teamOverlapped' => TeamNoTwo' /\ TeamAnswers' /\ TeamShown'
  <2> SUFFICES ASSUME ~teamOverlapped' PROVE TeamNoTwo' /\ TeamAnswers' /\ TeamShown'
    OBVIOUS
  <2>1. TeamNoTwo /\ TeamAnswers /\ TeamShown /\ \A c \in teamCalls : ~Team!Contradict(c, new)
    BY <1>1, <1>2
  <2>2. TeamNoTwo'
    BY <1>1, <2>1 DEF TeamNoTwo, Team!Contradict
  <2>3. TeamAnswers'
    BY <1>1, <2>1 DEF TeamAnswers
  <2>4. TeamShown'
    BY <1>1, <2>1 DEF TeamShown
  <2>5. QED
    BY <2>2, <2>3, <2>4
<1>6. QED
  BY <1>3, <1>4, <1>5, TeamPartsAfter

\* A request comes to another state, and remains of the same rows.
LEMMA TeamGoesOn ==
  ASSUME TeamInv, NEW c \in teamCalls, NEW new \in TeamCall, new.kind = c.kind,
         c.kind = "change" => new.member = c.member,
         teamCalls' = (teamCalls \ {c}) \cup {new}, UNCHANGED <<teamLoading, isInviting>>
  PROVE  TeamWork' /\ (TeamNoTwo => TeamNoTwo')
<1>1. TeamWork
  BY TeamParts
<1>2. \A p : (\E d \in teamCalls : d.kind = p) <=> \E d \in teamCalls' : d.kind = p
  OBVIOUS
<1>3. \A d, e \in teamCalls' : d.kind = "invite" /\ e.kind = "invite" => d = e
  BY <1>1 DEF TeamWork
<1>4. TeamWork'
  BY <1>1, <1>2, <1>3 DEF TeamWork
<1>5. ASSUME TeamNoTwo PROVE TeamNoTwo'
  BY <1>5 DEF TeamNoTwo, Team!Contradict
<1>6. QED
  BY <1>4, <1>5

\* A load is answered by the server with what it has.
LEMMA TeamReads ==
  ASSUME TeamInv, NEW c \in teamCalls, Team!Handle(c), c.kind = "load"
  PROVE  TeamInv'
<1>1. PICK new : new = [n |-> c.n, kind |-> "load", state |-> "done", team |-> roleOf, invited |-> invitedTo]
  OBVIOUS
<1>2. /\ teamCalls' = (teamCalls \ {c}) \cup {new}
      /\ UNCHANGED <<roleOf, invitedTo, members, invitations, teamLoading, isInviting, teamSent, teamDemo,
                     teamOverlapped>>
  BY <1>1 DEF Team!Handle, Team!Becomes, Team!pageVars, Team!serverVars
<1>3. TeamState /\ TeamWork /\ (~teamOverlapped => TeamNoTwo /\ TeamAnswers /\ TeamShown)
  BY TeamParts
<1>4. /\ new \in TeamCall /\ new.kind = "load" /\ new.state = "done"
      /\ new.team = roleOf /\ new.invited = invitedTo
  <2>1. c.n \in Nat
    BY <1>3 DEF TeamWork, TeamCall
  <2>2. roleOf \in [Member -> TeamRole] /\ invitedTo \in SUBSET Email
    BY <1>3 DEF TeamState
  <2>3. QED
    BY <1>1, <2>1, <2>2 DEF TeamCall
<1>5. TeamWork' /\ (TeamNoTwo => TeamNoTwo')
  BY <1>2, <1>4, TeamGoesOn
<1>6. TeamState'
  BY <1>2, <1>3 DEF TeamState
<1>7. TeamAnswers => TeamAnswers'
  BY <1>2, <1>4 DEF TeamAnswers
<1>8. TeamShown'
  BY <1>2, <1>4 DEF TeamShown
<1>9. QED
  BY <1>2, <1>3, <1>5, <1>6, <1>7, <1>8, TeamPartsAfter

\* The server changes a row: the answer on its way makes up for it.
LEMMA TeamWrites ==
  ASSUME TeamInv, NEW c \in teamCalls, Team!Handle(c), c.kind # "load"
  PROVE  TeamInv'
<1>1. PICK new : new = [c EXCEPT !.state = "done"]
  OBVIOUS
<1>2. /\ teamCalls' = (teamCalls \ {c}) \cup {new} /\ c.state = "sent"
      /\ \/ /\ c.kind = "change" /\ roleOf' = [roleOf EXCEPT ![c.member] = c.role] /\ invitedTo' = invitedTo
         \/ c.kind = "invite" /\ invitedTo' = invitedTo \cup {c.email} /\ roleOf' = roleOf
      /\ UNCHANGED <<members, invitations, teamLoading, isInviting, teamSent, teamDemo, teamOverlapped>>
  BY <1>1 DEF Team!Handle, Team!Becomes, Team!pageVars, Team!serverVars
<1>3. TeamState /\ TeamWork /\ (~teamOverlapped => TeamNoTwo /\ TeamAnswers /\ TeamShown)
  BY TeamParts
<1>4. c \in TeamCall
  BY <1>3 DEF TeamWork
<1>5. /\ new \in TeamCall /\ new.kind = c.kind /\ new.state = "done"
      /\ c.kind = "change" => new.member = c.member /\ new.role = c.role
      /\ c.kind = "invite" => new.email = c.email
  BY <1>1, <1>4, TeamCallChanges
<1>6. TeamWork' /\ (TeamNoTwo => TeamNoTwo')
  BY <1>2, <1>5, TeamGoesOn
<1>7. /\ c.kind = "change" => c.member \in Member /\ c.role \in TeamRole
      /\ c.kind = "invite" => c.email \in Email
  BY <1>4, TeamCallFacts
<1>8. TeamState'
  <2>1. roleOf' \in [Member -> TeamRole] /\ invitedTo' \subseteq Email
    BY <1>2, <1>3, <1>7 DEF TeamState
  <2>2. QED
    BY <1>2, <1>3, <2>1 DEF TeamState
<1>9. ASSUME ~teamOverlapped' PROVE TeamAnswers' /\ TeamShown'
  <2>1. TeamNoTwo /\ TeamAnswers /\ TeamShown
    BY <1>2, <1>3, <1>9
  <2>2. \A d \in teamCalls : d # c => d.kind # "load" /\ (c.kind = "change" /\ d.kind = "change" => d.member # c.member)
    BY <2>1 DEF TeamNoTwo, Team!Contradict
  <2>3. /\ \A m \in Member : ~(c.kind = "change" /\ m = c.member) => roleOf'[m] = roleOf[m]
        /\ c.kind = "change" => roleOf'[c.member] = c.role
    BY <1>2, <1>3, <1>7 DEF TeamState
  <2>4. TeamAnswers'
    <3> SUFFICES ASSUME NEW d \in teamCalls'
                 PROVE  /\ d.kind # "load"
                        /\ d.kind = "change" => members[d.member] # None /\ (d.state = "done" => roleOf'[d.member] = d.role)
      BY <1>2 DEF TeamAnswers
    <3>1. CASE d = new
      BY <1>2, <1>5, <2>1, <2>3, <3>1 DEF TeamAnswers
    <3>2. CASE d # new
      <4>1. d \in teamCalls /\ d # c
        BY <1>2, <3>2
      <4>2. d.kind = "change" => d.member \in Member /\ ~(c.kind = "change" /\ d.member = c.member)
        BY <1>3, <2>2, <4>1, TeamCallFacts DEF TeamWork
      <4>3. QED
        BY <2>1, <2>2, <2>3, <4>1, <4>2 DEF TeamAnswers
    <3>3. QED
      BY <3>1, <3>2
  <2>5. ASSUME ~teamDemo PROVE TeamShown'
    <3>1. /\ \A m \in Member : \/ members[m] = roleOf[m]
                               \/ \E d \in teamCalls : d.kind = "change" /\ d.state = "done" /\ d.member = m
          /\ \A e \in Email : e \in invitedTo <=>
               e \in invitations \/ \E d \in teamCalls : d.kind = "invite" /\ d.state = "done" /\ d.email = e
      BY <2>1, <2>2, <2>5 DEF TeamShown
    <3>2. ASSUME NEW m \in Member
          PROVE  members[m] = roleOf'[m] \/ \E d \in teamCalls' : d.kind = "change" /\ d.state = "done" /\ d.member = m
      <4>1. CASE c.kind = "change" /\ m = c.member
        BY <1>2, <1>5, <4>1
      <4>2. CASE ~(c.kind = "change" /\ m = c.member)
        <5>1. (\E d \in teamCalls : d.kind = "change" /\ d.state = "done" /\ d.member = m) =>
                \E d \in teamCalls' : d.kind = "change" /\ d.state = "done" /\ d.member = m
          BY <1>2
        <5>2. QED
          BY <2>3, <3>1, <4>2, <5>1
      <4>3. QED
        BY <4>1, <4>2
    <3>3. ASSUME NEW e \in Email
          PROVE  e \in invitedTo' <=>
                   e \in invitations \/ \E d \in teamCalls' : d.kind = "invite" /\ d.state = "done" /\ d.email = e
      <4>1. (\E d \in teamCalls' : d.kind = "invite" /\ d.state = "done" /\ d.email = e) <=>
              \/ c.kind = "invite" /\ c.email = e
              \/ \E d \in teamCalls : d.kind = "invite" /\ d.state = "done" /\ d.email = e
        BY <1>2, <1>5
      <4>2. e \in invitedTo' <=> e \in invitedTo \/ (c.kind = "invite" /\ c.email = e)
        BY <1>2
      <4>3. QED
        BY <3>1, <4>1, <4>2
    <3>4. QED
      BY <1>2, <3>2, <3>3 DEF TeamShown
  <2>6. teamDemo => TeamShown'
    BY <1>2 DEF TeamShown
  <2>7. QED
    BY <2>4, <2>5, <2>6
<1>10. QED
  BY <1>2, <1>3, <1>6, <1>8, <1>9, TeamPartsAfter

\* A request is refused, or its answer lost.
LEMMA TeamRefuses ==
  ASSUME TeamInv, NEW c \in teamCalls, Team!Refuse(c) \/ Team!LoseAnswer(c)
  PROVE  TeamInv'
<1>1. PICK new : new = [c EXCEPT !.state = "refused"]
  OBVIOUS
<1>2. /\ teamCalls' = (teamCalls \ {c}) \cup {new}
      /\ \/ c.state = "sent" /\ teamDemo' = teamDemo
         \/ c.kind # "load" /\ teamDemo' = TRUE
      /\ UNCHANGED <<roleOf, invitedTo, members, invitations, teamLoading, isInviting, teamSent, teamOverlapped>>
  BY <1>1 DEF Team!Refuse, Team!LoseAnswer, Team!Becomes, Team!pageVars, Team!serverVars
<1>3. TeamState /\ TeamWork /\ (~teamOverlapped => TeamNoTwo /\ TeamAnswers /\ TeamShown)
  BY TeamParts
<1>4. c \in TeamCall
  BY <1>3 DEF TeamWork
<1>5. /\ new \in TeamCall /\ new.kind = c.kind /\ new.state = "refused"
      /\ c.kind = "change" => new.member = c.member /\ new.role = c.role
      /\ c.kind = "invite" => new.email = c.email
  BY <1>1, <1>2, <1>4, TeamCallChanges
<1>6. TeamWork' /\ (TeamNoTwo => TeamNoTwo')
  BY <1>2, <1>5, TeamGoesOn
<1>7. TeamState'
  BY <1>2, <1>3 DEF TeamState
<1>8. TeamAnswers => TeamAnswers'
  BY <1>2, <1>5 DEF TeamAnswers
<1>9. ASSUME TeamShown, ~teamDemo' PROVE TeamShown'
  <2>1. c.state = "sent" /\ ~teamDemo
    BY <1>2, <1>9
  <2>2. (\A d \in teamCalls' : d.kind # "load") => \A d \in teamCalls : d.kind # "load"
    BY <1>2, <1>5
  <2>3. \A m : (\E d \in teamCalls : d.kind = "change" /\ d.state = "done" /\ d.member = m) <=>
               \E d \in teamCalls' : d.kind = "change" /\ d.state = "done" /\ d.member = m
    BY <1>2, <1>5, <2>1
  <2>4. \A e : (\E d \in teamCalls : d.kind = "invite" /\ d.state = "done" /\ d.email = e) <=>
               \E d \in teamCalls' : d.kind = "invite" /\ d.state = "done" /\ d.email = e
    BY <1>2, <1>5, <2>1
  <2>5. QED
    BY <1>2, <1>9, <2>1, <2>2, <2>3, <2>4 DEF TeamShown
<1>10. teamDemo' => TeamShown'
  BY DEF TeamShown
<1>11. QED
  BY <1>2, <1>3, <1>6, <1>7, <1>8, <1>9, <1>10, TeamPartsAfter

\* The rows of an answer are those of the server: no other request was under
\* way that could have changed one.
LEMMA TeamLoads ==
  ASSUME TeamInv, NEW c \in teamCalls, Team!LoadAnswered(c)
  PROVE  TeamInv'
<1>1. /\ c.kind = "load" /\ c.state # "sent" /\ teamCalls' = teamCalls \ {c}
      /\ \/ c.state = "done" /\ members' = c.team /\ invitations' = c.invited
         \/ c.state = "refused" /\ members' = members /\ invitations' = invitations
         \/ c.state = "refused" /\ members' = TeamDemo /\ invitations' = {}
      /\ teamDemo' = (c.state = "refused") /\ teamLoading' = FALSE
      /\ UNCHANGED <<roleOf, invitedTo, isInviting, teamSent, teamOverlapped>>
  BY DEF Team!LoadAnswered, Team!Answered, Team!serverVars
<1>2. TeamState /\ TeamWork /\ (~teamOverlapped => TeamNoTwo /\ TeamAnswers /\ TeamShown)
  BY TeamParts
<1>3. c.state = "done" => c.team \in [Member -> TeamRole] /\ c.invited \subseteq Email
  BY <1>1, <1>2, TeamCallFacts DEF TeamWork
<1>4. TeamState'
  <2>1. TeamDemo \in [Member -> TeamRole]
    BY TeamAssumption DEF TeamRole
  <2>2. members' \in [Member -> TeamRole] /\ invitations' \subseteq Email
    BY <1>1, <1>2, <1>3, <2>1 DEF TeamState
  <2>3. teamDemo' \in BOOLEAN
    BY <1>1
  <2>4. QED
    BY <1>1, <1>2, <2>2, <2>3 DEF TeamState
<1>5. TeamWork'
  BY <1>1, <1>2 DEF TeamWork
<1>6. ~teamOverlapped' => TeamNoTwo' /\ TeamAnswers' /\ TeamShown'
  <2> SUFFICES ASSUME ~teamOverlapped' PROVE TeamNoTwo' /\ TeamAnswers' /\ TeamShown'
    OBVIOUS
  <2>1. TeamNoTwo /\ TeamAnswers
    BY <1>1, <1>2
  <2>2. teamCalls' = {}
    BY <1>1, <2>1 DEF TeamNoTwo, Team!Contradict
  <2>3. ~teamDemo' => members' = roleOf' /\ invitations' = invitedTo'
    BY <1>1, <2>1 DEF TeamAnswers
  <2>4. QED
    BY <2>2, <2>3 DEF TeamNoTwo, TeamAnswers, TeamShown
<1>7. QED
  BY <1>4, <1>5, <1>6, TeamPartsAfter

\* The page takes over the row of an answer.
LEMMA TeamChanges ==
  ASSUME TeamInv, NEW c \in teamCalls, Team!ChangeAnswered(c)
  PROVE  TeamInv'
<1>1. /\ c.kind = "change" /\ c.state # "sent" /\ teamCalls' = teamCalls \ {c}
      /\ members' = IF c.state = "done" /\ members[c.member] # None
                    THEN [members EXCEPT ![c.member] = c.role] ELSE members
      /\ UNCHANGED <<roleOf, invitedTo, invitations, teamLoading, isInviting, teamSent, teamDemo, teamOverlapped>>
  BY DEF Team!ChangeAnswered, Team!Answered, Team!Changed, Team!serverVars
<1>2. TeamState /\ TeamWork /\ (~teamOverlapped => TeamNoTwo /\ TeamAnswers /\ TeamShown)
  BY TeamParts
<1>3. c.member \in Member /\ c.role \in TeamRole
  BY <1>1, <1>2, TeamCallFacts DEF TeamWork
<1>4. /\ members' \in [Member -> TeamRole]
      /\ \A m \in Member : m # c.member => members'[m] = members[m]
      /\ c.state = "done" /\ members[c.member] # None => members'[c.member] = c.role
      /\ c.state # "done" => members' = members
  BY <1>1, <1>2, <1>3 DEF TeamState
<1>5. TeamState'
  BY <1>1, <1>2, <1>4 DEF TeamState
<1>6. TeamWork'
  BY <1>1, <1>2 DEF TeamWork
<1>7. ~teamOverlapped' => TeamNoTwo' /\ TeamAnswers' /\ TeamShown'
  <2> SUFFICES ASSUME ~teamOverlapped' PROVE TeamNoTwo' /\ TeamAnswers' /\ TeamShown'
    OBVIOUS
  <2>1. TeamNoTwo /\ TeamAnswers /\ TeamShown
    BY <1>1, <1>2
  <2>2. TeamNoTwo'
    BY <1>1, <2>1 DEF TeamNoTwo
  <2>3. \A d \in teamCalls' : d \in teamCalls /\ d.kind # "load" /\ (d.kind = "change" => d.member \in Member /\ d.member # c.member)
    BY <1>1, <1>2, <2>1, TeamCallFacts DEF TeamNoTwo, TeamWork, Team!Contradict
  <2>4. TeamAnswers'
    <3> SUFFICES ASSUME NEW d \in teamCalls'
                 PROVE  /\ d.kind # "load"
                        /\ d.kind = "change" => members'[d.member] # None /\ (d.state = "done" => roleOf[d.member] = d.role)
      BY <1>1 DEF TeamAnswers
    <3>1. QED
      BY <1>4, <2>1, <2>3 DEF TeamAnswers
  <2>5. ASSUME ~teamDemo PROVE TeamShown'
    <3>1. /\ \A m \in Member : \/ members[m] = roleOf[m]
                               \/ \E d \in teamCalls : d.kind = "change" /\ d.state = "done" /\ d.member = m
          /\ \A e \in Email : e \in invitedTo <=>
               e \in invitations \/ \E d \in teamCalls : d.kind = "invite" /\ d.state = "done" /\ d.email = e
      <4>1. \A d \in teamCalls : d.kind # "load"
        BY <1>1, <2>3
      <4>2. QED
        BY <2>1, <2>5, <4>1 DEF TeamShown
    <3>2. ASSUME NEW m \in Member
          PROVE  members'[m] = roleOf[m] \/ \E d \in teamCalls' : d.kind = "change" /\ d.state = "done" /\ d.member = m
      <4>1. CASE m # c.member
        <5>1. (\E d \in teamCalls : d.kind = "change" /\ d.state = "done" /\ d.member = m) =>
                \E d \in teamCalls' : d.kind = "change" /\ d.state = "done" /\ d.member = m
          BY <1>1, <4>1
        <5>2. QED
          BY <1>4, <3>1, <4>1, <5>1
      <4>2. CASE m = c.member /\ c.state = "done"
        <5>1. members[c.member] # None /\ roleOf[c.member] = c.role
          BY <1>1, <2>1, <4>2 DEF TeamAnswers
        <5>2. QED
          BY <1>4, <4>2, <5>1
      <4>3. CASE m = c.member /\ c.state # "done"
        <5>1. ~\E d \in teamCalls : d.kind = "change" /\ d.state = "done" /\ d.member = m
          BY <1>1, <2>3, <4>3
        <5>2. QED
          BY <1>4, <3>1, <4>3, <5>1
      <4>4. QED
        BY <4>1, <4>2, <4>3
    <3>3. \A e : (\E d \in teamCalls : d.kind = "invite" /\ d.state = "done" /\ d.email = e) <=>
                 \E d \in teamCalls' : d.kind = "invite" /\ d.state = "done" /\ d.email = e
      BY <1>1
    <3>4. QED
      BY <1>1, <3>1, <3>2, <3>3 DEF TeamShown
  <2>6. teamDemo => TeamShown'
    BY <1>1 DEF TeamShown
  <2>7. QED
    BY <2>2, <2>4, <2>5, <2>6
<1>8. QED
  BY <1>5, <1>6, <1>7, TeamPartsAfter

LEMMA TeamInvites ==
  ASSUME TeamInv, NEW c \in teamCalls, Team!InviteAnswered(c)
  PROVE  TeamInv'
<1>1. /\ c.kind = "invite" /\ c.state # "sent" /\ teamCalls' = teamCalls \ {c}
      /\ invitations' = invitations \cup {c.email} /\ isInviting' = FALSE
      /\ teamDemo' = (teamDemo \/ c.state = "refused")
      /\ UNCHANGED <<roleOf, invitedTo, members, teamLoading, teamSent, teamOverlapped>>
  BY DEF Team!InviteAnswered, Team!Answered, Team!serverVars
<1>2. TeamState /\ TeamWork /\ (~teamOverlapped => TeamNoTwo /\ TeamAnswers /\ TeamShown)
  BY TeamParts
<1>3. c.email \in Email /\ c.state \in {"done", "refused"}
  BY <1>1, <1>2, TeamCallFacts DEF TeamWork
<1>4. TeamState'
  <2>1. invitations' \subseteq Email
    BY <1>1, <1>2, <1>3 DEF TeamState
  <2>2. teamDemo' \in BOOLEAN
    BY <1>1, <1>2 DEF TeamState
  <2>3. QED
    BY <1>1, <1>2, <2>1, <2>2 DEF TeamState
<1>5. TeamWork'
  BY <1>1, <1>2 DEF TeamWork
<1>6. ~teamOverlapped' => TeamNoTwo' /\ TeamAnswers' /\ TeamShown'
  <2> SUFFICES ASSUME ~teamOverlapped' PROVE TeamNoTwo' /\ TeamAnswers' /\ TeamShown'
    OBVIOUS
  <2>1. TeamNoTwo /\ TeamAnswers /\ TeamShown
    BY <1>1, <1>2
  <2>2. TeamNoTwo'
    BY <1>1, <2>1 DEF TeamNoTwo
  <2>3. TeamAnswers'
    BY <1>1, <2>1 DEF TeamAnswers
  <2>4. ASSUME ~teamDemo', \A d \in teamCalls' : d.kind # "load" PROVE TeamShown'
    <3>1. ~teamDemo /\ c.state = "done" /\ \A d \in teamCalls : d.kind # "load"
      BY <1>1, <1>3, <2>4
    <3>2. /\ \A m \in Member : \/ members[m] = roleOf[m]
                               \/ \E d \in teamCalls : d.kind = "change" /\ d.state = "done" /\ d.member = m
          /\ \A e \in Email : e \in invitedTo <=>
               e \in invitations \/ \E d \in teamCalls : d.kind = "invite" /\ d.state = "done" /\ d.email = e
      BY <2>1, <3>1 DEF TeamShown
    <3>3. \A m : (\E d \in teamCalls : d.kind = "change" /\ d.state = "done" /\ d.member = m) <=>
                 \E d \in teamCalls' : d.kind = "change" /\ d.state = "done" /\ d.member = m
      BY <1>1
    <3>4. \A e : (\E d \in teamCalls : d.kind = "invite" /\ d.state = "done" /\ d.email = e) <=>
                 \/ e = c.email
                 \/ \E d \in teamCalls' : d.kind = "invite" /\ d.state = "done" /\ d.email = e
      BY <1>1, <3>1
    <3>5. \A e : e \in invitations' <=> e \in invitations \/ e = c.email
      BY <1>1
    <3>6. QED
      BY <1>1, <3>2, <3>3, <3>4, <3>5 DEF TeamShown
  <2>5. TeamShown'
    BY <2>4 DEF TeamShown
  <2>6. QED
    BY <2>2, <2>3, <2>5
<1>7. QED
  BY <1>4, <1>5, <1>6, TeamPartsAfter

LEMMA TeamStep == TeamInv /\ Team!Next => TeamInv'
<1> SUFFICES ASSUME TeamInv, Team!Next PROVE TeamInv'
  OBVIOUS
<1>1. teamSent + 1 \in Nat /\ None \in TeamRole /\ Role \subseteq TeamRole
  BY TeamParts DEF TeamState, TeamRole
<1>2. ASSUME Team!LoadData PROVE TeamInv'
  <2>1. PICK new : new = [n |-> teamSent + 1, kind |-> "load", state |-> "sent"]
    OBVIOUS
  <2>2. Team!SendCall(new) /\ teamLoading' = TRUE
        /\ UNCHANGED <<roleOf, invitedTo, members, invitations, teamDemo, isInviting>>
    BY <1>2, <2>1, Zenon DEF Team!LoadData, Team!serverVars
  <2>3. new \in TeamCall /\ new.kind = "load" /\ new.state = "sent"
    BY <1>1, <2>1 DEF TeamCall
  <2>4. QED
    BY <2>2, <2>3, TeamSends
<1>3. ASSUME NEW m \in Member, NEW role \in TeamRole,
             Team!Offered(m),
             Team!SendCall([n |-> teamSent + 1, kind |-> "change", member |-> m, role |-> role, state |-> "sent"]),
             UNCHANGED <<roleOf, invitedTo, members, invitations, teamDemo, teamLoading, isInviting>>
      PROVE  TeamInv'
  <2>1. PICK new : new = [n |-> teamSent + 1, kind |-> "change", member |-> m, role |-> role, state |-> "sent"]
    OBVIOUS
  <2>2. Team!SendCall(new)
    BY <1>3, <2>1, Zenon
  <2>3. new \in TeamCall /\ new.kind = "change" /\ new.state = "sent" /\ new.member = m
    BY <1>1, <1>3, <2>1 DEF TeamCall
  <2>4. members[new.member] # None
    BY <1>3, <2>3 DEF Team!Offered
  <2>5. QED
    BY <1>3, <2>2, <2>3, <2>4, TeamSends
<1>4. ASSUME NEW m \in Member, Team!HandleRemoveMember(m) PROVE TeamInv'
  BY <1>1, <1>3, <1>4, Zenon DEF Team!HandleRemoveMember, Team!serverVars, Team!pageVars
<1>5. ASSUME NEW m \in Member, NEW role \in Role, Team!HandleRoleChange(m, role) PROVE TeamInv'
  BY <1>1, <1>3, <1>5, Zenon DEF Team!HandleRoleChange, Team!serverVars, Team!pageVars
<1>6. ASSUME NEW e \in Email, Team!HandleSendInvite(e) PROVE TeamInv'
  <2>1. PICK new : new = [n |-> teamSent + 1, kind |-> "invite", email |-> e, state |-> "sent"]
    OBVIOUS
  <2>2. /\ Team!SendCall(new) /\ ~isInviting /\ isInviting' = TRUE
        /\ UNCHANGED <<roleOf, invitedTo, members, invitations, teamDemo, teamLoading>>
    BY <1>6, <2>1, Zenon DEF Team!HandleSendInvite, Team!serverVars
  <2>3. new \in TeamCall /\ new.kind = "invite" /\ new.state = "sent"
    BY <1>1, <1>6, <2>1 DEF TeamCall
  <2>4. isInviting = FALSE
    BY <2>2, TeamParts DEF TeamState
  <2>5. QED
    BY <2>2, <2>3, <2>4, TeamSends
<1>7. QED
  BY <1>2, <1>4, <1>5, <1>6, TeamReads, TeamWrites, TeamRefuses, TeamLoads, TeamChanges, TeamInvites
     DEF Team!Next

LEMMA TeamKept == TeamInv /\ UNCHANGED teamVars => TeamInv'
<1> SUFFICES ASSUME TeamInv, UNCHANGED teamVars PROVE TeamInv'
  OBVIOUS
<1>1. UNCHANGED <<roleOf, invitedTo, members, invitations, teamLoading, isInviting, teamCalls, teamSent, teamDemo,
                  teamOverlapped>>
  BY DEF teamVars
<1>2. /\ TeamState' /\ TeamWork' /\ (~teamOverlapped' => TeamNoTwo' /\ TeamAnswers' /\ TeamShown')
  BY <1>1, TeamParts DEF TeamState, TeamWork, TeamNoTwo, TeamAnswers, TeamShown
<1>3. QED
  BY <1>2, TeamPartsAfter

LEMMA TeamPromises == TeamInv => Team!NothingHangs /\ Team!PageShowsTheTeam
<1> SUFFICES ASSUME TeamInv PROVE Team!NothingHangs /\ Team!PageShowsTheTeam
  OBVIOUS
<1>1. TeamState /\ (~teamOverlapped => TeamShown)
  BY TeamParts
<1>2. teamCalls = {} /\ ~teamDemo /\ ~teamOverlapped => members = roleOf /\ invitations = invitedTo
  <2> SUFFICES ASSUME teamCalls = {}, ~teamDemo, ~teamOverlapped PROVE members = roleOf /\ invitations = invitedTo
    OBVIOUS
  <2>1. (\A m \in Member : members[m] = roleOf[m]) /\ \A e \in Email : e \in invitedTo <=> e \in invitations
    BY <1>1 DEF TeamShown
  <2>2. members = roleOf
    BY <1>1, <2>1 DEF TeamState
  <2>3. invitations = invitedTo
    BY <1>1, <2>1 DEF TeamState
  <2>4. QED
    BY <2>2, <2>3
<1>3. QED
  BY <1>2 DEF TeamInv, Team!PageShowsTheTeam
-----------------------------------------------------------------------------
(***************************************************************************)
(* The repositories of a workspace                                         *)
(***************************************************************************)
\* The requests of the two pages.
ReposCall ==
  [n : Nat, kind : {"load"}, repo : {None}, state : {"sent", "done", "refused"}, found : SUBSET Repo]
    \cup [n : Nat, kind : {"connect", "disconnect"}, repo : Repo, state : {"sent", "done", "refused"}, found : SUBSET Repo]
\* While no two requests are of the same row: an answer says what the server
\* has, and a row that is not as on the server is about to be.
ReposApart ==
  /\ \A c, d \in reposCalls : c # d => ~Repos!Contradict(c, d)
  /\ \A c \in reposCalls : c.state = "done" =>
       /\ c.kind = "load" => c.found = connectedTo
       /\ c.kind # "load" => (c.kind = "connect" <=> c.repo \in connectedTo)
  /\ ~reposDemo /\ (\A c \in reposCalls : c.kind # "load") =>
       \A r \in Repo : \/ r \in shown <=> r \in connectedTo
                       \/ \E c \in reposCalls : c.state = "done" /\ c.repo = r
\* The promises of the pages, with what holds while no requests overlap.
ReposInv ==
  /\ Repos!TypeOK /\ Repos!NothingHangs /\ reposCalls \subseteq ReposCall
  /\ \A r \in Repo : syncing[r] <= reposSent
  /\ ~reposOverlapped => ReposApart
\* The parts of the invariant: the page, what is under way, and what is known
\* of both while no two requests are of the same rows.
ReposPage ==
  /\ connectedTo \subseteq Repo /\ shown \subseteq Repo /\ open \in {"repositories", "github"}
  /\ reposLoading \in BOOLEAN /\ reposDemo \in BOOLEAN /\ reposOverlapped \in BOOLEAN
  /\ busyId \in Repo \cup {None} /\ syncingId \in Repo \cup {None}
  /\ syncing \in [Repo -> 0 .. MaxCalls] /\ reposSent \in 0 .. MaxCalls
  /\ \A r \in Repo : syncing[r] <= reposSent
  /\ syncingId # None => syncing[syncingId] > 0
ReposWork ==
  /\ reposCalls \subseteq ReposCall
  /\ reposLoading => \E c \in reposCalls : c.kind = "load"
  /\ busyId # None => \E c \in reposCalls : c.repo = busyId
ReposNoTwo == \A c, d \in reposCalls : c # d => ~Repos!Contradict(c, d)
ReposAnswers ==
  \A c \in reposCalls : c.state = "done" =>
    /\ c.kind = "load" => c.found = connectedTo
    /\ c.kind # "load" => (c.kind = "connect" <=> c.repo \in connectedTo)
ReposShown ==
  ~reposDemo /\ (\A c \in reposCalls : c.kind # "load") =>
    \A r \in Repo : \/ r \in shown <=> r \in connectedTo
                    \/ \E c \in reposCalls : c.state = "done" /\ c.repo = r

\* The fields of a request.
LEMMA ReposCallFacts ==
  ASSUME NEW c \in ReposCall
  PROVE  /\ c.kind \in {"load", "connect", "disconnect"} /\ c.repo \in Repo \cup {None}
         /\ c.state \in {"sent", "done", "refused"} /\ c.found \subseteq Repo /\ c.n \in Nat
         /\ c.kind = "load" <=> c.repo = None
<1>1. CASE c \in [n : Nat, kind : {"load"}, repo : {None}, state : {"sent", "done", "refused"}, found : SUBSET Repo]
  BY <1>1
<1>2. CASE c \in [n : Nat, kind : {"connect", "disconnect"}, repo : Repo, state : {"sent", "done", "refused"}, found : SUBSET Repo]
  <2>1. /\ c.kind \in {"connect", "disconnect"} /\ c.repo \in Repo /\ c.state \in {"sent", "done", "refused"}
        /\ c.found \subseteq Repo /\ c.n \in Nat
    BY <1>2
  <2>2. QED
    BY <2>1, RepositoriesAssumption
<1>3. QED
  BY <1>1, <1>2 DEF ReposCall

\* A request whose answer is on its way.
LEMMA ReposCallChanges ==
  ASSUME NEW c \in ReposCall, NEW state \in {"sent", "done", "refused"}, NEW new, new = [c EXCEPT !.state = state]
  PROVE  new \in ReposCall /\ new.kind = c.kind /\ new.repo = c.repo /\ new.found = c.found /\ new.state = state
<1>1. CASE c \in [n : Nat, kind : {"load"}, repo : {None}, state : {"sent", "done", "refused"}, found : SUBSET Repo]
  BY <1>1 DEF ReposCall
<1>2. CASE c \in [n : Nat, kind : {"connect", "disconnect"}, repo : Repo, state : {"sent", "done", "refused"}, found : SUBSET Repo]
  BY <1>2 DEF ReposCall
<1>3. QED
  BY <1>1, <1>2 DEF ReposCall

LEMMA ReposCallFinds ==
  ASSUME NEW c \in ReposCall, NEW found \in SUBSET Repo, NEW new, new = [c EXCEPT !.found = found]
  PROVE  new \in ReposCall /\ new.kind = c.kind /\ new.repo = c.repo /\ new.found = found /\ new.state = c.state
<1>1. CASE c \in [n : Nat, kind : {"load"}, repo : {None}, state : {"sent", "done", "refused"}, found : SUBSET Repo]
  BY <1>1 DEF ReposCall
<1>2. CASE c \in [n : Nat, kind : {"connect", "disconnect"}, repo : Repo, state : {"sent", "done", "refused"}, found : SUBSET Repo]
  BY <1>2 DEF ReposCall
<1>3. QED
  BY <1>1, <1>2 DEF ReposCall

\* The invariant in five parts: the pages, their spinners, and what holds
\* while no requests overlap.
LEMMA ReposParts ==
  ReposInv <=> ReposPage /\ ReposWork /\ (~reposOverlapped => ReposNoTwo /\ ReposAnswers /\ ReposShown)
<1>1. reposCalls \subseteq ReposCall =>
        \A c \in reposCalls : c.kind \in {"load", "connect", "disconnect"} /\ c.repo \in Repo \cup {None}
  BY ReposCallFacts
<1>2. ReposApart <=> ReposNoTwo /\ ReposAnswers /\ ReposShown
  BY Zenon DEF ReposApart, ReposNoTwo, ReposAnswers, ReposShown
<1>3. QED
  BY <1>1, <1>2 DEF ReposInv, ReposPage, ReposWork, Repos!TypeOK, Repos!NothingHangs

LEMMA ReposPartsAfter ==
  ASSUME ReposPage', ReposWork', ~reposOverlapped' => ReposNoTwo' /\ ReposAnswers' /\ ReposShown'
  PROVE  ReposInv'
<1>1. \A c \in reposCalls' : c.kind \in {"load", "connect", "disconnect"} /\ c.repo \in Repo \cup {None}
  BY ReposCallFacts DEF ReposWork
<1>2. ~reposOverlapped' => ReposApart'
  BY DEF ReposApart, ReposNoTwo, ReposAnswers, ReposShown
<1>3. QED
  BY <1>1, <1>2 DEF ReposInv, ReposPage, ReposWork, Repos!TypeOK, Repos!NothingHangs

LEMMA ReposInit == Repos!Init => ReposInv
<1> SUFFICES ASSUME Repos!Init PROVE ReposInv
  OBVIOUS
<1>1. PICK first : first = [n |-> 1, kind |-> "load", repo |-> None, state |-> "sent", found |-> {}]
  OBVIOUS
<1>2. /\ connectedTo \in SUBSET Repo /\ open \in {"repositories", "github"} /\ shown = {} /\ reposLoading = TRUE
      /\ busyId = None /\ syncingId = None /\ syncing = [r \in Repo |-> 0]
      /\ reposCalls = {first} /\ reposSent = 1 /\ reposDemo = FALSE /\ reposOverlapped = FALSE
  BY <1>1, Zenon DEF Repos!Init
<1>3. first \in ReposCall /\ first.kind = "load" /\ first.state = "sent"
  BY <1>1 DEF ReposCall
<1>4. ReposPage
  <2>1. reposSent \in 0 .. MaxCalls /\ 0 \in 0 .. MaxCalls
    BY <1>2, RepositoriesAssumption
  <2>2. syncing \in [Repo -> 0 .. MaxCalls] /\ \A r \in Repo : syncing[r] <= reposSent
    BY <1>2, <2>1
  <2>3. QED
    BY <1>2, <2>1, <2>2 DEF ReposPage
<1>5. ReposWork
  BY <1>2, <1>3 DEF ReposWork
<1>6. ReposNoTwo /\ ReposAnswers /\ ReposShown
  BY <1>2, <1>3 DEF ReposNoTwo, ReposAnswers, ReposShown
<1>7. QED
  BY <1>4, <1>5, <1>6, ReposParts

\* Another request is sent.
LEMMA ReposSends ==
  ASSUME ReposInv, NEW kind, NEW repo, Repos!SendCall(kind, repo),
         (kind = "load" /\ repo = None) \/ (kind \in {"connect", "disconnect"} /\ repo \in Repo),
         UNCHANGED <<connectedTo, shown, open, syncingId, syncing, reposDemo>>,
         \/ reposLoading' = reposLoading
         \/ kind = "load" /\ reposLoading' = TRUE,
         busyId' = busyId \/ (repo \in Repo /\ busyId' = repo)
  PROVE  ReposInv'
<1>1. PICK new : new = Repos!Request(kind, repo)
  OBVIOUS
<1>2. /\ reposSent < MaxCalls /\ reposSent' = reposSent + 1 /\ reposCalls' = reposCalls \cup {new}
      /\ reposOverlapped' = (reposOverlapped \/ \E c \in reposCalls : Repos!Contradict(c, new))
  BY <1>1, Zenon DEF Repos!SendCall
<1>3. ReposPage /\ ReposWork /\ (~reposOverlapped => ReposNoTwo /\ ReposAnswers /\ ReposShown) /\ MaxCalls \in Nat
  BY ReposParts, RepositoriesAssumption
<1>4. new \in ReposCall /\ new.kind = kind /\ new.repo = repo /\ new.state = "sent"
  <2>1. reposSent + 1 \in Nat
    BY <1>3 DEF ReposPage
  <2>2. new = [n |-> reposSent + 1, kind |-> kind, repo |-> repo, state |-> "sent", found |-> {}]
    BY <1>1 DEF Repos!Request
  <2>3. QED
    BY <2>1, <2>2 DEF ReposCall
<1>5. ReposPage'
  <2>1. reposOverlapped' \in BOOLEAN
    BY <1>2, <1>3 DEF ReposPage
  <2>2. reposLoading' \in BOOLEAN /\ busyId' \in Repo \cup {None}
    BY <1>3 DEF ReposPage
  <2>3. reposSent' \in 0 .. MaxCalls /\ \A r \in Repo : syncing[r] <= reposSent'
    BY <1>2, <1>3 DEF ReposPage
  <2>4. QED
    BY <1>3, <2>1, <2>2, <2>3 DEF ReposPage
<1>6. ReposWork'
  BY <1>2, <1>3, <1>4 DEF ReposWork
<1>7. ~reposOverlapped' => ReposNoTwo' /\ ReposAnswers' /\ ReposShown'
  <2> SUFFICES ASSUME ~reposOverlapped' PROVE ReposNoTwo' /\ ReposAnswers' /\ ReposShown'
    OBVIOUS
  <2>1. ReposNoTwo /\ ReposAnswers /\ ReposShown /\ \A c \in reposCalls : ~Repos!Contradict(c, new)
    BY <1>2, <1>3
  <2>2. ReposNoTwo'
    BY <1>2, <2>1 DEF ReposNoTwo, Repos!Contradict
  <2>3. ReposAnswers'
    BY <1>2, <1>4, <2>1 DEF ReposAnswers
  <2>4. ReposShown'
    BY <1>2, <2>1 DEF ReposShown
  <2>5. QED
    BY <2>2, <2>3, <2>4
<1>8. QED
  BY <1>5, <1>6, <1>7, ReposPartsAfter

\* A request comes to another state, and remains of the same rows.
LEMMA ReposGoesOn ==
  ASSUME ReposInv, NEW c \in reposCalls, NEW new \in ReposCall, new.kind = c.kind, new.repo = c.repo,
         reposCalls' = (reposCalls \ {c}) \cup {new}, UNCHANGED <<reposLoading, busyId>>
  PROVE  ReposWork' /\ (ReposNoTwo => ReposNoTwo')
<1>1. ReposWork
  BY ReposParts
<1>2. \A p : (\E d \in reposCalls : d.kind = p) <=> \E d \in reposCalls' : d.kind = p
  OBVIOUS
<1>3. \A p : (\E d \in reposCalls : d.repo = p) <=> \E d \in reposCalls' : d.repo = p
  OBVIOUS
<1>4. ReposWork'
  BY <1>1, <1>2, <1>3 DEF ReposWork
<1>5. ASSUME ReposNoTwo PROVE ReposNoTwo'
  BY <1>5 DEF ReposNoTwo, Repos!Contradict
<1>6. QED
  BY <1>4, <1>5

\* The server connects, disconnects or lists.
LEMMA ReposHandles ==
  ASSUME ReposInv, NEW c \in reposCalls, Repos!Handle(c)
  PROVE  ReposInv'
<1>1. /\ c.state = "sent"
      /\ UNCHANGED <<open, shown, reposLoading, busyId, syncingId, syncing, reposSent, reposDemo, reposOverlapped>>
  BY DEF Repos!Handle, Repos!pageVars
<1>2. ReposPage /\ ReposWork /\ (~reposOverlapped => ReposNoTwo /\ ReposAnswers /\ ReposShown)
  BY ReposParts
<1>3. c \in ReposCall
  BY <1>2 DEF ReposWork
<1>4. PICK done : done = [c EXCEPT !.state = "done"]
  OBVIOUS
<1>5. done \in ReposCall /\ done.kind = c.kind /\ done.repo = c.repo /\ done.state = "done"
  BY <1>3, <1>4, ReposCallChanges
<1>6. CASE c.kind = "load"
  <2>1. PICK new : new = [done EXCEPT !.found = connectedTo]
    OBVIOUS
  <2>2. reposCalls' = (reposCalls \ {c}) \cup {[c EXCEPT !.state = "done", !.found = connectedTo]} /\ connectedTo' = connectedTo
    BY <1>6 DEF Repos!Handle, Repos!Becomes
  <2>3. [c EXCEPT !.state = "done", !.found = connectedTo] = new
    <3>1. CASE c \in [n : Nat, kind : {"load"}, repo : {None}, state : {"sent", "done", "refused"}, found : SUBSET Repo]
      BY <1>4, <2>1, <3>1
    <3>2. CASE c \in [n : Nat, kind : {"connect", "disconnect"}, repo : Repo, state : {"sent", "done", "refused"}, found : SUBSET Repo]
      BY <1>4, <2>1, <3>2
    <3>3. QED
      BY <1>3, <3>1, <3>2 DEF ReposCall
  <2>4. reposCalls' = (reposCalls \ {c}) \cup {new}
    BY <2>2, <2>3
  <2>5. new \in ReposCall /\ new.kind = "load" /\ new.repo = c.repo /\ new.state = "done" /\ new.found = connectedTo
    <3>1. connectedTo \in SUBSET Repo
      BY <1>2 DEF ReposPage
    <3>2. QED
      BY <1>5, <1>6, <2>1, <3>1, ReposCallFinds
  <2>6. ReposWork' /\ (ReposNoTwo => ReposNoTwo')
    BY <1>1, <1>6, <2>4, <2>5, ReposGoesOn
  <2>7. ReposPage'
    BY <1>1, <1>2, <2>2 DEF ReposPage
  <2>8. ReposAnswers => ReposAnswers'
    BY <2>2, <2>4, <2>5 DEF ReposAnswers
  <2>9. ReposShown'
    BY <2>4, <2>5 DEF ReposShown
  <2>10. QED
    BY <1>1, <1>2, <2>6, <2>7, <2>8, <2>9, ReposPartsAfter
<1>7. CASE c.kind # "load"
  <2>1. /\ reposCalls' = (reposCalls \ {c}) \cup {done}
        /\ \/ c.kind = "connect" /\ connectedTo' = connectedTo \cup {c.repo}
           \/ c.kind = "disconnect" /\ connectedTo' = connectedTo \ {c.repo}
    BY <1>4, <1>7 DEF Repos!Handle, Repos!Becomes
  <2>2. c.repo \in Repo
    BY <1>3, <1>7, ReposCallFacts
  <2>3. ReposWork' /\ (ReposNoTwo => ReposNoTwo')
    BY <1>1, <1>5, <2>1, ReposGoesOn
  <2>4. ReposPage'
    <3>1. connectedTo' \subseteq Repo
      BY <1>2, <2>1, <2>2 DEF ReposPage
    <3>2. QED
      BY <1>1, <1>2, <3>1 DEF ReposPage
  <2>5. ASSUME ~reposOverlapped' PROVE ReposAnswers' /\ ReposShown'
    <3>1. ReposNoTwo /\ ReposAnswers /\ ReposShown
      BY <1>1, <1>2, <2>5
    <3>2. \A d \in reposCalls : d # c => d.kind # "load" /\ d.repo # c.repo
      BY <3>1 DEF ReposNoTwo, Repos!Contradict
    <3>3. \A r : r # c.repo => (r \in connectedTo' <=> r \in connectedTo)
      BY <2>1
    <3>4. c.kind = "connect" <=> c.repo \in connectedTo'
      BY <2>1
    <3>5. ReposAnswers'
      <4>1. ASSUME NEW d \in reposCalls', d.state = "done"
            PROVE  d.kind # "load" /\ (d.kind = "connect" <=> d.repo \in connectedTo')
        <5>1. CASE d = done
          BY <1>5, <1>7, <3>4, <5>1
        <5>2. CASE d # done
          <6>1. d \in reposCalls /\ d # c
            BY <2>1, <4>1, <5>2
          <6>2. QED
            BY <3>1, <3>2, <3>3, <4>1, <6>1 DEF ReposAnswers
        <5>3. QED
          BY <5>1, <5>2
      <4>2. QED
        BY <4>1 DEF ReposAnswers
    <3>6. ReposShown'
      <4> SUFFICES ASSUME ~reposDemo', \A d \in reposCalls' : d.kind # "load", NEW r \in Repo
                   PROVE  (r \in shown' <=> r \in connectedTo') \/ \E d \in reposCalls' : d.state = "done" /\ d.repo = r
        BY DEF ReposShown
      <4>1. CASE r = c.repo
        BY <1>5, <2>1, <4>1
      <4>2. CASE r # c.repo
        <5>1. ~reposDemo /\ \A d \in reposCalls : d.kind # "load"
          BY <1>1, <1>7, <3>2
        <5>2. (r \in shown <=> r \in connectedTo) \/ \E d \in reposCalls : d.state = "done" /\ d.repo = r
          BY <3>1, <5>1 DEF ReposShown
        <5>3. (\E d \in reposCalls : d.state = "done" /\ d.repo = r) => \E d \in reposCalls' : d.state = "done" /\ d.repo = r
          BY <2>1, <4>2
        <5>4. QED
          BY <1>1, <3>3, <4>2, <5>2, <5>3
      <4>3. QED
        BY <4>1, <4>2
    <3>7. QED
      BY <3>5, <3>6
  <2>6. QED
    BY <1>1, <1>2, <2>3, <2>4, <2>5, ReposPartsAfter
<1>8. QED
  BY <1>6, <1>7

\* A request is refused, or its answer lost.
LEMMA ReposRefuses ==
  ASSUME ReposInv, NEW c \in reposCalls, Repos!Refuse(c) \/ Repos!LoseAnswer(c)
  PROVE  ReposInv'
<1>1. PICK new : new = [c EXCEPT !.state = "refused"]
  OBVIOUS
<1>2. /\ reposCalls' = (reposCalls \ {c}) \cup {new}
      /\ (c.state = "sent" /\ reposDemo' = reposDemo) \/ reposDemo' = TRUE
      /\ UNCHANGED <<connectedTo, open, shown, reposLoading, busyId, syncingId, syncing, reposSent, reposOverlapped>>
  BY <1>1 DEF Repos!Refuse, Repos!LoseAnswer, Repos!Becomes, Repos!pageVars
<1>3. ReposPage /\ ReposWork /\ (~reposOverlapped => ReposNoTwo /\ ReposAnswers /\ ReposShown)
  BY ReposParts
<1>4. new \in ReposCall /\ new.kind = c.kind /\ new.repo = c.repo /\ new.state = "refused"
  <2>1. c \in ReposCall
    BY <1>3 DEF ReposWork
  <2>2. QED
    BY <1>1, <2>1, ReposCallChanges
<1>5. ReposWork' /\ (ReposNoTwo => ReposNoTwo')
  BY <1>2, <1>4, ReposGoesOn
<1>6. ReposPage'
  BY <1>2, <1>3 DEF ReposPage
<1>7. ReposAnswers => ReposAnswers'
  BY <1>2, <1>4 DEF ReposAnswers
<1>8. ASSUME ReposShown PROVE ReposShown'
  <2> SUFFICES ASSUME ~reposDemo', \A d \in reposCalls' : d.kind # "load", NEW r \in Repo
               PROVE  (r \in shown' <=> r \in connectedTo') \/ \E d \in reposCalls' : d.state = "done" /\ d.repo = r
    BY DEF ReposShown
  <2>1. c.state = "sent" /\ ~reposDemo
    BY <1>2
  <2>2. \A d \in reposCalls : d.kind # "load"
    BY <1>2, <1>4
  <2>3. (r \in shown <=> r \in connectedTo) \/ \E d \in reposCalls : d.state = "done" /\ d.repo = r
    BY <1>8, <2>1, <2>2 DEF ReposShown
  <2>4. (\E d \in reposCalls : d.state = "done" /\ d.repo = r) => \E d \in reposCalls' : d.state = "done" /\ d.repo = r
    BY <1>2, <2>1
  <2>5. QED
    BY <1>2, <2>3, <2>4
<1>9. QED
  BY <1>2, <1>3, <1>5, <1>6, <1>7, <1>8, ReposPartsAfter

\* The list of an answer replaces the one shown.
LEMMA ReposLoads ==
  ASSUME ReposInv, NEW c \in reposCalls, Repos!LoadAnswered(c)
  PROVE  ReposInv'
<1>1. /\ c.kind = "load" /\ c.state # "sent" /\ reposCalls' = reposCalls \ {c}
      /\ \/ c.state = "done" /\ shown' = c.found
         \/ c.state = "refused" /\ shown' = shown
         \/ c.state = "refused" /\ shown' = ReposDemo
      /\ reposDemo' = (c.state = "refused") /\ reposLoading' = FALSE
      /\ UNCHANGED <<connectedTo, open, busyId, syncingId, syncing, reposSent, reposOverlapped>>
  BY DEF Repos!LoadAnswered, Repos!Answered
<1>2. ReposPage /\ ReposWork /\ (~reposOverlapped => ReposNoTwo /\ ReposAnswers /\ ReposShown)
  BY ReposParts
<1>3. c \in ReposCall
  BY <1>2 DEF ReposWork
<1>4. c.repo = None /\ c.found \subseteq Repo
  BY <1>1, <1>3, ReposCallFacts
<1>5. ReposPage'
  <2>1. shown' \subseteq Repo
    BY <1>1, <1>2, <1>4, RepositoriesAssumption DEF ReposPage
  <2>2. reposDemo' \in BOOLEAN
    BY <1>1
  <2>3. QED
    BY <1>1, <1>2, <2>1, <2>2 DEF ReposPage
<1>6. ReposWork'
  BY <1>1, <1>2, <1>4 DEF ReposWork
<1>7. ~reposOverlapped' => ReposNoTwo' /\ ReposAnswers' /\ ReposShown'
  <2> SUFFICES ASSUME ~reposOverlapped' PROVE ReposNoTwo' /\ ReposAnswers' /\ ReposShown'
    OBVIOUS
  <2>1. ReposNoTwo /\ ReposAnswers
    BY <1>1, <1>2
  <2>2. ReposNoTwo'
    BY <1>1, <2>1 DEF ReposNoTwo
  <2>3. ReposAnswers'
    BY <1>1, <2>1 DEF ReposAnswers
  <2>4. ~reposDemo' => shown' = connectedTo'
    BY <1>1, <2>1 DEF ReposAnswers
  <2>5. ReposShown'
    BY <2>4 DEF ReposShown
  <2>6. QED
    BY <2>2, <2>3, <2>5
<1>8. QED
  BY <1>5, <1>6, <1>7, ReposPartsAfter

\* A row is added or taken away when the server has answered.
LEMMA ReposChanges ==
  ASSUME ReposInv, NEW c \in reposCalls, Repos!ChangeAnswered(c)
  PROVE  ReposInv'
<1>1. /\ c.kind \in {"connect", "disconnect"} /\ c.state # "sent" /\ reposCalls' = reposCalls \ {c}
      /\ shown' = Repos!Shown(c) /\ busyId' = None
      /\ UNCHANGED <<connectedTo, open, reposLoading, syncingId, syncing, reposSent, reposDemo, reposOverlapped>>
  BY DEF Repos!ChangeAnswered, Repos!Answered
<1>2. ReposPage /\ ReposWork /\ (~reposOverlapped => ReposNoTwo /\ ReposAnswers /\ ReposShown)
  BY ReposParts
<1>3. /\ c.state # "done" => shown' = shown
      /\ c.state = "done" /\ c.kind = "connect" => shown' = shown \cup {c.repo}
      /\ c.state = "done" /\ c.kind # "connect" => shown' = shown \ {c.repo}
  BY <1>1 DEF Repos!Shown
<1>4. c.repo \in Repo
  <2>1. c \in ReposCall
    BY <1>2 DEF ReposWork
  <2>2. QED
    BY <1>1, <2>1, ReposCallFacts
<1>5. ReposPage'
  <2>1. shown' \subseteq Repo
    BY <1>2, <1>3, <1>4 DEF ReposPage
  <2>2. QED
    BY <1>1, <1>2, <2>1 DEF ReposPage
<1>6. ReposWork'
  BY <1>1, <1>2 DEF ReposWork
<1>7. ~reposOverlapped' => ReposNoTwo' /\ ReposAnswers' /\ ReposShown'
  <2> SUFFICES ASSUME ~reposOverlapped' PROVE ReposNoTwo' /\ ReposAnswers' /\ ReposShown'
    OBVIOUS
  <2>1. ReposNoTwo /\ ReposAnswers /\ ReposShown
    BY <1>1, <1>2
  <2>2. ReposNoTwo'
    BY <1>1, <2>1 DEF ReposNoTwo
  <2>3. ReposAnswers'
    BY <1>1, <2>1 DEF ReposAnswers
  <2>4. \A d \in reposCalls : d # c => d.kind # "load" /\ d.repo # c.repo
    BY <2>1 DEF ReposNoTwo, Repos!Contradict
  <2>5. ReposShown'
    <3> SUFFICES ASSUME ~reposDemo', NEW r \in Repo
                 PROVE  (r \in shown' <=> r \in connectedTo') \/ \E d \in reposCalls' : d.state = "done" /\ d.repo = r
      BY DEF ReposShown
    <3>1. (r \in shown <=> r \in connectedTo) \/ \E d \in reposCalls : d.state = "done" /\ d.repo = r
      <4>1. ~reposDemo /\ \A d \in reposCalls : d.kind # "load"
        BY <1>1, <2>4
      <4>2. QED
        BY <2>1, <4>1 DEF ReposShown
    <3>2. CASE r # c.repo
      <4>1. r \in shown' <=> r \in shown
        BY <1>3, <3>2
      <4>2. (\E d \in reposCalls : d.state = "done" /\ d.repo = r) => \E d \in reposCalls' : d.state = "done" /\ d.repo = r
        BY <1>1, <3>2
      <4>3. QED
        BY <1>1, <3>1, <4>1, <4>2
    <3>3. CASE r = c.repo /\ c.state = "done"
      <4>1. c.kind = "connect" <=> r \in connectedTo
        BY <1>1, <2>1, <3>3 DEF ReposAnswers
      <4>2. c.kind = "connect" <=> r \in shown'
        BY <1>3, <3>3
      <4>3. QED
        BY <1>1, <4>1, <4>2
    <3>4. CASE r = c.repo /\ c.state # "done"
      BY <1>1, <1>3, <2>4, <3>1, <3>4
    <3>5. QED
      BY <3>2, <3>3, <3>4
  <2>6. QED
    BY <2>2, <2>3, <2>5
<1>8. QED
  BY <1>5, <1>6, <1>7, ReposPartsAfter

\* A sync, which asks nobody.
LEMMA ReposSyncs ==
  ASSUME ReposInv, UNCHANGED <<connectedTo, open, shown, reposLoading, busyId, reposCalls, reposDemo, reposOverlapped>>,
         NEW r \in Repo, Repos!HandleSync(r) \/ Repos!SyncTimer(r)
  PROVE  ReposInv'
<1>1. ReposPage /\ ReposWork /\ (~reposOverlapped => ReposNoTwo /\ ReposAnswers /\ ReposShown) /\ MaxCalls \in Nat
  BY ReposParts, RepositoriesAssumption
<1>2. PICK n : n = syncing[r]
  OBVIOUS
<1>3. n \in Nat /\ n <= reposSent /\ reposSent \in Nat /\ reposSent <= MaxCalls
  BY <1>1, <1>2 DEF ReposPage
<1>4. CASE Repos!HandleSync(r)
  <2>1. reposSent < MaxCalls /\ reposSent' = reposSent + 1 /\ syncingId' = r /\ syncing' = [syncing EXCEPT ![r] = n + 1]
    <3>1. /\ reposSent < MaxCalls /\ reposSent' = reposSent + 1
          /\ syncingId' = r /\ syncing' = [syncing EXCEPT ![r] = syncing[r] + 1]
      BY <1>4, Zenon DEF Repos!HandleSync
    <3>2. QED
      BY <1>2, <3>1
  <2>2. n + 1 \in 0 .. MaxCalls
    BY <1>1, <1>3, <2>1
  <2>3. syncing' \in [Repo -> 0 .. MaxCalls] /\ syncing'[r] = n + 1 /\ \A s \in Repo : s # r => syncing'[s] = syncing[s]
    BY <1>1, <2>1, <2>2 DEF ReposPage
  <2>4. \A s \in Repo : syncing'[s] <= reposSent'
    BY <1>1, <1>3, <2>1, <2>3 DEF ReposPage
  <2>5. syncing'[r] > 0
    BY <1>3, <2>3
  <2>6. ReposPage'
    BY <1>1, <1>3, <2>1, <2>3, <2>4, <2>5 DEF ReposPage
  <2>7. ReposWork' /\ (~reposOverlapped' => ReposNoTwo' /\ ReposAnswers' /\ ReposShown')
    BY <1>1 DEF ReposWork, ReposNoTwo, ReposAnswers, ReposShown
  <2>8. QED
    BY <2>6, <2>7, ReposPartsAfter
<1>5. CASE Repos!SyncTimer(r)
  <2>1. n > 0 /\ reposSent' = reposSent /\ syncingId' = None /\ syncing' = [syncing EXCEPT ![r] = n - 1]
    BY <1>2, <1>5 DEF Repos!SyncTimer
  <2>2. n - 1 \in 0 .. MaxCalls
    BY <1>1, <1>3, <2>1
  <2>3. syncing' \in [Repo -> 0 .. MaxCalls] /\ syncing'[r] = n - 1 /\ \A s \in Repo : s # r => syncing'[s] = syncing[s]
    BY <1>1, <2>1, <2>2 DEF ReposPage
  <2>4. \A s \in Repo : syncing'[s] <= reposSent'
    BY <1>1, <1>3, <2>1, <2>3 DEF ReposPage
  <2>5. ReposPage'
    BY <1>1, <1>3, <2>1, <2>3, <2>4 DEF ReposPage
  <2>6. ReposWork' /\ (~reposOverlapped' => ReposNoTwo' /\ ReposAnswers' /\ ReposShown')
    BY <1>1 DEF ReposWork, ReposNoTwo, ReposAnswers, ReposShown
  <2>7. QED
    BY <2>5, <2>6, ReposPartsAfter
<1>6. QED
  BY <1>4, <1>5

LEMMA ReposStep == ReposInv /\ Repos!Next => ReposInv'
<1> SUFFICES ASSUME ReposInv, Repos!Next PROVE ReposInv'
  OBVIOUS
<1>1. ASSUME Repos!LoadData \/ Repos!HandleConnectOAuth PROVE ReposInv'
  <2>1. /\ Repos!SendCall("load", None) /\ reposLoading' = TRUE
        /\ UNCHANGED <<connectedTo, shown, open, syncingId, syncing, reposDemo, busyId>>
    <3>1. CASE Repos!LoadData
      BY <3>1 DEF Repos!LoadData
    <3>2. CASE Repos!HandleConnectOAuth
      BY <3>2 DEF Repos!HandleConnectOAuth
    <3>3. QED
      BY <1>1, <3>1, <3>2
  <2>2. QED
    BY <2>1, ReposSends
<1>2. ASSUME NEW r \in Repo, Repos!HandleDisconnect(r) PROVE ReposInv'
  <2>1. /\ Repos!SendCall("disconnect", r) /\ busyId' = r
        /\ UNCHANGED <<connectedTo, shown, open, reposLoading, syncingId, syncing, reposDemo>>
    BY <1>2 DEF Repos!HandleDisconnect
  <2>2. QED
    BY <2>1, ReposSends
<1>3. ASSUME NEW r \in Repo, Repos!HandleConnectRepo(r) PROVE ReposInv'
  <2>1. /\ Repos!SendCall("connect", r) /\ busyId' = r
        /\ UNCHANGED <<connectedTo, shown, open, reposLoading, syncingId, syncing, reposDemo>>
    BY <1>3 DEF Repos!HandleConnectRepo
  <2>2. QED
    BY <2>1, ReposSends
<1>4. ASSUME NEW r \in Repo, Repos!HandleSync(r) \/ Repos!SyncTimer(r) PROVE ReposInv'
  <2>1. UNCHANGED <<connectedTo, open, shown, reposLoading, busyId, reposCalls, reposDemo, reposOverlapped>>
    BY <1>4 DEF Repos!HandleSync, Repos!SyncTimer
  <2>2. QED
    BY <1>4, <2>1, ReposSyncs
<1>5. QED
  BY <1>1, <1>2, <1>3, <1>4, ReposHandles, ReposRefuses, ReposLoads, ReposChanges DEF Repos!Next

LEMMA ReposKept == ReposInv /\ UNCHANGED repositoriesVars => ReposInv'
<1> SUFFICES ASSUME ReposInv, UNCHANGED repositoriesVars PROVE ReposInv'
  OBVIOUS
<1>1. UNCHANGED <<connectedTo, open, shown, reposLoading, busyId, syncingId, syncing, reposCalls, reposSent,
                  reposDemo, reposOverlapped>>
  BY DEF repositoriesVars
<1>2. /\ ReposPage' /\ ReposWork' /\ (~reposOverlapped' => ReposNoTwo' /\ ReposAnswers' /\ ReposShown')
  BY <1>1, ReposParts DEF ReposPage, ReposWork, ReposNoTwo, ReposAnswers, ReposShown
<1>3. QED
  BY <1>2, ReposPartsAfter

LEMMA ReposPromises == ReposInv => Repos!NothingHangs /\ Repos!PageShowsTheServer
<1> SUFFICES ASSUME ReposInv PROVE Repos!NothingHangs /\ Repos!PageShowsTheServer
  OBVIOUS
<1>1. connectedTo \subseteq Repo /\ shown \subseteq Repo
  BY ReposParts DEF ReposPage
<1>2. reposCalls = {} /\ ~reposDemo /\ ~reposOverlapped => shown = connectedTo
  BY <1>1, ReposParts DEF ReposShown
<1>3. QED
  BY <1>2 DEF ReposInv, Repos!PageShowsTheServer
-----------------------------------------------------------------------------
(***************************************************************************)
(* The page of a repository                                                *)
(***************************************************************************)
\* While nothing was refused or overlapped: one load at a time, and what a page
\* at rest shows is what the server has.
RepoApart ==
  /\ \A l, m \in repoLoads : l = m
  /\ \A l \in repoLoads : l.stage = "rest" => repository = "server"
  /\ repoLoads = {} /\ ingestion \in {"idle", "asking"} =>
       /\ repository = "server" /\ latestJob = job
       /\ symbols.from = "server" /\ (indexed = job => symbols.index = indexed)
\* The promises of the page, with what holds while nothing overlapped.
RepoInv ==
  /\ RepoPg!TypeOK /\ RepoPg!NothingHangs
  /\ \A l, m \in repoLoads : l.why = "ingestion" /\ m.why = "ingestion" => l = m
  /\ ingestion = "asking" => job < MaxJobs
  /\ ~troubled => RepoApart
RepoLoad == [n : 1 .. RepositoryLoads, stage : {"details", "rest"}, why : {"effect", "ingestion"}]

\* The parts of the invariant: what is shown, and what is under way.
RepoShown ==
  /\ job \in 0 .. MaxJobs /\ indexed \in 0 .. job /\ latestJob \in 0 .. job
  /\ repository \in {"none", "server", "demo"}
  /\ symbols \in [from : {"none", "server", "demo"}, index : 0 .. MaxJobs]
RepoWork ==
  /\ repoLoading \in BOOLEAN /\ isIngesting \in BOOLEAN /\ troubled \in BOOLEAN
  /\ ingestion \in {"idle", "asking", "timer", "reloading"} /\ started \in 1 .. RepositoryLoads
  /\ repoLoads \subseteq RepoLoad
  /\ repoLoading => repoLoads # {}
  /\ isIngesting <=> ingestion # "idle"
  /\ ingestion = "reloading" <=> \E l \in repoLoads : l.why = "ingestion"
  /\ \A l, m \in repoLoads : l.why = "ingestion" /\ m.why = "ingestion" => l = m
  /\ ingestion = "asking" => job < MaxJobs

\* The invariant in three parts: what is shown, what is under way, and what
\* holds while nothing overlapped.
LEMMA RepoParts == RepoInv <=> RepoShown /\ RepoWork /\ (~troubled => RepoApart)
BY DEF RepoInv, RepoShown, RepoWork, RepoLoad, RepoPg!TypeOK, RepoPg!NothingHangs

LEMMA RepoPartsAfter == RepoInv' <=> RepoShown' /\ RepoWork' /\ (~troubled' => RepoApart')
BY DEF RepoInv, RepoShown, RepoWork, RepoLoad, RepoPg!TypeOK, RepoPg!NothingHangs

LEMMA RepoInit == RepoPg!Init => RepoInv
<1> SUFFICES ASSUME RepoPg!Init PROVE RepoInv
  OBVIOUS
<1>1. PICK first : first = [n |-> 1, stage |-> "details", why |-> "effect"]
  OBVIOUS
<1>2. /\ job = 0 /\ indexed = 0 /\ repository = "none" /\ symbols = [from |-> "none", index |-> 0] /\ latestJob = 0
      /\ repoLoading = TRUE /\ isIngesting = FALSE /\ repoLoads = {first} /\ started = 1
      /\ ingestion = "idle" /\ troubled = FALSE
  BY <1>1, Zenon DEF RepoPg!Init, RepoPg!Nothing
<1>3. first \in RepoLoad /\ first.why = "effect" /\ first.stage = "details"
  BY <1>1 DEF RepoLoad, RepositoryLoads
<1>4. RepoShown
  BY <1>2, RepositoriesAssumption DEF RepoShown
<1>5. RepoWork
  <2>1. /\ repoLoads \subseteq RepoLoad /\ repoLoads # {} /\ ~\E l \in repoLoads : l.why = "ingestion"
        /\ \A l, m \in repoLoads : l = m
    BY <1>2, <1>3
  <2>2. started \in 1 .. RepositoryLoads
    BY <1>2 DEF RepositoryLoads
  <2>3. QED
    BY <1>2, <2>1, <2>2 DEF RepoWork
<1>6. RepoApart
  BY <1>2, <1>3 DEF RepoApart
<1>7. QED
  BY <1>4, <1>5, <1>6, RepoParts

\* A load begins, of the page or of an ingestion whose timer has ended.
LEMMA RepoBegins ==
  ASSUME RepoInv, NEW why \in {"effect", "ingestion"}, RepoPg!Begin(why),
         UNCHANGED <<job, indexed, repository, symbols, latestJob, isIngesting>>,
         \/ why = "effect" /\ ingestion' = ingestion
         \/ why = "ingestion" /\ ingestion = "timer" /\ ingestion' = "reloading"
  PROVE  RepoInv'
<1>1. PICK new : new = RepoPg!Load(why)
  OBVIOUS
<1>2. /\ started < RepositoryLoads /\ repoLoads' = repoLoads \cup {new} /\ started' = started + 1
      /\ repoLoading' = TRUE /\ troubled' = (troubled \/ repoLoads # {})
  BY <1>1, Zenon DEF RepoPg!Begin
<1>3. RepoShown /\ RepoWork /\ (~troubled => RepoApart)
  BY RepoParts
<1>4. new \in RepoLoad /\ new.why = why /\ new.stage = "details"
  BY <1>1, <1>2, <1>3 DEF RepoPg!Load, RepoLoad, RepoWork, RepositoryLoads
<1>5. RepoShown'
  BY <1>3 DEF RepoShown
<1>6. RepoWork'
  BY <1>2, <1>3, <1>4 DEF RepoWork, RepositoryLoads
<1>7. ~troubled' => RepoApart'
  BY <1>2, <1>3, <1>4 DEF RepoApart
<1>8. QED
  BY <1>5, <1>6, <1>7, RepoPartsAfter

\* The details arrived, and the rest is asked for.
LEMMA RepoDetails ==
  ASSUME RepoInv, NEW l \in repoLoads, RepoPg!DetailsAnswered(l)
  PROVE  RepoInv'
<1>1. PICK new : new = [l EXCEPT !.stage = "rest"]
  OBVIOUS
<1>2. PICK ok \in BOOLEAN : repository' = (IF ok THEN "server" ELSE repository) /\ troubled' = (troubled \/ ~ok)
  BY Zenon DEF RepoPg!DetailsAnswered
<1>3. /\ repoLoads' = (repoLoads \ {l}) \cup {new}
      /\ UNCHANGED <<job, indexed, symbols, latestJob, repoLoading, isIngesting, started, ingestion>>
  BY <1>1, Zenon DEF RepoPg!DetailsAnswered
<1>4. RepoShown /\ RepoWork /\ (~troubled => RepoApart)
  BY RepoParts
<1>5. new \in RepoLoad /\ new.why = l.why /\ new.stage = "rest"
  <2>1. l \in RepoLoad
    BY <1>4 DEF RepoWork
  <2>2. QED
    BY <1>1, <2>1 DEF RepoLoad
<1>6. RepoShown'
  BY <1>2, <1>3, <1>4 DEF RepoShown
<1>7. RepoWork'
  <2>1. repoLoads' \subseteq RepoLoad /\ repoLoads' # {}
    BY <1>3, <1>4, <1>5 DEF RepoWork
  <2>2. (\E m \in repoLoads' : m.why = "ingestion") <=> \E m \in repoLoads : m.why = "ingestion"
    BY <1>3, <1>5
  <2>3. \A m, k \in repoLoads' : m.why = "ingestion" /\ k.why = "ingestion" => m = k
    BY <1>3, <1>4, <1>5 DEF RepoWork
  <2>4. troubled' \in BOOLEAN
    BY <1>2, <1>4
  <2>5. QED
    BY <1>3, <1>4, <2>1, <2>2, <2>3, <2>4 DEF RepoWork
<1>8. ~troubled' => RepoApart'
  BY <1>2, <1>3, <1>4, <1>5 DEF RepoApart
<1>9. QED
  BY <1>6, <1>7, <1>8, RepoPartsAfter

\* The end of a load.
LEMMA RepoOver ==
  ASSUME RepoInv, NEW l \in repoLoads, RepoPg!Over(l), started' = started, job' = job, troubled' \in BOOLEAN
  PROVE  RepoWork' /\ repoLoads' = repoLoads \ {l}
<1>1. /\ repoLoads' = repoLoads \ {l} /\ repoLoading' = FALSE
      /\ l.why = "ingestion" => isIngesting' = FALSE /\ ingestion' = "idle"
      /\ l.why # "ingestion" => isIngesting' = isIngesting /\ ingestion' = ingestion
  BY DEF RepoPg!Over
<1>2. RepoWork
  BY RepoParts
<1>3. CASE l.why = "ingestion"
  <2>1. ~\E m \in repoLoads' : m.why = "ingestion"
    BY <1>1, <1>2, <1>3 DEF RepoWork
  <2>2. QED
    BY <1>1, <1>2, <1>3, <2>1 DEF RepoWork
<1>4. CASE l.why # "ingestion"
  <2>1. (\E m \in repoLoads' : m.why = "ingestion") <=> \E m \in repoLoads : m.why = "ingestion"
    BY <1>1, <1>4
  <2>2. /\ \A m, k \in repoLoads' : m.why = "ingestion" /\ k.why = "ingestion" => m = k
        /\ repoLoads' \subseteq RepoLoad
    BY <1>1, <1>2 DEF RepoWork
  <2>3. isIngesting' = isIngesting /\ ingestion' = ingestion /\ repoLoading' = FALSE
    BY <1>1, <1>4
  <2>4. QED
    BY <1>1, <1>2, <2>1, <2>2, <2>3 DEF RepoWork
<1>5. QED
  BY <1>3, <1>4

\* The rest arrived: what was answered well is as on the server.
LEMMA RepoRest ==
  ASSUME RepoInv, NEW l \in repoLoads, RepoPg!RestAnswered(l)
  PROVE  RepoInv'
<1>1. PICK fresh : fresh = [from |-> "server", index |-> indexed]
  OBVIOUS
<1>2. PICK statusOk, symbolsOk \in BOOLEAN :
        /\ latestJob' = (IF statusOk THEN job ELSE latestJob)
        /\ symbols' = (IF symbolsOk THEN fresh ELSE symbols)
        /\ troubled' = (troubled \/ ~statusOk \/ ~symbolsOk)
  BY <1>1, Zenon DEF RepoPg!RestAnswered
<1>3. l.stage = "rest" /\ RepoPg!Over(l) /\ UNCHANGED <<job, indexed, repository, started>>
  BY Zenon DEF RepoPg!RestAnswered
<1>4. RepoShown /\ RepoWork /\ (~troubled => RepoApart)
  BY RepoParts
<1>5. RepoWork' /\ repoLoads' = repoLoads \ {l}
  <2>1. troubled' \in BOOLEAN
    BY <1>2, <1>4 DEF RepoWork
  <2>2. QED
    BY <1>3, <2>1, RepoOver
<1>6. fresh \in [from : {"none", "server", "demo"}, index : 0 .. MaxJobs] /\ fresh.from = "server" /\ fresh.index = indexed
  <2>1. indexed \in 0 .. MaxJobs
    BY <1>4, RepositoriesAssumption DEF RepoShown
  <2>2. QED
    BY <1>1, <2>1
<1>7. RepoShown'
  <2>1. job \in 0 .. job
    BY <1>4, RepositoriesAssumption DEF RepoShown
  <2>2. QED
    BY <1>2, <1>3, <1>4, <1>6, <2>1 DEF RepoShown
<1>8. ~troubled' => RepoApart'
  <2> SUFFICES ASSUME ~troubled' PROVE RepoApart'
    OBVIOUS
  <2>1. ~troubled /\ statusOk /\ symbolsOk
    BY <1>2
  <2>2. RepoApart
    BY <1>4, <2>1
  <2>3. repoLoads' = {} /\ repository' = "server"
    BY <1>3, <1>5, <2>2 DEF RepoApart
  <2>4. latestJob' = job' /\ symbols'.from = "server" /\ symbols'.index = indexed'
    BY <1>2, <1>3, <1>6, <2>1
  <2>5. QED
    BY <2>3, <2>4 DEF RepoApart
<1>9. QED
  BY <1>5, <1>7, <1>8, RepoPartsAfter

\* A load failed: most of what the page shows is made up then.
LEMMA RepoFails ==
  ASSUME RepoInv, NEW l \in repoLoads, RepoPg!LoadFails(l)
  PROVE  RepoInv'
<1>1. /\ repository' = "demo" /\ symbols' = [from |-> "demo", index |-> 0] /\ troubled' = TRUE /\ RepoPg!Over(l)
      /\ UNCHANGED <<job, indexed, latestJob, started>>
  BY DEF RepoPg!LoadFails, RepoPg!DemoSymbols
<1>2. RepoShown
  BY RepoParts
<1>3. RepoWork'
  BY <1>1, RepoOver
<1>4. RepoShown'
  BY <1>1, <1>2, RepositoriesAssumption DEF RepoShown
<1>5. QED
  BY <1>1, <1>3, <1>4, RepoPartsAfter

LEMMA RepoStep == RepoInv /\ RepoPg!Next => RepoInv'
<1> SUFFICES ASSUME RepoInv, RepoPg!Next PROVE RepoInv'
  OBVIOUS
<1>1. RepoShown /\ RepoWork /\ (~troubled => RepoApart)
  BY RepoParts
<1>2. MaxJobs \in Nat /\ job \in Nat /\ indexed \in Nat /\ job <= MaxJobs /\ indexed <= job
  BY <1>1, RepositoriesAssumption DEF RepoShown
<1>3. CASE RepoPg!Reload
  <2>1. /\ RepoPg!Begin("effect") /\ ingestion' = ingestion
        /\ UNCHANGED <<job, indexed, repository, symbols, latestJob, isIngesting>>
    BY <1>3 DEF RepoPg!Reload, RepoPg!shownVars
  <2>2. QED
    BY <2>1, RepoBegins
<1>4. CASE RepoPg!IngestionDone
  <2>1. /\ indexed' = job /\ troubled' = (troubled \/ repoLoads # {} \/ ingestion # "timer")
        /\ UNCHANGED <<job, repository, symbols, latestJob, repoLoading, isIngesting, repoLoads, started, ingestion>>
    BY <1>4 DEF RepoPg!IngestionDone, RepoPg!shownVars
  <2>2. RepoShown'
    BY <1>1, <1>2, <2>1 DEF RepoShown
  <2>3. RepoWork'
    BY <1>1, <2>1 DEF RepoWork
  <2>4. ~troubled' => RepoApart'
    BY <2>1 DEF RepoApart
  <2>5. QED
    BY <2>2, <2>3, <2>4, RepoPartsAfter
<1>5. CASE RepoPg!HandleTriggerIngestion
  <2>1. /\ ~isIngesting /\ job < MaxJobs /\ isIngesting' = TRUE /\ ingestion' = "asking"
        /\ UNCHANGED <<job, indexed, repository, symbols, latestJob, repoLoading, repoLoads, started, troubled>>
    BY <1>5 DEF RepoPg!HandleTriggerIngestion, RepoPg!shownVars
  <2>2. RepoShown'
    BY <1>1, <2>1 DEF RepoShown
  <2>3. RepoWork' /\ ingestion = "idle"
    BY <1>1, <2>1 DEF RepoWork
  <2>4. ~troubled' => RepoApart'
    BY <1>1, <2>1, <2>3 DEF RepoApart
  <2>5. QED
    BY <2>2, <2>3, <2>4, RepoPartsAfter
<1>6. CASE RepoPg!TriggerAnswered
  <2>1. /\ ingestion = "asking" /\ job' = job + 1 /\ latestJob' = job' /\ ingestion' = "timer"
        /\ troubled' = (troubled \/ repoLoads # {})
        /\ UNCHANGED <<indexed, repository, symbols, repoLoading, isIngesting, repoLoads, started>>
    BY <1>6 DEF RepoPg!TriggerAnswered
  <2>2. job < MaxJobs
    BY <1>1, <2>1 DEF RepoWork
  <2>3. RepoShown'
    BY <1>1, <1>2, <2>1, <2>2 DEF RepoShown
  <2>4. RepoWork'
    BY <1>1, <2>1 DEF RepoWork
  <2>5. ~troubled' => RepoApart'
    BY <2>1 DEF RepoApart
  <2>6. QED
    BY <2>3, <2>4, <2>5, RepoPartsAfter
<1>7. CASE RepoPg!TriggerRefused
  <2>1. /\ ingestion = "asking" /\ ingestion' = "idle" /\ isIngesting' = FALSE
        /\ UNCHANGED <<job, indexed, repository, symbols, latestJob, repoLoading, repoLoads, started, troubled>>
    BY <1>7 DEF RepoPg!TriggerRefused, RepoPg!shownVars
  <2>2. RepoShown'
    BY <1>1, <2>1 DEF RepoShown
  <2>3. RepoWork'
    BY <1>1, <2>1 DEF RepoWork
  <2>4. ~troubled' => RepoApart'
    BY <1>1, <2>1 DEF RepoApart
  <2>5. QED
    BY <2>2, <2>3, <2>4, RepoPartsAfter
<1>8. CASE RepoPg!ReloadTimer
  <2>1. /\ ingestion = "timer" /\ RepoPg!Begin("ingestion") /\ ingestion' = "reloading"
        /\ UNCHANGED <<job, indexed, repository, symbols, latestJob, isIngesting>>
    BY <1>8 DEF RepoPg!ReloadTimer, RepoPg!shownVars
  <2>2. QED
    BY <2>1, RepoBegins
<1>9. QED
  BY <1>3, <1>4, <1>5, <1>6, <1>7, <1>8, RepoDetails, RepoRest, RepoFails DEF RepoPg!Next

LEMMA RepoKept == RepoInv /\ UNCHANGED repositoryVars => RepoInv'
<1> SUFFICES ASSUME RepoInv, UNCHANGED repositoryVars PROVE RepoInv'
  OBVIOUS
<1>1. UNCHANGED <<job, indexed, repository, symbols, latestJob, repoLoading, isIngesting, repoLoads, started,
                  ingestion, troubled>>
  BY DEF repositoryVars
<1>2. RepoShown' /\ RepoWork' /\ (~troubled' => RepoApart')
  BY <1>1, RepoParts DEF RepoShown, RepoWork, RepoApart
<1>3. QED
  BY <1>2, RepoPartsAfter

LEMMA RepoPromises == RepoInv => RepoPg!NothingHangs /\ RepoPg!PageShowsTheIndex
BY DEF RepoInv, RepoApart, RepoPg!PageShowsTheIndex
-----------------------------------------------------------------------------
(***************************************************************************)
(* The documents                                                           *)
(***************************************************************************)
\* A comment, and an entry of the activity feed.
Comment == [doc : NewId \cup {"doc_arch_01", "doc_sec_02"}, mentions : Seq(Name)]
Entry == {"VIEWED_FILE", "REVIEWED_PR", "EDITED_DOC", "GENERATED_TESTS", "POSTED_COMMENT"}
\* The lists of the page never lose what they began with.
EditorInv ==
  /\ Editor!TypeOK /\ Editor!EditsAndMentionsKept
  /\ comments \in Seq(Comment) /\ Len(comments) >= 2
  /\ activityFeed \in Seq(Entry) /\ notices \in Seq(Name \cup {"you"}) /\ edits \in Nat
\* told[n] is who was told of the comments up to the n-th.
Told(list, told) ==
  told = [n \in 2 .. Len(list) |-> IF n = 2 THEN <<"you">> ELSE list[n].mentions \o told[n - 1]]

NotifiedOf(list) ==
  LET sofar[n \in 2 .. Len(list)] == IF n = 2 THEN <<"you">> ELSE list[n].mentions \o sofar[n - 1]
  IN sofar[Len(list)]

\* Whom the comments told depends on the comments only.
LEMMA NotifiedIs == Editor!Notified = NotifiedOf(comments) /\ Editor!Notified' = NotifiedOf(comments')
BY Zenon DEF Editor!Notified, NotifiedOf

ToldByStep(list, told) ==
  told[2] = <<"you">> /\ \A i \in 3 .. Len(list) : told[i] = list[i].mentions \o told[i - 1]

LEMMA ToldStep ==
  ASSUME NEW list, Len(list) \in Nat, Len(list) >= 2, NEW told, Told(list, told)
  PROVE  ToldByStep(list, told)
<1>1. PICK n : n = Len(list)
  OBVIOUS
<1>2. \A i \in 2 .. n : told[i] = IF i = 2 THEN <<"you">> ELSE list[i].mentions \o told[i - 1]
  BY <1>1, Zenon DEF Told
<1>3. 2 \in 2 .. n /\ \A i \in 3 .. n : i \in 2 .. n /\ i # 2
  BY <1>1
<1>4. told[2] = <<"you">> /\ \A i \in 3 .. n : told[i] = list[i].mentions \o told[i - 1]
  BY <1>2, <1>3
<1>5. QED
  BY <1>1, <1>4, Zenon DEF ToldByStep

\* The notifications of the comments, one comment after another.
LEMMA ToldExists ==
  ASSUME NEW list \in Seq(Comment), Len(list) >= 2
  PROVE  \E told : Told(list, told) /\ NotifiedOf(list) = told[Len(list)]
<1>1. PICK T : T = Seq(Name \cup {"you"})
  OBVIOUS
<1>2. PICK n : n = Len(list)
  OBVIOUS
<1>3. n \in Nat /\ n >= 2 /\ n - 2 \in Nat /\ \A i \in 1 .. n : list[i] \in Comment
  BY <1>2
<1>4. <<"you">> \in T
  BY <1>1
<1>5. ASSUME NEW i \in 1 .. n - 2, NEW told \in T PROVE list[i + 2].mentions \o told \in T
  <2>1. i + 2 \in 1 .. n
    BY <1>3
  <2>2. list[i + 2].mentions \in Seq(Name)
    BY <1>3, <2>1 DEF Comment
  <2>3. list[i + 2].mentions \in T
    BY <1>1, <2>2
  <2>4. QED
    BY <1>1, <2>3
<1>6. PICK next : next = [x \in (1 .. n - 2) \X T |-> list[x[1] + 2].mentions \o x[2]]
  OBVIOUS
<1>7. next \in [(1 .. n - 2) \X T -> T]
  <2>1. ASSUME NEW x \in (1 .. n - 2) \X T PROVE list[x[1] + 2].mentions \o x[2] \in T
    <3>1. x[1] \in 1 .. n - 2 /\ x[2] \in T
      OBVIOUS
    <3>2. QED
      BY <1>5, <3>1
  <2>2. QED
    BY <1>6, <2>1
<1>8. \A i \in 1 .. n - 2 : \A told \in T : next[<<i, told>>] = list[i + 2].mentions \o told
  BY <1>6
<1>9. PICK f \in [0 .. n - 2 -> T] : f[0] = <<"you">> /\ \A i \in 1 .. n - 2 : f[i] = next[<<i, f[i - 1]>>]
  <2>1. n - 2 \in Nat
    BY <1>3
  <2>2. \E f : Recursion(f, T, <<"you">>, n - 2, next)
    BY <1>4, <1>7, <2>1, RecursionExists
  <2>3. QED
    BY <2>2, Zenon DEF Recursion
<1>10. PICK told : told = [i \in 2 .. n |-> f[i - 2]]
  OBVIOUS
<1>11. \A i \in 2 .. n : told[i] = IF i = 2 THEN <<"you">> ELSE list[i].mentions \o told[i - 1]
  <2> TAKE i \in 2 .. n
  <2>1. CASE i = 2
    <3>1. told[i] = f[0]
      BY <1>10, <2>1
    <3>2. QED
      BY <1>9, <2>1, <3>1
  <2>2. CASE i # 2
    <3>1. i - 2 \in 1 .. n - 2 /\ i - 1 \in 2 .. n /\ (i - 2) - 1 = (i - 1) - 2 /\ (i - 2) + 2 = i
          /\ (i - 2) - 1 \in 0 .. n - 2
      BY <1>3, <2>2
    <3>2. told[i] = f[i - 2] /\ told[i - 1] = f[(i - 2) - 1] /\ told[i - 1] \in T
      BY <1>9, <1>10, <3>1
    <3>3. f[i - 2] = next[<<i - 2, f[(i - 2) - 1]>>]
      BY <1>9, <3>1
    <3>4. QED
      BY <1>8, <2>2, <3>1, <3>2, <3>3
  <2>3. QED
    BY <2>1, <2>2
<1>12. told = [i \in 2 .. n |-> told[i]]
  BY <1>10
<1>13. [i \in 2 .. n |-> told[i]] = [i \in 2 .. n |-> IF i = 2 THEN <<"you">> ELSE list[i].mentions \o told[i - 1]]
  BY <1>11
<1>14. PICK chosen : chosen = CHOOSE sofar : sofar =
         [i \in 2 .. Len(list) |-> IF i = 2 THEN <<"you">> ELSE list[i].mentions \o sofar[i - 1]]
  OBVIOUS
<1>15. NotifiedOf(list) = chosen[Len(list)]
  BY <1>14, Zenon DEF NotifiedOf
<1>16. Told(list, chosen)
  <2>1. Told(list, told)
    BY <1>2, <1>12, <1>13, Zenon DEF Told
  <2>2. QED
    BY <1>14, <2>1, Zenon DEF Told
<1>17. QED
  BY <1>15, <1>16

\* Who is told after one more comment.
LEMMA ToldMore ==
  ASSUME NEW list \in Seq(Comment), Len(list) >= 2, NEW new \in Comment, NEW more, more = Append(list, new)
  PROVE  NotifiedOf(more) = new.mentions \o NotifiedOf(list)
<1>1. PICK n : n = Len(list)
  OBVIOUS
<1>2. /\ n \in Nat /\ n >= 2 /\ more \in Seq(Comment) /\ Len(more) = n + 1 /\ more[n + 1] = new
      /\ \A i \in 1 .. n : more[i] = list[i]
  BY <1>1
<1>3. PICK f : Told(list, f) /\ NotifiedOf(list) = f[n]
  BY <1>1, ToldExists
<1>4. PICK g : Told(more, g) /\ NotifiedOf(more) = g[n + 1]
  <2>1. Len(more) >= 2 /\ more \in Seq(Comment)
    BY <1>2
  <2>2. \E g : Told(more, g) /\ NotifiedOf(more) = g[Len(more)]
    BY <2>1, ToldExists
  <2>3. QED
    BY <1>2, <2>2
<1>5. f[2] = <<"you">> /\ \A i \in 3 .. n : f[i] = list[i].mentions \o f[i - 1]
  <2>1. Len(list) \in Nat /\ Len(list) >= 2 /\ Told(list, f)
    BY <1>1, <1>2, <1>3
  <2>2. ToldByStep(list, f)
    BY <2>1, ToldStep
  <2>3. QED
    BY <1>1, <2>2, Zenon DEF ToldByStep
<1>6. g[2] = <<"you">> /\ \A i \in 3 .. n + 1 : g[i] = more[i].mentions \o g[i - 1]
  <2>1. Len(more) \in Nat /\ Len(more) >= 2 /\ Told(more, g)
    BY <1>2, <1>4
  <2>2. ToldByStep(more, g)
    BY <2>1, ToldStep
  <2>3. Len(more) = n + 1
    BY <1>2
  <2>4. QED
    BY <2>2, <2>3, Zenon DEF ToldByStep
<1>7. PICK S : S = {i \in Nat : i + 2 <= n => g[i + 2] = f[i + 2]}
  OBVIOUS
<1>8. 0 \in S
  BY <1>5, <1>6, <1>7
<1>9. ASSUME NEW i \in Nat, i \in S PROVE i + 1 \in S
  <2> SUFFICES ASSUME (i + 1) + 2 <= n PROVE g[(i + 1) + 2] = f[(i + 1) + 2]
    BY <1>7
  <2>1. PICK k : k = (i + 1) + 2
    OBVIOUS
  <2>2. k \in 3 .. n /\ k \in 3 .. n + 1 /\ k \in 1 .. n /\ k - 1 = i + 2 /\ i + 2 <= n
    BY <1>2, <2>1
  <2>3. g[k - 1] = f[k - 1]
    BY <1>7, <1>9, <2>2
  <2>4. f[k] = list[k].mentions \o f[k - 1]
    BY <1>5, <2>2
  <2>5. g[k] = more[k].mentions \o g[k - 1]
    BY <1>6, <2>2
  <2>6. more[k] = list[k]
    BY <1>2, <2>2
  <2>7. QED
    BY <2>1, <2>3, <2>4, <2>5, <2>6
<1>10. g[n] = f[n]
  <2>1. n - 2 \in Nat /\ (n - 2) + 2 = n
    BY <1>2
  <2>2. n - 2 \in S
    BY <1>8, <1>9, <2>1, AllNumbers
  <2>3. QED
    BY <1>7, <2>1, <2>2
<1>11. n + 1 \in 3 .. n + 1 /\ (n + 1) - 1 = n
  BY <1>2
<1>12. g[n + 1] = more[n + 1].mentions \o g[n]
  BY <1>6, <1>11
<1>13. QED
  BY <1>2, <1>3, <1>4, <1>10, <1>12

\* The parts of the invariant.
EditorDocs ==
  /\ docs \in Seq(Editor!CollaborativeDoc) /\ activeDoc \in Editor!CollaborativeDoc /\ edits \in Nat
  /\ \E i \in DOMAIN docs : docs[i].id = activeDoc.id /\ activeDoc.version = docs[i].version + edits
  /\ edits = 0 => \E i \in DOMAIN docs : docs[i] = activeDoc
  /\ docContent # activeDoc.content => docContent \in {s.content : s \in Editor!INITIAL_SNAPSHOTS}
EditorTalk ==
  /\ draft \in Seq(Name \cup {"prose"}) /\ comments \in Seq(Comment) /\ Len(comments) >= 2
  /\ activityFeed \in Seq(Entry) /\ notices \in Seq(Name \cup {"you"})
  /\ Len(activityFeed) = Len(comments) + 2
  /\ notices = NotifiedOf(comments)
EditorView ==
  /\ activeTab \in {"editor", "history"} /\ typingUser \in BOOLEAN
  /\ selectedSnapshot \in Editor!INITIAL_SNAPSHOTS \cup {Editor!NoSnapshot} /\ steps \in 0 .. MaxSteps

LEMMA EditorLengths == Len(Editor!INITIAL_ACTIVITY) = 4 /\ Len(Editor!INITIAL_COMMENTS) = 2
BY DEF Editor!INITIAL_ACTIVITY, Editor!INITIAL_COMMENTS

LEMMA EditorParts ==
  ASSUME EditorInv
  PROVE  EditorDocs /\ EditorTalk /\ EditorView
<1>1. Editor!TypeOK /\ Editor!EditsAndMentionsKept
  BY DEF EditorInv
<1>2. /\ comments \in Seq(Comment) /\ Len(comments) >= 2
      /\ activityFeed \in Seq(Entry) /\ notices \in Seq(Name \cup {"you"}) /\ edits \in Nat
  BY DEF EditorInv
<1>3. \A row : row \in Editor!Range(docs) <=> \E i \in DOMAIN docs : docs[i] = row
  BY DEF Editor!Range
<1>4. /\ \E row \in Editor!Range(docs) : row.id = activeDoc.id /\ activeDoc.version = row.version + edits
      /\ edits = 0 => activeDoc \in Editor!Range(docs)
      /\ docContent # activeDoc.content => docContent \in {s.content : s \in Editor!INITIAL_SNAPSHOTS}
      /\ Len(activityFeed) - Len(Editor!INITIAL_ACTIVITY) = Len(comments) - Len(Editor!INITIAL_COMMENTS)
      /\ notices = Editor!Notified
  BY <1>1, Zenon DEF Editor!EditsAndMentionsKept
<1>5. /\ \E i \in DOMAIN docs : docs[i].id = activeDoc.id /\ activeDoc.version = docs[i].version + edits
      /\ edits = 0 => \E i \in DOMAIN docs : docs[i] = activeDoc
  BY <1>3, <1>4
<1>6. Len(activityFeed) = Len(comments) + 2
  BY <1>2, <1>4, EditorLengths
<1>7. notices = NotifiedOf(comments)
  BY <1>4, NotifiedIs
<1>8. EditorDocs
  BY <1>1, <1>2, <1>4, <1>5 DEF EditorDocs, Editor!TypeOK
<1>9. EditorTalk
  BY <1>1, <1>2, <1>6, <1>7 DEF EditorTalk, Editor!TypeOK
<1>10. EditorView
  BY <1>1 DEF EditorView, Editor!TypeOK
<1>11. QED
  BY <1>8, <1>9, <1>10

LEMMA EditorPartsAfter ==
  ASSUME EditorDocs', EditorTalk', EditorView'
  PROVE  EditorInv'
<1>1. Editor!TypeOK'
  BY DEF EditorDocs, EditorTalk, EditorView, Editor!TypeOK
<1>2. \A row : row \in Editor!Range(docs') <=> \E i \in DOMAIN docs' : docs'[i] = row
  BY DEF Editor!Range
<1>3. /\ \E row \in Editor!Range(docs') : row.id = activeDoc'.id /\ activeDoc'.version = row.version + edits'
      /\ edits' = 0 => activeDoc' \in Editor!Range(docs')
  BY <1>2 DEF EditorDocs
<1>4. Len(activityFeed') - Len(Editor!INITIAL_ACTIVITY) = Len(comments') - Len(Editor!INITIAL_COMMENTS)
  <2>1. comments' \in Seq(Comment) /\ Len(activityFeed') = Len(comments') + 2
    BY Zenon DEF EditorTalk
  <2>2. Len(comments') \in Nat
    <3>1. comments' \in Seq(Comment)
      BY <2>1
    <3>2. QED
      BY <3>1
  <2>3. Len(activityFeed') = Len(comments') + 2
    BY <2>1
  <2>4. QED
    BY <2>2, <2>3, EditorLengths
<1>5. notices' = Editor!Notified'
  BY NotifiedIs, Zenon DEF EditorTalk
<1>6. docContent' # activeDoc'.content => docContent' \in {s.content : s \in Editor!INITIAL_SNAPSHOTS}
  BY DEF EditorDocs
<1>7. Editor!EditsAndMentionsKept'
  BY <1>3, <1>4, <1>5, <1>6, Zenon DEF Editor!EditsAndMentionsKept
<1>8. QED
  BY <1>1, <1>7 DEF EditorInv, EditorDocs, EditorTalk

LEMMA EditorInit == Editor!Init => EditorInv
<1> SUFFICES ASSUME Editor!Init PROVE EditorInv
  OBVIOUS
<1>1. /\ docs = Editor!INITIAL_DOCUMENTS /\ activeDoc = Editor!INITIAL_DOCUMENTS[1]
      /\ docContent = activeDoc.content /\ edits = 0
      /\ draft = <<>> /\ comments = Editor!INITIAL_COMMENTS /\ notices = <<"you">>
      /\ activityFeed = Editor!INITIAL_ACTIVITY
      /\ activeTab = "editor" /\ selectedSnapshot = Editor!NoSnapshot /\ typingUser = TRUE /\ steps = 0
  BY DEF Editor!Init
<1>2. docs \in Seq(Editor!CollaborativeDoc) /\ 1 \in DOMAIN docs
  <2>1. PICK one : one = [id |-> "doc_arch_01", content |-> "arch_v4", version |-> 4]
    OBVIOUS
  <2>2. PICK two : two = [id |-> "doc_sec_02", content |-> "sec_v2", version |-> 2]
    OBVIOUS
  <2>3. one \in Editor!CollaborativeDoc /\ two \in Editor!CollaborativeDoc
    <3>1. 4 \in Nat \ {0} /\ 2 \in Nat \ {0}
      OBVIOUS
    <3>2. one \in Editor!CollaborativeDoc
      BY <2>1, <3>1 DEF Editor!CollaborativeDoc
    <3>3. two \in Editor!CollaborativeDoc
      BY <2>2, <3>1 DEF Editor!CollaborativeDoc
    <3>4. QED
      BY <3>2, <3>3
  <2>4. docs = <<one, two>>
    BY <1>1, <2>1, <2>2 DEF Editor!INITIAL_DOCUMENTS
  <2>5. QED
    BY <2>3, <2>4
<1>3. activeDoc = docs[1] /\ activeDoc \in Editor!CollaborativeDoc /\ activeDoc.version \in Nat
  <2>1. activeDoc = docs[1]
    BY <1>1
  <2>2. activeDoc \in Editor!CollaborativeDoc
    BY <1>2, <2>1
  <2>3. QED
    BY <2>1, <2>2 DEF Editor!CollaborativeDoc
<1>4. \E i \in DOMAIN docs : docs[i].id = activeDoc.id /\ activeDoc.version = docs[i].version + edits
  BY <1>1, <1>2, <1>3
<1>5. comments \in Seq(Comment) /\ Len(comments) = 2
  <2>1. PICK one : one = [doc |-> "doc_arch_01", mentions |-> <<"priya">>]
    OBVIOUS
  <2>2. PICK two : two = [doc |-> "doc_arch_01", mentions |-> <<"rahul">>]
    OBVIOUS
  <2>3. one \in Comment /\ two \in Comment
    <3>1. <<"priya">> \in Seq(Name) /\ <<"rahul">> \in Seq(Name)
      BY EditorAssumption
    <3>2. QED
      BY <2>1, <2>2, <3>1 DEF Comment
  <2>4. comments = <<one, two>>
    BY <1>1, <2>1, <2>2 DEF Editor!INITIAL_COMMENTS
  <2>5. QED
    BY <2>3, <2>4
<1>6. activityFeed \in Seq(Entry) /\ Len(activityFeed) = 4
  BY <1>1 DEF Entry, Editor!INITIAL_ACTIVITY
<1>7. notices = NotifiedOf(comments)
  <2>1. PICK f : Told(comments, f) /\ NotifiedOf(comments) = f[2]
    <3>1. \E f : Told(comments, f) /\ NotifiedOf(comments) = f[Len(comments)]
      <4>1. comments \in Seq(Comment) /\ Len(comments) >= 2
        BY <1>5
      <4>2. QED
        BY <4>1, ToldExists, Zenon
    <3>2. QED
      BY <1>5, <3>1
  <2>2. Len(comments) \in Nat /\ Len(comments) >= 2 /\ Told(comments, f)
    BY <1>5, <2>1
  <2>3. f[2] = <<"you">>
    <3>1. ToldByStep(comments, f)
      BY <2>2, ToldStep
    <3>2. QED
      BY <3>1, Zenon DEF ToldByStep
  <2>4. QED
    BY <1>1, <2>1, <2>3
<1>8. Editor!TypeOK
  BY <1>1, <1>2, <1>3, EditorAssumption DEF Editor!TypeOK
<1>9. Editor!EditsAndMentionsKept
  <2>1. \A row : row \in Editor!Range(docs) <=> \E i \in DOMAIN docs : docs[i] = row
    BY DEF Editor!Range
  <2>2. \E row \in Editor!Range(docs) : row.id = activeDoc.id /\ activeDoc.version = row.version + edits
    BY <1>4, <2>1
  <2>3. activeDoc \in Editor!Range(docs)
    BY <1>2, <1>3, <2>1
  <2>4. Len(activityFeed) - Len(Editor!INITIAL_ACTIVITY) = Len(comments) - Len(Editor!INITIAL_COMMENTS)
    BY <1>5, <1>6, EditorLengths
  <2>5. notices = Editor!Notified
    BY <1>7, NotifiedIs
  <2>6. QED
    BY <1>1, <2>2, <2>3, <2>4, <2>5, Zenon DEF Editor!EditsAndMentionsKept
<1>10. notices \in Seq(Name \cup {"you"}) /\ edits \in Nat
  BY <1>1
<1>11. QED
  BY <1>5, <1>6, <1>8, <1>9, <1>10 DEF EditorInv

LEMMA EditorChange ==
  ASSUME EditorInv, NEW text \in Text, Editor!HandleDocChange(text)
  PROVE  EditorInv'
<1>1. /\ docContent' = text /\ activeDoc' = [activeDoc EXCEPT !.content = text, !.version = @ + 1]
      /\ edits' = edits + 1 /\ steps < MaxSteps /\ steps' = steps + 1
      /\ UNCHANGED <<docs, draft, comments, notices, activityFeed, activeTab, selectedSnapshot, typingUser>>
  BY DEF Editor!HandleDocChange, Editor!Step, Editor!talkVars
<1>2. activeDoc \in Editor!CollaborativeDoc /\ edits \in Nat /\ activeDoc.version \in Nat
  <2>1. activeDoc \in Editor!CollaborativeDoc /\ edits \in Nat
    BY EditorParts DEF EditorDocs
  <2>2. QED
    BY <2>1 DEF Editor!CollaborativeDoc
<1>3. PICK one : one = [activeDoc EXCEPT !.content = text]
  OBVIOUS
<1>4. PICK new : new = [one EXCEPT !.version = one.version + 1]
  OBVIOUS
<1>5. one \in Editor!CollaborativeDoc /\ one.version = activeDoc.version /\ one.id = activeDoc.id /\ one.content = text
  BY <1>2, <1>3 DEF Editor!CollaborativeDoc
<1>6. new \in Editor!CollaborativeDoc /\ new.version = activeDoc.version + 1 /\ new.id = activeDoc.id /\ new.content = text
  <2>1. PICK next : next = one.version + 1
    OBVIOUS
  <2>2. next \in Nat \ {0}
    BY <1>2, <1>5, <2>1
  <2>3. new \in Editor!CollaborativeDoc /\ new.version = next /\ new.id = one.id /\ new.content = one.content
    BY <1>4, <1>5, <2>1, <2>2 DEF Editor!CollaborativeDoc
  <2>4. QED
    BY <1>5, <2>1, <2>3
<1>7. activeDoc' = new
  BY <1>1, <1>3, <1>4, <1>5
<1>8. PICK i \in DOMAIN docs : docs[i].id = activeDoc.id /\ activeDoc.version = docs[i].version + edits
  BY EditorParts DEF EditorDocs
<1>9. docs[i].version \in Nat
  <2>1. docs[i] \in Editor!CollaborativeDoc
    BY EditorParts DEF EditorDocs
  <2>2. QED
    BY <2>1 DEF Editor!CollaborativeDoc
<1>10. new.version = docs[i].version + edits'
  BY <1>1, <1>2, <1>6, <1>8, <1>9
<1>11. EditorDocs'
  <2>1. docs' = docs /\ docs \in Seq(Editor!CollaborativeDoc)
    BY <1>1, EditorParts DEF EditorDocs
  <2>2. edits' \in Nat /\ edits' # 0 /\ docContent' = activeDoc'.content
    BY <1>1, <1>2, <1>6, <1>7
  <2>3. QED
    BY <1>6, <1>7, <1>8, <1>10, <2>1, <2>2 DEF EditorDocs
<1>12. EditorTalk'
  BY <1>1, EditorParts DEF EditorTalk
<1>13. EditorView'
  BY <1>1, EditorParts, EditorAssumption DEF EditorView
<1>14. QED
  BY <1>11, <1>12, <1>13, EditorPartsAfter

\* A comment more is an entry of the feed more, and a notification more for
\* each one mentioned.
LEMMA EditorPost ==
  ASSUME EditorInv, Editor!HandlePostComment
  PROVE  EditorInv'
<1>1. PICK keep : keep = {i \in DOMAIN draft : draft[i] # "prose"}
  OBVIOUS
<1>2. PICK mentions : mentions = Kept(draft, keep)
  OBVIOUS
<1>3. PICK new : new = [doc |-> activeDoc.id, mentions |-> mentions]
  OBVIOUS
<1>4. /\ comments' = Append(comments, new) /\ notices' = mentions \o notices
      /\ activityFeed' = <<"POSTED_COMMENT">> \o activityFeed /\ draft' = <<>>
      /\ steps < MaxSteps /\ steps' = steps + 1
      /\ UNCHANGED <<docs, activeDoc, docContent, edits, activeTab, selectedSnapshot, typingUser>>
  <2>1. Editor!Kept(draft, keep) = mentions
    BY <1>2, Zenon DEF Editor!Kept, Kept
  <2>2. QED
    BY <1>1, <1>3, <2>1, Zenon DEF Editor!HandlePostComment, Editor!Step, Editor!docVars
<1>5. /\ draft \in Seq(Name \cup {"prose"}) /\ comments \in Seq(Comment) /\ Len(comments) >= 2
      /\ activityFeed \in Seq(Entry) /\ notices \in Seq(Name \cup {"you"})
      /\ Len(activityFeed) = Len(comments) + 2 /\ notices = NotifiedOf(comments)
  BY EditorParts DEF EditorTalk
<1>6. mentions \in Seq(Name)
  <2>1. mentions \in Seq(Name \cup {"prose"}) /\ PartOf(mentions, draft, keep, Len(draft))
    BY <1>2, <1>5, KeptIsPart
  <2>2. ASSUME NEW i \in 1 .. Len(mentions) PROVE mentions[i] \in Name
    <3>1. PICK j \in 1 .. Len(draft) : j \in keep /\ mentions[i] = draft[j]
      BY <2>1, Zenon DEF PartOf
    <3>2. draft[j] # "prose"
      BY <1>1, <3>1
    <3>3. draft[j] \in Name \cup {"prose"}
      <4>1. draft \in Seq(Name \cup {"prose"})
        BY <1>5
      <4>2. QED
        BY <3>1, <4>1, ElementOf
    <3>4. QED
      BY <3>1, <3>2, <3>3
  <2>3. mentions \in Seq(Name \cup {"prose"})
    BY <2>1
  <2>4. QED
    BY <2>2, <2>3, ListOf
<1>7. new \in Comment /\ new.mentions = mentions
  <2>1. activeDoc.id \in NewId \cup {"doc_arch_01", "doc_sec_02"}
    BY EditorParts DEF EditorDocs, Editor!CollaborativeDoc
  <2>2. QED
    BY <1>3, <1>6, <2>1 DEF Comment
<1>8. EditorTalk'
  <2>1. comments' \in Seq(Comment) /\ Len(comments') = Len(comments) + 1 /\ Len(comments') >= 2
    <3>1. comments \in Seq(Comment) /\ new \in Comment /\ comments' = Append(comments, new)
      BY <1>4, <1>5, <1>7
    <3>2. comments' \in Seq(Comment) /\ Len(comments') = Len(comments) + 1
      BY <3>1, AppendIn
    <3>3. Len(comments) \in Nat
      BY <3>1
    <3>4. Len(comments) >= 2
      BY <1>5
    <3>5. QED
      BY <3>2, <3>3, <3>4
  <2>2. activityFeed' \in Seq(Entry) /\ Len(activityFeed') = Len(activityFeed) + 1
    <3>1. PICK entry : entry = <<"POSTED_COMMENT">>
      OBVIOUS
    <3>2. "POSTED_COMMENT" \in Entry
      BY DEF Entry
    <3>3. entry \in Seq(Entry) /\ Len(entry) = 1
      BY <3>1, <3>2, SingleIn
    <3>4. activityFeed \in Seq(Entry) /\ activityFeed' = entry \o activityFeed
      BY <1>4, <1>5, <3>1
    <3>5. activityFeed' \in Seq(Entry) /\ Len(activityFeed') = Len(entry) + Len(activityFeed)
      <4>1. entry \in Seq(Entry)
        BY <3>3
      <4>2. activityFeed \in Seq(Entry)
        BY <3>4
      <4>3. PICK grown : grown = entry \o activityFeed
        OBVIOUS
      <4>4. grown \in Seq(Entry) /\ Len(grown) = Len(entry) + Len(activityFeed)
        BY <4>1, <4>2, <4>3, ConcatIn
      <4>5. QED
        BY <3>4, <4>3, <4>4
    <3>6. Len(activityFeed) \in Nat
      BY <3>4
    <3>7. QED
      BY <3>3, <3>5, <3>6
  <2>3. Len(activityFeed') = Len(comments') + 2
    <3>1. comments \in Seq(Comment)
      BY <1>5
    <3>2. Len(comments) \in Nat
      BY <3>1
    <3>3. Len(activityFeed) = Len(comments) + 2
      BY <1>5
    <3>4. QED
      BY <2>1, <2>2, <3>2, <3>3
  <2>4. notices' \in Seq(Name \cup {"you"})
    <3>1. Name \subseteq Name \cup {"you"}
      OBVIOUS
    <3>2. mentions \in Seq(Name \cup {"you"})
      BY <1>6, <3>1, ListIn
    <3>3. notices \in Seq(Name \cup {"you"}) /\ notices' = mentions \o notices
      BY <1>4, <1>5
    <3>4. QED
      BY <3>2, <3>3, ConcatIn
  <2>5. notices' = NotifiedOf(comments')
    <3>1. NotifiedOf(comments') = new.mentions \o NotifiedOf(comments)
      BY <1>4, <1>5, <1>7, ToldMore
    <3>2. QED
      BY <1>4, <1>5, <1>7, <3>1
  <2>6. draft' \in Seq(Name \cup {"prose"})
    BY <1>4
  <2>7. QED
    BY <2>1, <2>2, <2>3, <2>4, <2>5, <2>6 DEF EditorTalk
<1>9. EditorDocs'
  BY <1>4, EditorParts DEF EditorDocs
<1>10. EditorView'
  BY <1>4, EditorParts, EditorAssumption DEF EditorView
<1>11. QED
  BY <1>8, <1>9, <1>10, EditorPartsAfter

\* A row becomes the active document.
LEMMA EditorRow ==
  ASSUME EditorInv, docs' \in Seq(Editor!CollaborativeDoc), NEW i \in DOMAIN docs', activeDoc' = docs'[i],
         docContent' = activeDoc'.content, edits' = 0
  PROVE  EditorDocs'
<1>1. activeDoc' \in Editor!CollaborativeDoc
  OBVIOUS
<1>2. activeDoc'.version \in Nat
  BY <1>1 DEF Editor!CollaborativeDoc
<1>3. activeDoc'.version = docs'[i].version + edits'
  BY <1>2
<1>4. QED
  BY <1>1, <1>3 DEF EditorDocs

\* A step that is counted and leaves the tabs as they are.
LEMMA EditorCounts ==
  ASSUME EditorView, steps < MaxSteps, steps' = steps + 1, UNCHANGED <<activeTab, selectedSnapshot, typingUser>>
  PROVE  EditorView'
BY EditorAssumption DEF EditorView

LEMMA EditorStep == EditorInv /\ Editor!Next => EditorInv'
<1> SUFFICES ASSUME EditorInv, Editor!Next PROVE EditorInv'
  OBVIOUS
<1>1. EditorDocs /\ EditorTalk /\ EditorView /\ MaxSteps \in Nat
  BY EditorParts, EditorAssumption
<1>2. ASSUME UNCHANGED <<docs, activeDoc, docContent, edits>> PROVE EditorDocs'
  BY <1>1, <1>2 DEF EditorDocs
<1>3. ASSUME UNCHANGED <<draft, comments, notices, activityFeed>> PROVE EditorTalk'
  BY <1>1, <1>3 DEF EditorTalk
<1>4. CASE Editor!TypingTimer
  <2>1. /\ typingUser' = ~typingUser
        /\ UNCHANGED <<docs, activeDoc, docContent, edits, draft, comments, notices, activityFeed, activeTab,
                       selectedSnapshot, steps>>
    BY <1>4 DEF Editor!TypingTimer, Editor!docVars, Editor!talkVars
  <2>2. EditorView'
    BY <1>1, <2>1 DEF EditorView
  <2>3. QED
    BY <1>2, <1>3, <2>1, <2>2, EditorPartsAfter
<1>5. ASSUME NEW word \in Name \cup {"prose"}, Editor!WriteComment(word) PROVE EditorInv'
  <2>1. /\ draft' = Append(draft, word) /\ steps < MaxSteps /\ steps' = steps + 1
        /\ UNCHANGED <<docs, activeDoc, docContent, edits, comments, notices, activityFeed, activeTab,
                       selectedSnapshot, typingUser>>
    BY <1>5 DEF Editor!WriteComment, Editor!Step, Editor!docVars
  <2>2. draft' \in Seq(Name \cup {"prose"})
    <3>1. draft \in Seq(Name \cup {"prose"})
      BY <1>1 DEF EditorTalk
    <3>2. QED
      BY <1>5, <2>1, <3>1, AppendIn
  <2>3. EditorTalk'
    <3>1. comments' = comments /\ notices' = notices /\ activityFeed' = activityFeed
      BY <2>1
    <3>2. comments \in Seq(Comment) /\ Len(comments) >= 2 /\ activityFeed \in Seq(Entry)
          /\ notices \in Seq(Name \cup {"you"}) /\ Len(activityFeed) = Len(comments) + 2
          /\ notices = NotifiedOf(comments)
      BY <1>1, Zenon DEF EditorTalk
    <3>3. comments' \in Seq(Comment) /\ Len(comments') >= 2 /\ activityFeed' \in Seq(Entry)
          /\ notices' \in Seq(Name \cup {"you"}) /\ Len(activityFeed') = Len(comments') + 2
          /\ notices' = NotifiedOf(comments')
      BY <3>1, <3>2
    <3>4. QED
      BY <2>2, <3>3 DEF EditorTalk
  <2>4. EditorView'
    <3>1. steps < MaxSteps /\ steps' = steps + 1 /\ UNCHANGED <<activeTab, selectedSnapshot, typingUser>>
      BY <2>1
    <3>2. QED
      BY <1>1, <3>1, EditorCounts
  <2>5. QED
    BY <1>2, <2>1, <2>3, <2>4, EditorPartsAfter
<1>6. ASSUME NEW i \in DOMAIN docs, Editor!SelectDocument(i) PROVE EditorInv'
  <2>1. /\ activeDoc' = docs[i] /\ docContent' = docs[i].content /\ edits' = 0 /\ selectedSnapshot' = Editor!NoSnapshot
        /\ UNCHANGED <<docs, draft, comments, notices, activityFeed, activeTab, typingUser, steps>>
    BY <1>6 DEF Editor!SelectDocument, Editor!talkVars
  <2>2. docs' \in Seq(Editor!CollaborativeDoc) /\ i \in DOMAIN docs' /\ activeDoc' = docs'[i] /\ docContent' = activeDoc'.content
    BY <1>1, <2>1 DEF EditorDocs
  <2>3. EditorDocs'
    BY <2>1, <2>2, EditorRow
  <2>4. EditorView'
    BY <1>1, <2>1 DEF EditorView
  <2>5. QED
    BY <1>3, <2>1, <2>3, <2>4, EditorPartsAfter
<1>7. ASSUME NEW id \in NewId, Editor!HandleCreateNewDoc(id) PROVE EditorInv'
  <2>1. PICK new : new = [id |-> id, content |-> "new", version |-> 1]
    OBVIOUS
  <2>2. /\ docs' = <<new>> \o docs /\ activeDoc' = new /\ docContent' = new.content /\ edits' = 0
        /\ steps < MaxSteps /\ steps' = steps + 1
        /\ UNCHANGED <<draft, comments, notices, activityFeed, activeTab, selectedSnapshot, typingUser>>
    BY <1>7, <2>1 DEF Editor!HandleCreateNewDoc, Editor!Step, Editor!talkVars
  <2>3. new \in Editor!CollaborativeDoc
    BY <1>7, <2>1 DEF Editor!CollaborativeDoc
  <2>4. docs' \in Seq(Editor!CollaborativeDoc) /\ 1 \in DOMAIN docs' /\ docs'[1] = new
    <3>1. docs \in Seq(Editor!CollaborativeDoc)
      BY <1>1 DEF EditorDocs
    <3>2. QED
      BY <2>2, <2>3, <3>1
  <2>5. activeDoc' = docs'[1] /\ docContent' = activeDoc'.content
    BY <2>2, <2>4
  <2>6. EditorDocs'
    BY <2>2, <2>4, <2>5, EditorRow
  <2>7. EditorView'
    BY <1>1, <2>2 DEF EditorView
  <2>8. QED
    BY <1>3, <2>2, <2>6, <2>7, EditorPartsAfter
<1>8. ASSUME NEW t \in {"editor", "history"}, Editor!OpenTab(t) PROVE EditorInv'
  <2>1. /\ activeTab' = t
        /\ UNCHANGED <<docs, activeDoc, docContent, edits, draft, comments, notices, activityFeed,
                       selectedSnapshot, typingUser, steps>>
    BY <1>8 DEF Editor!OpenTab, Editor!docVars, Editor!talkVars
  <2>2. EditorView'
    BY <1>1, <1>8, <2>1 DEF EditorView
  <2>3. QED
    BY <1>2, <1>3, <2>1, <2>2, EditorPartsAfter
<1>9. ASSUME NEW s \in Editor!INITIAL_SNAPSHOTS, Editor!SelectSnapshot(s) PROVE EditorInv'
  <2>1. /\ selectedSnapshot' = s
        /\ UNCHANGED <<docs, activeDoc, docContent, edits, draft, comments, notices, activityFeed, activeTab,
                       typingUser, steps>>
    BY <1>9 DEF Editor!SelectSnapshot, Editor!docVars, Editor!talkVars
  <2>2. EditorView'
    BY <1>1, <1>9, <2>1 DEF EditorView
  <2>3. QED
    BY <1>2, <1>3, <2>1, <2>2, EditorPartsAfter
<1>10. CASE Editor!Rewind
  <2>1. /\ selectedSnapshot # Editor!NoSnapshot /\ docContent' = selectedSnapshot.content /\ activeTab' = "editor"
        /\ UNCHANGED <<docs, activeDoc, edits, draft, comments, notices, activityFeed, selectedSnapshot, typingUser, steps>>
    BY <1>10 DEF Editor!Rewind, Editor!talkVars
  <2>2. docContent' \in {s.content : s \in Editor!INITIAL_SNAPSHOTS}
    BY <1>1, <2>1 DEF EditorView
  <2>3. EditorDocs'
    BY <1>1, <2>1, <2>2 DEF EditorDocs
  <2>4. EditorView'
    BY <1>1, <2>1 DEF EditorView
  <2>5. QED
    BY <1>3, <2>1, <2>3, <2>4, EditorPartsAfter
<1>11. QED
  BY <1>4, <1>5, <1>6, <1>7, <1>8, <1>9, <1>10, EditorChange, EditorPost DEF Editor!Next

LEMMA EditorKept == EditorInv /\ UNCHANGED editorVars => EditorInv'
<1> SUFFICES ASSUME EditorInv, UNCHANGED editorVars PROVE EditorInv'
  OBVIOUS
<1>1. UNCHANGED <<docs, activeDoc, docContent, draft, comments, notices, activityFeed, activeTab, selectedSnapshot,
                  typingUser, steps, edits>>
  BY DEF editorVars
<1>2. EditorDocs' /\ EditorTalk' /\ EditorView'
  BY <1>1, EditorParts DEF EditorDocs, EditorTalk, EditorView
<1>3. QED
  BY <1>2, EditorPartsAfter
-----------------------------------------------------------------------------
(***************************************************************************)
(* The console                                                             *)
(***************************************************************************)
\* The invariants of the gateway and of all pages.
ConsoleInv ==
  /\ GatewayInv /\ SessionInv /\ ChatInv /\ JobsInv /\ AgentsInv /\ TestsInv /\ CockpitInv /\ ReportInv
  /\ ContextInv /\ TeamInv /\ ReposInv /\ RepoInv /\ EditorInv

LEMMA ConsoleBegins == ConsoleInit => ConsoleInv
BY GatewayBegins, SessionInit, ChatInit, JobsInit, AgentsInit, TestsInit, CockpitInit, ReportInit, ContextInit, TeamInit,
   ReposInit, RepoInit, EditorInit DEF ConsoleInit, ConsoleInv

\* Of every page either its own step was taken or it is as it was.
LEMMA ConsoleMoves ==
  ASSUME [ConsoleNext]_consoleVars
  PROVE  /\ Next \/ UNCHANGED vars
         /\ Session!Next \/ UNCHANGED sessionVars
         /\ ChatPg!Next \/ UNCHANGED chatVars
         /\ JobsPg!Next \/ UNCHANGED jobsVars
         /\ AgentsPg!Next \/ UNCHANGED agentsVars
         /\ TestsPg!Next \/ UNCHANGED testsVars
         /\ Cockpit!Next \/ UNCHANGED cockpitVars
         /\ Report!Next \/ UNCHANGED reportVars
         /\ Workspaces!Next \/ UNCHANGED workspacesVars
         /\ Team!Next \/ UNCHANGED teamVars
         /\ Repos!Next \/ UNCHANGED repositoriesVars
         /\ RepoPg!Next \/ UNCHANGED repositoryVars
         /\ Editor!Next \/ UNCHANGED editorVars
<1>1. CASE UNCHANGED consoleVars
  BY <1>1 DEF consoleVars
<1>2. CASE ConsoleNext
  BY <1>2 DEF ConsoleNext
<1>3. QED
  BY <1>1, <1>2

LEMMA ConsoleStep == ConsoleInv /\ [ConsoleNext]_consoleVars => ConsoleInv'
<1> SUFFICES ASSUME ConsoleInv, [ConsoleNext]_consoleVars PROVE ConsoleInv'
  OBVIOUS
<1>1. SessionInv' /\ ChatInv' /\ JobsInv' /\ AgentsInv'
  BY ConsoleMoves, SessionStep, SessionKept, ChatStep, ChatKept, JobsStep, JobsKept, AgentsStep, AgentsKept
     DEF ConsoleInv
<1>2. TestsInv' /\ CockpitInv' /\ ReportInv' /\ EditorInv'
  BY ConsoleMoves, TestsStep, TestsKept, CockpitStep, CockpitKept, ReportStep, ReportKept, EditorStep, EditorKept
     DEF ConsoleInv
<1>3. ContextInv' /\ TeamInv' /\ ReposInv' /\ RepoInv'
  BY ConsoleMoves, ContextStep, ContextKept, TeamStep, TeamKept, ReposStep, ReposKept, RepoStep, RepoKept
     DEF ConsoleInv
<1>4. GatewayInv'
  BY ConsoleMoves, GatewayStep DEF ConsoleInv
<1>5. QED
  BY <1>1, <1>2, <1>3, <1>4 DEF ConsoleInv

\* No page of the console waits for what is not under way: a spinner, a
\* stage, a stepper or a disabled button always has a request or a timer that
\* will end it, through stops, cancellations, failures and late answers.
THEOREM NothingIsLeftWaiting == ConsoleSpec => []NothingHangs
<1>1. ConsoleInit => ConsoleInv
  BY ConsoleBegins
<1>2. ConsoleInv /\ [ConsoleNext]_consoleVars => ConsoleInv'
  BY ConsoleStep
<1>3. ConsoleInv => NothingHangs
  <2> SUFFICES ASSUME ConsoleInv PROVE NothingHangs
    OBVIOUS
  <2>1. ChatPg!NothingHangs /\ Team!NothingHangs /\ Repos!NothingHangs /\ RepoPg!NothingHangs
    BY ChatPromises, TeamPromises, ReposPromises, RepoPromises DEF ConsoleInv
  <2>2. JobsPg!NothingHangs /\ AgentsPg!NothingHangs /\ TestsPg!NothingHangs /\ Workspaces!NothingHangs
    BY DEF ConsoleInv, JobsInv, AgentsInv, TestsInv, ContextInv
  <2>3. QED
    BY <2>1, <2>2 DEF NothingHangs
<1>4. QED
  BY <1>1, <1>2, <1>3, PTL DEF ConsoleSpec

\* What a page keeps adds up: user and tokens of a session, answers and their
\* sources, the steps of a run, the cases of a suite, the list of reviews and
\* the verdict of one, a document and what was edited and said of it.
THEOREM WhatPagesKeepAddsUp == ConsoleSpec => []PagesAddUp
<1>1. ConsoleInit => ConsoleInv
  BY ConsoleBegins
<1>2. ConsoleInv /\ [ConsoleNext]_consoleVars => ConsoleInv'
  BY ConsoleStep
<1>3. ConsoleInv => PagesAddUp
  <2> SUFFICES ASSUME ConsoleInv PROVE PagesAddUp
    OBVIOUS
  <2>1. ChatPg!AnswersAreGrounded /\ Cockpit!ReviewsKept
    BY ChatPromises, CockpitPromises DEF ConsoleInv
  <2>2. /\ Session!SessionIsWhole /\ AgentsPg!RunsAddUp /\ TestsPg!SuiteAddsUp
        /\ Report!VerdictIsOfOpenFindings /\ Editor!EditsAndMentionsKept
    BY DEF ConsoleInv, SessionInv, AgentsInv, TestsInv, ReportInv, EditorInv
  <2>3. QED
    BY <2>1, <2>2 DEF PagesAddUp
<1>4. QED
  BY <1>1, <1>2, <1>3, PTL DEF ConsoleSpec

\* A page at rest shows what the server has: the active workspace is one of
\* the list, and the team, the repositories and the index are the server's,
\* unless an answer was made up or requests for the same rows overlapped.
THEOREM PagesAtRestShowTheServer == ConsoleSpec => []PagesShowTheServer
<1>1. ConsoleInit => ConsoleInv
  BY ConsoleBegins
<1>2. ConsoleInv /\ [ConsoleNext]_consoleVars => ConsoleInv'
  BY ConsoleStep
<1>3. ConsoleInv => PagesShowTheServer
  <2> SUFFICES ASSUME ConsoleInv PROVE PagesShowTheServer
    OBVIOUS
  <2>1. Team!PageShowsTheTeam /\ Repos!PageShowsTheServer /\ RepoPg!PageShowsTheIndex
    BY TeamPromises, ReposPromises, RepoPromises DEF ConsoleInv
  <2>2. Workspaces!ActiveIsListed
    BY DEF ConsoleInv, ContextInv
  <2>3. QED
    BY <2>1, <2>2 DEF PagesShowTheServer
<1>4. QED
  BY <1>1, <1>2, <1>3, PTL DEF ConsoleSpec

\* Every state of the gateway and of the pages is well typed, and what is
\* counted or listed stays within the bounds that the types name.
THEOREM ConsoleTypes == ConsoleSpec => []TypesOK
<1>1. ConsoleInit => ConsoleInv
  BY ConsoleBegins
<1>2. ConsoleInv /\ [ConsoleNext]_consoleVars => ConsoleInv'
  BY ConsoleStep
<1>3. ConsoleInv => TypesOK
  <2> SUFFICES ASSUME ConsoleInv PROVE TypesOK
    OBVIOUS
  <2>1. TypeOK /\ ChatPg!TypeOK
    BY GatewayPromises, ChatPromises DEF ConsoleInv
  <2>2. Session!TypeOK /\ JobsPg!TypeOK /\ AgentsPg!TypeOK /\ TestsPg!TypeOK
    BY DEF ConsoleInv, SessionInv, JobsInv, AgentsInv, TestsInv
  <2>3. Cockpit!TypeOK /\ Report!TypeOK /\ Workspaces!TypeOK /\ Team!TypeOK
    BY DEF ConsoleInv, CockpitInv, ReportInv, ContextInv, TeamInv
  <2>4. Repos!TypeOK /\ RepoPg!TypeOK /\ Editor!TypeOK
    BY DEF ConsoleInv, ReposInv, RepoInv, EditorInv
  <2>5. QED
    BY <2>1, <2>2, <2>3, <2>4 DEF TypesOK
<1>4. QED
  BY <1>1, <1>2, <1>3, PTL DEF ConsoleSpec
=============================================================================
