------------------------- MODULE CollaborationProofs -------------------------
(***************************************************************************)
(* The history of the documents and the rooms of Collaboration, for any    *)
(* numbers of users, sockets, documents and operations and for every size  *)
(* of the table of processed ids.                                          *)
(***************************************************************************)
EXTENDS Collaboration, SequenceTheorems, FiniteSetTheorems, WellFoundedInduction, TLAPS

-----------------------------------------------------------------------------
(***************************************************************************)
(* Operations and contents                                                 *)
(***************************************************************************)
LEMMA OperationFields ==
  ASSUME NEW op \in Operation
  PROVE  /\ op.user \in User /\ op.type \in {"insert", "delete", "replace"}
         /\ op.pos \in Nat /\ op.length \in Nat /\ op.text \in Content
<1>1. op.text \in Seq(Range(op.text))
  BY CollaborationAssumption
<1>2. Range(op.text) \subseteq UNION {Range(o.text) : o \in Operation}
  OBVIOUS
<1>3. op.text \in Content
  BY <1>1, <1>2 DEF Content
<1>4. QED
  BY <1>3, CollaborationAssumption

LEMMA SmallerOfTwo ==
  ASSUME NEW m \in Nat, NEW n \in Nat
  PROVE  Min({m, n}) \in Nat /\ Min({m, n}) <= m /\ Min({m, n}) <= n
<1>1. \E x \in {m, n} : \A y \in {m, n} : x <= y
  BY SMT
<1>2. Min({m, n}) \in {m, n} /\ \A y \in {m, n} : Min({m, n}) <= y
  BY <1>1 DEF Min
<1>3. QED
  BY <1>2

\* Whatever the position and the length an operation asks for.
LEMMA MutateType ==
  ASSUME NEW content \in Content, NEW op \in Operation
  PROVE  Mutate(content, op) \in Content
<1>1. PICK Char : Content = Seq(Char)
  BY DEF Content
<1>2. PICK pos \in Nat : pos = Min({op.pos, Len(content)}) /\ pos <= Len(content)
  <2>1. op.pos \in Nat
    BY OperationFields
  <2>2. Len(content) \in Nat
    BY <1>1
  <2>3. QED
    BY <2>1, <2>2, SmallerOfTwo
<1>3. op.text \in Seq(Char) /\ op.type \in {"insert", "delete", "replace"}
  BY <1>1, OperationFields
<1>4. SubSeq(content, 1, pos) \in Seq(Char) /\ SubSeq(content, pos + 1, Len(content)) \in Seq(Char)
  <2>1. Len(content) \in Nat /\ \A i \in 1 .. Len(content) : content[i] \in Char
    BY <1>1
  <2>2. \A i \in 1 .. pos : content[i] \in Char
    BY <1>2, <2>1
  <2>3. \A i \in pos + 1 .. Len(content) : content[i] \in Char
    BY <1>2, <2>1
  <2>4. 1 \in Int /\ pos \in Int /\ pos + 1 \in Int /\ Len(content) \in Int
    BY <2>1
  <2>5. QED
    BY <2>2, <2>3, <2>4, SubSeqProperties
<1>5. PICK k : k = pos + DeleteLength(op) + 1
  OBVIOUS
<1>6. k \in Nat /\ k > 0
  <2>1. DeleteLength(op) \in Nat
    <3>1. op.length \in Nat
      BY OperationFields
    <3>2. Len(op.text) \in Nat
      BY <1>3
    <3>3. QED
      BY <3>1, <3>2 DEF DeleteLength
  <2>2. QED
    BY <1>5, <2>1
<1>7. SubSeq(content, k, Len(content)) \in Seq(Char)
  BY <1>1, <1>6
<1>8. CASE op.type = "insert"
  <2>1. Mutate(content, op) = SubSeq(content, 1, pos) \o op.text \o SubSeq(content, pos + 1, Len(content))
    BY <1>2, <1>8 DEF Mutate
  <2>2. QED
    BY <1>1, <1>3, <1>4, <2>1
<1>9. CASE op.type = "delete"
  <2>1. Mutate(content, op) = SubSeq(content, 1, pos) \o SubSeq(content, k, Len(content))
    BY <1>2, <1>5, <1>9 DEF Mutate
  <2>2. QED
    BY <1>1, <1>4, <1>7, <2>1
<1>10. CASE op.type = "replace"
  <2>1. Mutate(content, op) = op.text
    BY <1>10 DEF Mutate
  <2>2. QED
    BY <1>1, <1>3, <2>1
<1>11. QED
  BY <1>3, <1>8, <1>9, <1>10

LEMMA EditedDoc ==
  ASSUME NEW doc \in CollaborativeDoc, NEW op \in Operation
  PROVE  /\ Edited(doc, op) \in CollaborativeDoc
         /\ Edited(doc, op).version = doc.version + 1
         /\ Edited(doc, op).content = Mutate(doc.content, op)
<1>1. doc.content \in Content /\ doc.version \in Nat \ {0} /\ doc.clock \in [User -> Nat]
  BY DEF CollaborativeDoc
<1>2. PICK content \in Content : content = Mutate(doc.content, op)
  BY <1>1, MutateType
<1>3. PICK clock, user, old :
        old = doc.clock /\ user = op.user /\ clock = [old EXCEPT ![user] = old[user] + 1]
  OBVIOUS
<1>4. old \in [User -> Nat] /\ user \in User
  BY <1>1, <1>3, OperationFields
<1>5. clock \in [User -> Nat]
  BY <1>3, <1>4
<1>6. Edited(doc, op) = [content |-> content, version |-> doc.version + 1, clock |-> clock]
  <2>1. clock = [doc.clock EXCEPT ![op.user] = doc.clock[op.user] + 1]
    BY <1>3, Zenon
  <2>2. Edited(doc, op) = [doc EXCEPT !.content = content, !.version = doc.version + 1, !.clock = clock]
    BY <1>2, <2>1, Zenon DEF Edited
  <2>3. QED
    BY <2>2 DEF CollaborativeDoc
<1>7. QED
  BY <1>1, <1>2, <1>5, <1>6 DEF CollaborativeDoc

-----------------------------------------------------------------------------
(***************************************************************************)
(* Recursive functions over the positions of a list                        *)
(***************************************************************************)
\* Induction over the natural numbers, for a set of them.
LEMMA AllNumbers ==
  ASSUME NEW S, 0 \in S, \A n \in Nat : n \in S => n + 1 \in S
  PROVE  Nat \subseteq S
<1> SUFFICES ASSUME NEW m \in Nat, m \notin S PROVE FALSE
  OBVIOUS
<1>1. PICK rest : rest = Nat \ S
  OBVIOUS
<1>2. PICK n \in rest : \A k \in rest : <<k, n>> \notin OpToRel(<, Nat)
  <2>1. rest \subseteq Nat /\ rest # {}
    BY <1>1
  <2>2. QED
    BY <2>1, WFMin, NatLessThanWellFounded, Zenon
<1>3. \A k \in rest : ~(k < n)
  BY <1>1, <1>2 DEF OpToRel
<1>4. n \in Nat /\ n # 0 /\ n - 1 \in Nat /\ n - 1 < n
  BY <1>1
<1>5. n - 1 \in S
  BY <1>1, <1>3, <1>4
<1>6. n \in S
  BY <1>4, <1>5
<1>7. QED
  BY <1>1, <1>6

\* A function over 0 .. n is determined by its first value and by how each of
\* the others follows from the one before.
Recursion(f, T, base, n, next) ==
  f \in [0 .. n -> T] /\ f[0] = base /\ \A i \in 1 .. n : f[i] = next[<<i, f[i - 1]>>]

LEMMA RecursionExists ==
  ASSUME NEW T, NEW base, base \in T, NEW n, n \in Nat, NEW next, next \in [(1 .. n) \X T -> T]
  PROVE  \E f : Recursion(f, T, base, n, next)
<1>1. PICK S : S = {m \in Nat : m <= n => \E f \in [0 .. m -> T] :
                       f[0] = base /\ \A i \in 1 .. m : f[i] = next[<<i, f[i - 1]>>]}
  OBVIOUS
<1>2. 0 \in S
  <2>1. PICK f : f = [i \in 0 .. 0 |-> base]
    OBVIOUS
  <2>2. f \in [0 .. 0 -> T] /\ f[0] = base
    BY <2>1
  <2>3. QED
    BY <1>1, <2>2
<1>3. ASSUME NEW m \in Nat, m \in S PROVE m + 1 \in S
  <2> SUFFICES ASSUME m + 1 <= n
               PROVE  \E g \in [0 .. m + 1 -> T] :
                        g[0] = base /\ \A i \in 1 .. m + 1 : g[i] = next[<<i, g[i - 1]>>]
    BY <1>1
  <2>1. PICK f \in [0 .. m -> T] : f[0] = base /\ \A i \in 1 .. m : f[i] = next[<<i, f[i - 1]>>]
    BY <1>1, <1>3
  <2>2. m + 1 \in 1 .. n /\ m \in 0 .. m
    OBVIOUS
  <2>3. PICK last : last = next[<<m + 1, f[m]>>]
    OBVIOUS
  <2>4. last \in T
    <3>1. f[m] \in T
      BY <2>1, <2>2
    <3>2. <<m + 1, f[m]>> \in (1 .. n) \X T
      BY <2>2, <3>1
    <3>3. QED
      BY <2>3, <3>2
  <2>5. PICK g : g = [i \in 0 .. m + 1 |-> IF i = m + 1 THEN last ELSE f[i]]
    OBVIOUS
  <2>6. \A i \in 0 .. m + 1 : g[i] = IF i = m + 1 THEN last ELSE f[i]
    BY <2>5
  <2>7. g \in [0 .. m + 1 -> T]
    <3>1. \A i \in 0 .. m + 1 : i # m + 1 => i \in 0 .. m
      OBVIOUS
    <3>2. QED
      BY <2>1, <2>4, <2>5, <3>1
  <2>8. g[0] = base
    BY <2>1, <2>6
  <2>9. ASSUME NEW i \in 1 .. m + 1 PROVE g[i] = next[<<i, g[i - 1]>>]
    <3>1. CASE i = m + 1
      <4>1. i - 1 = m /\ m # m + 1 /\ m \in 0 .. m + 1 /\ i \in 0 .. m + 1
        BY <3>1
      <4>2. g[i - 1] = f[m] /\ g[i] = last
        BY <2>6, <3>1, <4>1
      <4>3. QED
        BY <2>3, <3>1, <4>2
    <3>2. CASE i # m + 1
      <4>1. i \in 1 .. m /\ i \in 0 .. m + 1 /\ i - 1 \in 0 .. m + 1 /\ i - 1 # m + 1
        BY <3>2
      <4>2. g[i - 1] = f[i - 1] /\ g[i] = f[i]
        BY <2>6, <3>2, <4>1
      <4>3. QED
        BY <2>1, <4>1, <4>2
    <3>3. QED
      BY <3>1, <3>2
  <2>10. QED
    BY <2>7, <2>8, <2>9
<1>4. n \in S
  BY <1>2, <1>3, AllNumbers
<1>5. \E f \in [0 .. n -> T] : f[0] = base /\ \A i \in 1 .. n : f[i] = next[<<i, f[i - 1]>>]
  BY <1>1, <1>4
<1>6. QED
  BY <1>5, Zenon DEF Recursion

-----------------------------------------------------------------------------
(***************************************************************************)
(* Replaying a log                                                         *)
(***************************************************************************)
\* content lists the contents that the first n operations of a log lead to.
Contents(log, n, content) ==
  content = [i \in 0 .. n |-> IF i = 0 THEN <<>> ELSE Mutate(content[i - 1], log[i])]

LEMMA ContentsStep ==
  ASSUME NEW log, NEW n \in Nat, NEW content, Contents(log, n, content)
  PROVE  /\ content[0] = <<>>
         /\ \A i \in 1 .. n : content[i] = Mutate(content[i - 1], log[i])
<1>1. \A i \in 0 .. n : content[i] = IF i = 0 THEN <<>> ELSE Mutate(content[i - 1], log[i])
  BY Zenon DEF Contents
<1>2. 0 \in 0 .. n /\ \A i \in 1 .. n : i \in 0 .. n /\ i # 0
  OBVIOUS
<1>3. QED
  BY <1>1, <1>2

LEMMA ContentsExist ==
  ASSUME NEW log, NEW n \in Nat
  PROVE  \E content : Contents(log, n, content)
<1>1. PICK S : S = {m \in Nat : \E content : Contents(log, m, content)}
  OBVIOUS
<1>2. 0 \in S
  <2>1. PICK f : f = [i \in 0 .. 0 |-> <<>>]
    OBVIOUS
  <2>2. \A i \in 0 .. 0 : i = 0
    OBVIOUS
  <2>3. f = [i \in 0 .. 0 |-> IF i = 0 THEN <<>> ELSE Mutate(f[i - 1], log[i])]
    BY <2>1, <2>2
  <2>4. QED
    BY <1>1, <2>3 DEF Contents
<1>3. ASSUME NEW m \in Nat, m \in S PROVE m + 1 \in S
  <2>1. PICK f : Contents(log, m, f)
    BY <1>1, <1>3
  <2>2. PICK g : g = [i \in 0 .. m + 1 |-> IF i = m + 1 THEN Mutate(f[m], log[m + 1]) ELSE f[i]]
    OBVIOUS
  <2>3. \A i \in 0 .. m + 1 : g[i] = IF i = m + 1 THEN Mutate(f[m], log[m + 1]) ELSE f[i]
    BY <2>2
  <2>4. \A i \in 0 .. m + 1 : g[i] = IF i = 0 THEN <<>> ELSE Mutate(g[i - 1], log[i])
    <3> TAKE i \in 0 .. m + 1
    <3>1. CASE i = 0
      BY <2>1, <2>3, <3>1, ContentsStep
    <3>2. CASE i = m + 1
      <4>1. m \in 0 .. m + 1 /\ m # m + 1 /\ i - 1 = m /\ i # 0
        BY <3>2
      <4>2. g[m] = f[m] /\ g[i] = Mutate(f[m], log[i])
        BY <2>3, <3>2, <4>1
      <4>3. QED
        BY <4>1, <4>2
    <3>3. CASE i # 0 /\ i # m + 1
      <4>1. i \in 1 .. m /\ i - 1 \in 0 .. m + 1 /\ i - 1 # m + 1
        BY <3>3
      <4>2. g[i] = f[i] /\ g[i - 1] = f[i - 1]
        BY <2>3, <3>3, <4>1
      <4>3. f[i] = Mutate(f[i - 1], log[i])
        BY <2>1, <4>1, ContentsStep
      <4>4. QED
        BY <3>3, <4>2, <4>3
    <3>4. QED
      BY <3>1, <3>2, <3>3
  <2>5. g = [i \in 0 .. m + 1 |-> g[i]]
    BY <2>2
  <2>6. [i \in 0 .. m + 1 |-> g[i]] = [i \in 0 .. m + 1 |-> IF i = 0 THEN <<>> ELSE Mutate(g[i - 1], log[i])]
    BY <2>4
  <2>7. Contents(log, m + 1, g)
    BY <2>5, <2>6, Zenon DEF Contents
  <2>8. QED
    BY <1>1, <2>7
<1>4. n \in S
  BY <1>2, <1>3, AllNumbers
<1>5. QED
  BY <1>1, <1>4

\* The first k operations of two logs are the same.
SameUpTo(log, other, k) == \A i \in 1 .. k : log[i] = other[i]

LEMMA ContentsAgree ==
  ASSUME NEW log, NEW other, NEW k \in Nat, NEW n \in Nat, NEW f, NEW g,
         k <= n, SameUpTo(log, other, k), Contents(log, k, f), Contents(other, n, g)
  PROVE  f[k] = g[k]
<1>1. PICK S : S = {i \in Nat : i <= k => f[i] = g[i]}
  OBVIOUS
<1>2. 0 \in S
  <2>1. f[0] = <<>>
    BY ContentsStep
  <2>2. g[0] = <<>>
    BY ContentsStep
  <2>3. QED
    BY <1>1, <2>1, <2>2
<1>3. ASSUME NEW i \in Nat, i \in S PROVE i + 1 \in S
  <2>1. CASE i + 1 <= k
    <3>1. i + 1 \in 1 .. k /\ i + 1 \in 1 .. n /\ (i + 1) - 1 = i /\ i <= k
      BY <2>1
    <3>2. f[i + 1] = Mutate(f[i], log[i + 1]) /\ g[i + 1] = Mutate(g[i], other[i + 1])
      BY <3>1, ContentsStep
    <3>3. f[i] = g[i] /\ log[i + 1] = other[i + 1]
      BY <1>1, <1>3, <3>1 DEF SameUpTo
    <3>4. QED
      BY <1>1, <3>2, <3>3
  <2>2. CASE ~(i + 1 <= k)
    BY <1>1, <2>2
  <2>3. QED
    BY <2>1, <2>2
<1>4. k \in S
  BY <1>2, <1>3, AllNumbers
<1>5. QED
  BY <1>1, <1>4

LEMMA ReplayIs ==
  ASSUME NEW log, Len(log) \in Nat
  PROVE  \E content : Contents(log, Len(log), content) /\ Replay(log) = content[Len(log)]
<1>1. PICK f : f = CHOOSE content : content =
        [n \in 0 .. Len(log) |-> IF n = 0 THEN <<>> ELSE Mutate(content[n - 1], log[n])]
  OBVIOUS
<1>2. Replay(log) = f[Len(log)]
  BY <1>1, Zenon DEF Replay
<1>3. Contents(log, Len(log), f)
  BY <1>1, ContentsExist, Zenon DEF Contents
<1>4. QED
  BY <1>2, <1>3

\* longer is log with one operation more.
LEMMA ReplayLonger ==
  ASSUME NEW log, NEW longer, NEW op, Len(log) \in Nat, Len(longer) = Len(log) + 1,
         longer[Len(log) + 1] = op, \A i \in 1 .. Len(log) : log[i] = longer[i]
  PROVE  Replay(longer) = Mutate(Replay(log), op)
<1>1. PICK n, m : n = Len(log) /\ m = Len(longer)
  OBVIOUS
<1>2. n \in Nat /\ m \in Nat /\ m = n + 1 /\ n <= m /\ m \in 1 .. m /\ m - 1 = n
  BY <1>1
<1>3. PICK f : Contents(log, n, f) /\ Replay(log) = f[n]
  BY <1>1, ReplayIs
<1>4. PICK g : Contents(longer, m, g) /\ Replay(longer) = g[m]
  BY <1>1, <1>2, ReplayIs
<1>5. SameUpTo(log, longer, n)
  BY <1>1 DEF SameUpTo
<1>6. f[n] = g[n]
  BY <1>2, <1>3, <1>4, <1>5, ContentsAgree
<1>7. g[m] = Mutate(g[m - 1], longer[m])
  BY <1>2, <1>4, ContentsStep
<1>8. QED
  BY <1>1, <1>2, <1>3, <1>4, <1>6, <1>7

LEMMA ReplayGrows ==
  ASSUME NEW log \in Seq(Operation), NEW op \in Operation
  PROVE  Replay(Append(log, op)) = Mutate(Replay(log), op)
<1>1. PICK longer : longer = Append(log, op)
  OBVIOUS
<1>2. /\ Len(log) \in Nat /\ Len(longer) = Len(log) + 1 /\ longer[Len(log) + 1] = op
      /\ \A i \in 1 .. Len(log) : log[i] = longer[i]
  BY <1>1
<1>3. Replay(longer) = Mutate(Replay(log), op)
  BY <1>2, ReplayLonger
<1>4. QED
  BY <1>1, <1>3, Zenon

LEMMA ReplayOfNothing == Replay(<<>>) = <<>>
<1>1. Len(<<>>) = 0 /\ 0 \in Nat
  OBVIOUS
<1>2. PICK f : Contents(<<>>, 0, f) /\ Replay(<<>>) = f[0]
  BY <1>1, ReplayIs
<1>3. QED
  BY <1>1, <1>2, ContentsStep

-----------------------------------------------------------------------------
(***************************************************************************)
(* Rooms                                                                   *)
(***************************************************************************)
Version(d) == IF documents[d] = None THEN 0 ELSE documents[d].version

RoomsTyped ==
  /\ documents \in [Doc -> CollaborativeDoc \cup {None}]
  /\ docRoom \in [Doc -> SUBSET Socket]
  /\ views \in [Socket -> [Doc -> Nat]]
  /\ announced \in [Doc -> Nat]

\* What was broadcast of a document is not ahead of it, and who is in its
\* room is not behind that.
RoomsInv ==
  /\ RoomsTyped
  /\ \A d \in Doc : announced[d] <= Version(d)
  /\ \A d \in Doc : \A s \in docRoom[d] : views[s][d] >= announced[d]

LEMMA NewDocType == NewDoc \in CollaborativeDoc /\ NewDoc.version = 1 /\ NewDoc.content = <<>>
<1>1. <<>> \in Content
  BY DEF Content
<1>2. NoClock \in [User -> Nat]
  BY DEF NoClock
<1>3. QED
  BY <1>1, <1>2 DEF NewDoc, CollaborativeDoc

LEMMA RoomsInit == Init => RoomsInv
<1> SUFFICES ASSUME Init PROVE RoomsInv
  OBVIOUS
<1>1. documents \in [Doc -> CollaborativeDoc \cup {None}]
  BY NewDocType DEF Init
<1>2. \A d \in Doc : Version(d) \in Nat
  BY <1>1, NoneAssumption DEF Version, CollaborativeDoc
<1>3. QED
  BY <1>1, <1>2 DEF Init, RoomsInv, RoomsTyped

\* A document is stored under a version that is not below the old one, and
\* the rooms know nothing of it.
LEMMA StoredUnseen ==
  ASSUME RoomsInv, NEW d \in Doc, NEW doc \in CollaborativeDoc, documents' = [documents EXCEPT ![d] = doc],
         Version(d) <= doc.version, UNCHANGED <<docRoom, clientVars>>
  PROVE  RoomsInv'
<1>1. documents' \in [Doc -> CollaborativeDoc \cup {None}]
  BY DEF RoomsInv, RoomsTyped
<1>2. \A e \in Doc : documents'[e] = IF e = d THEN doc ELSE documents[e]
  BY DEF RoomsInv, RoomsTyped
<1>3. \A e \in Doc : Version(e)' = IF e = d THEN doc.version ELSE Version(e)
  BY <1>2, NoneAssumption DEF Version
<1>4. \A e \in Doc : Version(e) \in Nat /\ Version(e)' \in Nat /\ announced[e] \in Nat
  BY <1>1, NoneAssumption DEF Version, CollaborativeDoc, RoomsInv, RoomsTyped
<1>5. \A e \in Doc : announced[e] <= Version(e)'
  BY <1>3, <1>4 DEF RoomsInv
<1>6. QED
  BY <1>1, <1>5 DEF RoomsInv, RoomsTyped, clientVars

\* It is broadcast to its room.
LEMMA StoredAndSeen ==
  ASSUME RoomsInv, NEW s \in Socket, NEW d \in Doc, NEW doc \in CollaborativeDoc,
         documents' = [documents EXCEPT ![d] = doc], docRoom' = docRoom,
         announced' = [announced EXCEPT ![d] = doc.version],
         views' = [z \in Socket |-> IF z \in docRoom[d] \cup {s} THEN [views[z] EXCEPT ![d] = doc.version]
                                    ELSE views[z]]
  PROVE  RoomsInv'
<1>1. documents' \in [Doc -> CollaborativeDoc \cup {None}]
  BY DEF RoomsInv, RoomsTyped
<1>2. PICK v \in Nat : v = doc.version
  BY DEF CollaborativeDoc
<1>3. announced' \in [Doc -> Nat] /\ docRoom' \in [Doc -> SUBSET Socket]
  BY <1>2 DEF RoomsInv, RoomsTyped
<1>4. \A z \in Socket : views'[z] = IF z \in docRoom[d] \cup {s} THEN [views[z] EXCEPT ![d] = v] ELSE views[z]
  BY <1>2
<1>5. \A z \in Socket : views[z] \in [Doc -> Nat]
  BY DEF RoomsInv, RoomsTyped
<1>6. \A z \in Socket : views'[z] \in [Doc -> Nat]
  BY <1>2, <1>4, <1>5
<1>7. views' \in [Socket -> [Doc -> Nat]]
  BY <1>6
<1>8. \A e \in Doc : Version(e)' = IF e = d THEN v ELSE Version(e)
  BY <1>2, NoneAssumption DEF Version, RoomsInv, RoomsTyped
<1>9. \A e \in Doc : announced'[e] = IF e = d THEN v ELSE announced[e]
  BY <1>2 DEF RoomsInv, RoomsTyped
<1>10. \A e \in Doc : announced'[e] <= Version(e)'
  BY <1>2, <1>8, <1>9 DEF RoomsInv
<1>11. ASSUME NEW e \in Doc, NEW z \in docRoom'[e]
       PROVE  views'[z][e] >= announced'[e]
  <2>1. z \in Socket /\ z \in docRoom[e]
    BY DEF RoomsInv, RoomsTyped
  <2>2. CASE e = d
    <3>1. views'[z] = [views[z] EXCEPT ![d] = v]
      BY <1>4, <2>1, <2>2
    <3>2. views'[z][e] = v /\ announced'[e] = v
      BY <1>5, <1>9, <2>1, <2>2, <3>1
    <3>3. QED
      BY <1>2, <3>2
  <2>3. CASE e # d
    <3>1. views'[z][e] = views[z][e] /\ announced'[e] = announced[e]
      BY <1>4, <1>5, <1>9, <2>1, <2>3
    <3>2. QED
      BY <2>1, <3>1 DEF RoomsInv
  <2>4. QED
    BY <2>2, <2>3
<1>12. QED
  BY <1>1, <1>3, <1>7, <1>10, <1>11 DEF RoomsInv, RoomsTyped

\* The document an operation leaves.
LEMMA DocAfterOperation ==
  ASSUME NEW d \in Created, documents[d] \in CollaborativeDoc, NEW op \in Operation
  PROVE  /\ AfterOperation(d, op) \in CollaborativeDoc
         /\ Version(d) <= AfterOperation(d, op).version
<1>1. documents[d].version \in Nat /\ Version(d) = documents[d].version
  BY DEF CollaborativeDoc, Version, Created
<1>2. CASE IsDuplicate(processed, op)
  BY <1>1, <1>2 DEF AfterOperation
<1>3. CASE ~IsDuplicate(processed, op)
  <2>1. AfterOperation(d, op) = Edited(documents[d], op)
    BY <1>3 DEF AfterOperation
  <2>2. QED
    BY <1>1, <2>1, EditedDoc
<1>4. QED
  BY <1>2, <1>3

\* The document a content leaves.
ContentPut(doc, op) == [doc EXCEPT !.content = op.text, !.version = doc.version + 1]

LEMMA DocAfterContent ==
  ASSUME NEW doc \in CollaborativeDoc, NEW op \in Operation
  PROVE  /\ ContentPut(doc, op) \in CollaborativeDoc
         /\ ContentPut(doc, op).version = doc.version + 1 /\ ContentPut(doc, op).content = op.text
<1>1. PICK text \in Content : text = op.text
  BY OperationFields
<1>2. doc.version + 1 \in Nat \ {0}
  BY DEF CollaborativeDoc
<1>3. ContentPut(doc, op) = [doc EXCEPT !.content = text, !.version = doc.version + 1]
  BY <1>1, Zenon DEF ContentPut
<1>4. QED
  BY <1>1, <1>2, <1>3 DEF CollaborativeDoc

LEMMA RoomsStep == RoomsInv /\ [Next]_vars => RoomsInv'
<1> SUFFICES ASSUME RoomsInv, [Next]_vars PROVE RoomsInv'
  OBVIOUS
<1>1. CASE UNCHANGED <<documents, docRoom, clientVars>>
  BY <1>1 DEF RoomsInv, RoomsTyped, clientVars, Version
<1>2. ASSUME NEW s \in Socket, HandleDisconnect(s) PROVE RoomsInv'
  <2>1. /\ docRoom' = [d \in Doc |-> docRoom[d] \ {s}] /\ views' = [views EXCEPT ![s] = [d \in Doc |-> 0]]
        /\ UNCHANGED <<documents, announced>>
    BY <1>2 DEF HandleDisconnect, docVars
  <2>2. docRoom' \in [Doc -> SUBSET Socket]
    BY <2>1 DEF RoomsInv, RoomsTyped
  <2>3. views' \in [Socket -> [Doc -> Nat]]
    BY <2>1 DEF RoomsInv, RoomsTyped
  <2>4. \A d \in Doc : \A z \in docRoom'[d] : z \in docRoom[d] /\ views'[z] = views[z]
    BY <2>1 DEF RoomsInv, RoomsTyped
  <2>5. QED
    BY <2>1, <2>2, <2>3, <2>4 DEF RoomsInv, RoomsTyped, Version
<1>3. ASSUME NEW s \in Socket, NEW u \in User, NEW d \in Doc, HandleDocJoin(s, u, d) PROVE RoomsInv'
  <2>1. /\ docRoom' = [docRoom EXCEPT ![d] = @ \cup {s}] /\ UNCHANGED <<documents, announced>>
        /\ views' = IF documents[d] # None THEN [views EXCEPT ![s][d] = documents[d].version] ELSE views
    BY <1>3 DEF HandleDocJoin, Created, docVars
  <2>2. docRoom' \in [Doc -> SUBSET Socket] /\ \A e \in Doc : docRoom'[e] = IF e = d THEN docRoom[e] \cup {s} ELSE docRoom[e]
    BY <2>1 DEF RoomsInv, RoomsTyped
  <2>3. documents[d] # None => documents[d].version \in Nat
    BY DEF RoomsInv, RoomsTyped, CollaborativeDoc
  <2>4. views' \in [Socket -> [Doc -> Nat]]
    BY <2>1, <2>3 DEF RoomsInv, RoomsTyped
  <2>5. ASSUME NEW e \in Doc, NEW z \in docRoom'[e]
        PROVE  views'[z][e] >= announced'[e]
    <3>1. z \in Socket /\ views[z] \in [Doc -> Nat] /\ announced'[e] = announced[e] /\ announced[e] \in Nat
      BY <2>1, <2>2 DEF RoomsInv, RoomsTyped
    <3>2. CASE z = s /\ e = d /\ documents[d] # None
      <4>1. views'[z][e] = documents[d].version
        BY <2>1, <3>1, <3>2 DEF RoomsInv, RoomsTyped
      <4>2. announced[d] <= documents[d].version
        BY <3>2 DEF RoomsInv, Version
      <4>3. QED
        BY <2>3, <3>1, <3>2, <4>1, <4>2
    <3>3. CASE z = s /\ e = d /\ documents[d] = None
      <4>1. announced[d] <= 0
        BY <3>3 DEF RoomsInv, Version
      <4>2. views'[z][e] \in Nat
        BY <2>4, <3>1
      <4>3. QED
        BY <3>1, <3>3, <4>1, <4>2
    <3>4. CASE ~(z = s /\ e = d)
      <4>1. z \in docRoom[e] /\ views'[z][e] = views[z][e]
        BY <2>1, <2>2, <3>1, <3>4 DEF RoomsInv, RoomsTyped
      <4>2. QED
        BY <3>1, <4>1 DEF RoomsInv
    <3>5. QED
      BY <3>2, <3>3, <3>4
  <2>6. QED
    BY <2>1, <2>2, <2>4, <2>5 DEF RoomsInv, RoomsTyped, Version
<1>4. ASSUME NEW s \in Socket, NEW d \in Doc, HandleDocLeave(s, d) PROVE RoomsInv'
  <2>1. docRoom' = [docRoom EXCEPT ![d] = @ \ {s}] /\ UNCHANGED <<documents, clientVars>>
    BY <1>4 DEF HandleDocLeave, docVars
  <2>2. docRoom' \in [Doc -> SUBSET Socket] /\ \A e \in Doc : docRoom'[e] \subseteq docRoom[e]
    BY <2>1 DEF RoomsInv, RoomsTyped
  <2>3. QED
    BY <2>1, <2>2 DEF RoomsInv, RoomsTyped, Version, clientVars
<1>5. ASSUME NEW d \in Doc, CreateDocument(d) PROVE RoomsInv'
  <2>1. documents[d] = None /\ documents' = [documents EXCEPT ![d] = NewDoc] /\ UNCHANGED <<docRoom, clientVars>>
    BY <1>5 DEF CreateDocument, Created, roomVars
  <2>2. Version(d) <= NewDoc.version
    BY <2>1, NewDocType DEF Version
  <2>3. QED
    BY <2>1, <2>2, NewDocType, StoredUnseen
<1>6. ASSUME NEW d \in Doc, PutContent(d) PROVE RoomsInv'
  <2>1. d \in Created /\ UNCHANGED <<docRoom, clientVars>>
    BY <1>6 DEF PutContent, roomVars
  <2>2. PICK op \in Operation : documents' = [documents EXCEPT ![d].content = op.text, ![d].version = @ + 1]
    BY <1>6 DEF PutContent
  <2>3. documents[d] \in CollaborativeDoc
    BY <2>1 DEF RoomsInv, RoomsTyped, Created
  <2>4. PICK doc : doc = ContentPut(documents[d], op)
    OBVIOUS
  <2>5. documents' = [documents EXCEPT ![d] = doc]
    BY <2>1, <2>2, <2>4 DEF ContentPut, RoomsInv, RoomsTyped, Created
  <2>6. doc \in CollaborativeDoc /\ doc.version = documents[d].version + 1
    BY <2>3, <2>4, DocAfterContent
  <2>7. Version(d) <= doc.version
    BY <2>3, <2>6 DEF CollaborativeDoc, Version
  <2>8. QED
    BY <2>1, <2>5, <2>6, <2>7, StoredUnseen
<1>7. ASSUME NEW d \in Doc, NEW op \in Operation, PutOperation(d, op) PROVE RoomsInv'
  <2>1. /\ d \in Created /\ UNCHANGED <<docRoom, clientVars>>
        /\ documents' = [documents EXCEPT ![d] = AfterOperation(d, op)]
    BY <1>7 DEF PutOperation, UpdateByOperation, roomVars
  <2>2. documents[d] \in CollaborativeDoc
    BY <2>1 DEF RoomsInv, RoomsTyped, Created
  <2>3. QED
    BY <2>1, <2>2, DocAfterOperation, StoredUnseen
<1>8. ASSUME NEW s \in Socket, NEW d \in Doc, NEW op \in Operation, HandleDocOperation(s, d, op) PROVE RoomsInv'
  <2>1. PICK doc : doc = AfterOperation(d, op)
    OBVIOUS
  <2>2. d \in Created /\ documents[d] \in CollaborativeDoc
    BY <1>8 DEF HandleDocOperation, RoomsInv, RoomsTyped, Created
  <2>3. doc \in CollaborativeDoc
    BY <2>1, <2>2, DocAfterOperation
  <2>4. documents' = [documents EXCEPT ![d] = doc] /\ UNCHANGED docRoom
    BY <1>8, <2>1 DEF HandleDocOperation, UpdateByOperation, roomVars
  <2>5. documents'[d] = doc
    BY <2>4 DEF RoomsInv, RoomsTyped
  <2>6. /\ announced' = [announced EXCEPT ![d] = doc.version]
        /\ views' = [z \in Socket |-> IF z \in docRoom[d] \cup {s} THEN [views[z] EXCEPT ![d] = doc.version]
                                      ELSE views[z]]
    BY <1>8, <2>5 DEF HandleDocOperation
  <2>7. QED
    BY <2>3, <2>4, <2>6, StoredAndSeen
<1>9. QED
  BY <1>1, <1>2, <1>3, <1>4, <1>5, <1>6, <1>7, <1>8
  DEF Next, vars, docVars, roomVars, clientVars, HandlePresenceUpdate, HandleHeartbeat, TimePasses, GetWorkspacePresence,
      HandleConnection, HandleWorkspaceJoin, HandlePostComment

\* Whoever is in the room of a document has every operation that was broadcast
\* of it.
THEOREM RoomsAreUpToDate == Spec => []RoomIsUpToDate
<1>1. Init => RoomsInv
  BY RoomsInit
<1>2. RoomsInv => RoomIsUpToDate
  BY DEF RoomsInv, RoomIsUpToDate, Created
<1>3. QED
  BY <1>1, <1>2, RoomsStep, PTL DEF Spec

-----------------------------------------------------------------------------
(***************************************************************************)
(* Snapshots                                                               *)
(***************************************************************************)
SnapshotRecord == [version : Nat \ {0}, content : Content]

\* The snapshots of a document: newest first, none ahead of it, one content a
\* version.
SnapsFit(doc, snaps) == \A i, j \in DOMAIN snaps :
  /\ snaps[i].version <= doc.version
  /\ i < j => snaps[i].version >= snaps[j].version
  /\ snaps[i].version = snaps[j].version => snaps[i] = snaps[j]
  /\ snaps[i].version = doc.version => snaps[i].content = doc.content

\* A new version has none yet.
LEMMA SnapsKept ==
  ASSUME NEW doc \in CollaborativeDoc, NEW new \in CollaborativeDoc, NEW snaps \in Seq(SnapshotRecord),
         SnapsFit(doc, snaps), new.version = doc.version + 1
  PROVE  SnapsFit(new, snaps)
<1>1. doc.version \in Nat
  BY DEF CollaborativeDoc
<1>2. ASSUME NEW i \in DOMAIN snaps PROVE snaps[i].version \in Nat
  <2>1. snaps[i] \in SnapshotRecord
    OBVIOUS
  <2>2. QED
    BY <2>1 DEF SnapshotRecord
<1>3. QED
  BY <1>1, <1>2 DEF SnapsFit

\* One more snapshot of the version the document has.
LEMMA SnapTaken ==
  ASSUME NEW doc \in CollaborativeDoc, NEW snaps \in Seq(SnapshotRecord), SnapsFit(doc, snaps)
  PROVE  /\ <<Snapshot(doc)>> \o snaps \in Seq(SnapshotRecord)
         /\ SnapsFit(doc, <<Snapshot(doc)>> \o snaps)
<1>1. PICK new \in SnapshotRecord :
        /\ new = Snapshot(doc) /\ new.version = doc.version /\ new.content = doc.content
        /\ \A old \in SnapshotRecord : old.version = new.version /\ old.content = new.content => old = new
  <2>1. doc.version \in Nat \ {0} /\ doc.content \in Content
    BY DEF CollaborativeDoc
  <2>2. PICK v \in Nat \ {0}, c \in Content : v = doc.version /\ c = doc.content
    BY <2>1
  <2>3. Snapshot(doc) = [version |-> v, content |-> c]
    BY <2>2, Zenon DEF Snapshot
  <2>4. PICK new : new = [version |-> v, content |-> c]
    OBVIOUS
  <2>5. new \in SnapshotRecord /\ new.version = v /\ new.content = c
    BY <2>4 DEF SnapshotRecord
  <2>6. ASSUME NEW old \in SnapshotRecord, old.version = v, old.content = c
        PROVE  old = new
    BY <2>4, <2>6 DEF SnapshotRecord
  <2>7. QED
    BY <2>2, <2>3, <2>4, <2>5, <2>6
<1>2. PICK more : more = <<new>> \o snaps
  OBVIOUS
<1>3. /\ more \in Seq(SnapshotRecord) /\ DOMAIN more = 1 .. Len(snaps) + 1 /\ more[1] = new
      /\ \A i \in 2 .. Len(snaps) + 1 : more[i] = snaps[i - 1]
  BY <1>2
<1>4. doc.version \in Nat /\ \A i \in DOMAIN snaps : snaps[i] \in SnapshotRecord
  BY DEF CollaborativeDoc
<1>5. \A i \in DOMAIN snaps : snaps[i].version \in Nat
  BY <1>4 DEF SnapshotRecord
<1>6. ASSUME NEW i \in DOMAIN more, NEW j \in DOMAIN more
      PROVE  /\ more[i].version <= doc.version
             /\ i < j => more[i].version >= more[j].version
             /\ more[i].version = more[j].version => more[i] = more[j]
             /\ more[i].version = doc.version => more[i].content = doc.content
  <2>1. \A k \in DOMAIN more : k = 1 \/ (k \in 2 .. Len(snaps) + 1 /\ k - 1 \in DOMAIN snaps)
    BY <1>3
  <2>2. \A k \in DOMAIN more : k # 1 => more[k] = snaps[k - 1] /\ k - 1 \in DOMAIN snaps /\ k > 1
    BY <1>3, <2>1
  <2>3. CASE i = 1 /\ j = 1
    BY <1>1, <1>3, <1>4, <2>3
  <2>4. CASE i = 1 /\ j # 1
    <3>1. more[j] = snaps[j - 1] /\ j - 1 \in DOMAIN snaps
      BY <2>2, <2>4
    <3>2. /\ more[j].version <= doc.version
          /\ more[j].version = doc.version => more[j].content = doc.content
          /\ more[j] \in SnapshotRecord
      BY <1>4, <3>1 DEF SnapsFit
    <3>3. more[i] = new
      BY <1>3, <2>4
    <3>4. QED
      BY <1>1, <1>4, <3>2, <3>3
  <2>5. CASE i # 1 /\ j = 1
    <3>1. more[i] = snaps[i - 1] /\ i - 1 \in DOMAIN snaps /\ i > 1
      BY <2>2, <2>5
    <3>2. /\ more[i].version <= doc.version
          /\ more[i].version = doc.version => more[i].content = doc.content
          /\ more[i] \in SnapshotRecord
      BY <1>4, <3>1 DEF SnapsFit
    <3>3. more[j] = new
      BY <1>3, <2>5
    <3>4. ~(i < j)
      <4>1. i \in Int
        BY <1>3
      <4>2. QED
        BY <2>5, <3>1, <4>1
    <3>5. more[i].version = doc.version => more[i] = new
      BY <1>1, <3>2
    <3>6. QED
      BY <1>1, <3>2, <3>3, <3>4, <3>5
  <2>6. CASE i # 1 /\ j # 1
    <3>1. /\ more[i] = snaps[i - 1] /\ i - 1 \in DOMAIN snaps
          /\ more[j] = snaps[j - 1] /\ j - 1 \in DOMAIN snaps
      BY <2>2, <2>6
    <3>2. i < j => i - 1 < j - 1
      BY <1>3
    <3>3. QED
      BY <3>1, <3>2 DEF SnapsFit
  <2>7. QED
    BY <2>3, <2>4, <2>5, <2>6
<1>7. SnapsFit(doc, more)
  BY <1>6 DEF SnapsFit
<1>8. QED
  BY <1>1, <1>2, <1>3, <1>7

-----------------------------------------------------------------------------
(***************************************************************************)
(* The table of processed ids                                              *)
(***************************************************************************)
Id == {op.id : op \in Operation}

\* It holds the last ids of those applied, and not too few of them.
Window(seen, all) ==
  /\ Len(seen) <= Len(all) /\ Len(seen) <= ProcessedCap
  /\ \A i \in 1 .. Len(seen) : seen[i] = all[Len(all) - Len(seen) + i]
  /\ Len(seen) = Len(all) \/ Len(seen) >= ProcessedCap + 1 - EvictCount

Apart(all) == \A i, j \in DOMAIN all :
  i < j /\ all[i] = all[j] => j - i > ProcessedCap + 1 - EvictCount

LEMMA WindowMoves ==
  ASSUME NEW seen \in Seq(Id), NEW all \in Seq(Id), Window(seen, all), NEW id \in Id
  PROVE  Remember(seen, id) \in Seq(Id) /\ Window(Remember(seen, id), Append(all, id))
<1>1. PICK n \in Nat, m \in Nat : n = Len(seen) /\ m = Len(all)
  OBVIOUS
<1>2. /\ n <= m /\ n <= ProcessedCap /\ (n = m \/ n >= ProcessedCap + 1 - EvictCount)
      /\ \A i \in 1 .. n : seen[i] = all[m - n + i]
  BY <1>1 DEF Window
<1>3. PICK longer, more : longer = Append(seen, id) /\ more = Append(all, id)
  OBVIOUS
<1>4. /\ longer \in Seq(Id) /\ Len(longer) = n + 1 /\ longer[n + 1] = id /\ \A i \in 1 .. n : longer[i] = seen[i]
      /\ more \in Seq(Id) /\ Len(more) = m + 1 /\ more[m + 1] = id /\ \A i \in 1 .. m : more[i] = all[i]
  BY <1>1, <1>3
<1>5. \A i \in 1 .. n + 1 : longer[i] = more[m - n + i]
  <2> TAKE i \in 1 .. n + 1
  <2>1. CASE i = n + 1
    BY <1>4, <2>1
  <2>2. CASE i # n + 1
    <3>1. i \in 1 .. n /\ m - n + i \in 1 .. m
      BY <1>2, <2>2
    <3>2. QED
      BY <1>2, <1>4, <3>1
  <2>3. QED
    BY <2>1, <2>2
<1>6. CASE n + 1 <= ProcessedCap
  <2>1. Remember(seen, id) = longer
    BY <1>3, <1>4, <1>6, DedupAssumption DEF Remember
  <2>2. Window(longer, more)
    BY <1>2, <1>4, <1>5, <1>6, DedupAssumption DEF Window
  <2>3. QED
    BY <1>3, <1>4, <2>1, <2>2
<1>7. CASE n + 1 > ProcessedCap
  <2>1. n = ProcessedCap /\ EvictCount \in 1 .. n
    BY <1>2, <1>7, DedupAssumption
  <2>2. PICK rest : rest = SubSeq(longer, EvictCount + 1, n + 1)
    OBVIOUS
  <2>3. Remember(seen, id) = rest
    BY <1>3, <1>4, <1>7, <2>2, DedupAssumption DEF Remember
  <2>4. EvictCount + 1 \in Int /\ n + 1 \in Int /\ \A i \in EvictCount + 1 .. n + 1 : longer[i] \in Id
    BY <1>4, <2>1
  <2>5. /\ rest \in Seq(Id)
        /\ Len(rest) = IF EvictCount + 1 <= n + 1 THEN (n + 1) - (EvictCount + 1) + 1 ELSE 0
        /\ \A i \in 1 .. (n + 1) - (EvictCount + 1) + 1 : rest[i] = longer[(EvictCount + 1) + i - 1]
    BY <2>2, <2>4, SubSeqProperties
  <2>6. PICK k \in Nat : k = n + 1 - EvictCount
    BY <2>1
  <2>7. Len(rest) = k /\ \A i \in 1 .. k : rest[i] = longer[EvictCount + i]
    BY <2>1, <2>5, <2>6
  <2>8. \A i \in 1 .. k : rest[i] = more[(m + 1) - k + i]
    <3> TAKE i \in 1 .. k
    <3>1. EvictCount + i \in 1 .. n + 1 /\ m - n + (EvictCount + i) = (m + 1) - k + i
      BY <2>1, <2>6
    <3>2. QED
      BY <1>5, <2>7, <3>1
  <2>9. k <= m + 1 /\ k <= ProcessedCap /\ k >= ProcessedCap + 1 - EvictCount
    BY <1>2, <2>1, <2>6
  <2>10. Window(rest, more)
    BY <1>4, <2>7, <2>8, <2>9 DEF Window
  <2>11. QED
    BY <1>3, <2>3, <2>5, <2>10
<1>8. QED
  BY <1>1, <1>6, <1>7, DedupAssumption

\* An operation that is not in the table is far from its last application.
LEMMA ApartKept ==
  ASSUME NEW seen \in Seq(Id), NEW all \in Seq(Id), Window(seen, all), Apart(all), NEW op \in Operation,
         ~IsDuplicate(seen, op)
  PROVE  Apart(Append(all, op.id))
<1>1. PICK n \in Nat, m \in Nat : n = Len(seen) /\ m = Len(all)
  OBVIOUS
<1>2. PICK more : more = Append(all, op.id)
  OBVIOUS
<1>3. op.id \in Id
  BY DEF Id
<1>4. DOMAIN more = 1 .. m + 1 /\ more[m + 1] = op.id /\ \A i \in 1 .. m : more[i] = all[i]
  BY <1>1, <1>2, <1>3
<1>5. /\ n <= m /\ (n = m \/ n >= ProcessedCap + 1 - EvictCount)
      /\ \A i \in 1 .. n : seen[i] = all[m - n + i]
  BY <1>1 DEF Window
<1>6. \A i \in 1 .. n : seen[i] # op.id
  BY <1>1 DEF IsDuplicate
<1>7. ASSUME NEW i \in 1 .. m, all[i] = op.id
      PROVE  i <= m - n
  <2>1. SUFFICES ASSUME i > m - n PROVE FALSE
    OBVIOUS
  <2>2. i - (m - n) \in 1 .. n /\ m - n + (i - (m - n)) = i
    BY <1>5, <2>1
  <2>3. QED
    BY <1>5, <1>6, <1>7, <2>2
<1>8. ASSUME NEW i \in DOMAIN more, NEW j \in DOMAIN more, i < j, more[i] = more[j]
      PROVE  j - i > ProcessedCap + 1 - EvictCount
  <2>1. CASE j = m + 1
    <3>1. i \in 1 .. m /\ all[i] = op.id
      BY <1>4, <1>8, <2>1
    <3>2. i <= m - n
      BY <1>7, <3>1
    <3>3. QED
      BY <1>5, <2>1, <3>1, <3>2, DedupAssumption
  <2>2. CASE j # m + 1
    <3>1. i \in 1 .. m /\ j \in 1 .. m
      BY <1>4, <1>8, <2>2
    <3>2. i \in DOMAIN all /\ j \in DOMAIN all /\ all[i] = all[j]
      BY <1>1, <1>4, <1>8, <3>1
    <3>3. QED
      BY <1>8, <3>2 DEF Apart
  <2>3. QED
    BY <2>1, <2>2
<1>9. QED
  BY <1>2, <1>8 DEF Apart

-----------------------------------------------------------------------------
(***************************************************************************)
(* The history of a document                                               *)
(***************************************************************************)
\* A document, its log, its snapshots and the number of its direct updates.
\* Nothing is logged of one that was not created.
DocFits(doc, log, snaps, n) ==
  IF doc = None THEN log = <<>> /\ n = 0
  ELSE /\ doc.version = 1 + Len(log) + n
       /\ n = 0 => doc.content = Replay(log)
       /\ SnapsFit(doc, snaps)

DocsTyped ==
  /\ documents \in [Doc -> CollaborativeDoc \cup {None}]
  /\ opLogs \in [Doc -> Seq(Operation)]
  /\ snapshots \in [Doc -> Seq(SnapshotRecord)]
  /\ direct \in [Doc -> Nat]

DocsFit == \A d \in Doc : DocFits(documents[d], opLogs[d], snapshots[d], direct[d])

IdsFit ==
  /\ processed \in Seq(Id) /\ applied \in Seq(Id)
  /\ Window(processed, applied) /\ Apart(applied)

HistoryInv == DocsTyped /\ DocsFit /\ IdsFit

LEMMA FirstSnapshot ==
  /\ <<Snapshot(NewDoc)>> \in Seq(SnapshotRecord)
  /\ DocFits(NewDoc, <<>>, <<Snapshot(NewDoc)>>, 0)
<1>1. PICK none : none = <<>>
  OBVIOUS
<1>2. none \in Seq(SnapshotRecord) /\ DOMAIN none = {}
  BY <1>1
<1>3. SnapsFit(NewDoc, none)
  BY <1>2 DEF SnapsFit
<1>4. PICK one : one = <<Snapshot(NewDoc)>>
  OBVIOUS
<1>5. <<Snapshot(NewDoc)>> \o none = one
  BY <1>4, <1>1
<1>6. one \in Seq(SnapshotRecord) /\ SnapsFit(NewDoc, one)
  BY <1>2, <1>3, <1>5, NewDocType, SnapTaken
<1>7. NewDoc # None /\ NewDoc.version = 1 + Len(<<>>) + 0 /\ NewDoc.content = Replay(<<>>)
  BY NewDocType, NoneAssumption, ReplayOfNothing
<1>8. DocFits(NewDoc, <<>>, one, 0)
  BY <1>6, <1>7 DEF DocFits
<1>9. QED
  BY <1>4, <1>6, <1>8

LEMMA HistoryInit == Init => HistoryInv
<1> SUFFICES ASSUME Init PROVE HistoryInv
  OBVIOUS
<1>1. PICK new, one :
        /\ new = NewDoc /\ one = <<Snapshot(NewDoc)>>
        /\ new \in CollaborativeDoc /\ one \in Seq(SnapshotRecord) /\ DocFits(new, <<>>, one, 0)
  BY NewDocType, FirstSnapshot
<1>2. /\ documents = [d \in Doc |-> IF d \in SeedDocs THEN new ELSE None]
      /\ snapshots = [d \in Doc |-> IF d \in SeedDocs THEN one ELSE <<>>]
      /\ opLogs = [d \in Doc |-> <<>>] /\ direct = [d \in Doc |-> 0]
  BY <1>1 DEF Init
<1>3. \A d \in Doc : /\ documents[d] \in CollaborativeDoc \cup {None} /\ snapshots[d] \in Seq(SnapshotRecord)
                     /\ opLogs[d] \in Seq(Operation) /\ direct[d] \in Nat
  BY <1>1, <1>2
<1>4. DocsTyped
  BY <1>2, <1>3 DEF DocsTyped
<1>5. \A snaps : DocFits(None, <<>>, snaps, 0)
  BY DEF DocFits
<1>6. ASSUME NEW d \in Doc PROVE DocFits(documents[d], opLogs[d], snapshots[d], direct[d])
  <2>1. opLogs[d] = <<>> /\ direct[d] = 0
    BY <1>2
  <2>2. CASE d \in SeedDocs
    <3>1. documents[d] = new /\ snapshots[d] = one
      BY <1>2, <2>2
    <3>2. QED
      BY <1>1, <2>1, <3>1
  <2>3. CASE d \notin SeedDocs
    <3>1. documents[d] = None
      BY <1>2, <2>3
    <3>2. QED
      BY <1>5, <2>1, <3>1
  <2>4. QED
    BY <2>2, <2>3
<1>7. IdsFit
  <2>1. processed = <<>> /\ applied = <<>>
    BY DEF Init
  <2>2. PICK none : none = <<>>
    OBVIOUS
  <2>3. none \in Seq(Id) /\ Len(none) = 0 /\ DOMAIN none = {}
    BY <2>2
  <2>4. Window(none, none)
    BY <2>3, DedupAssumption DEF Window
  <2>5. Apart(none)
    BY <2>3 DEF Apart
  <2>6. QED
    BY <2>1, <2>2, <2>4, <2>5, <2>3 DEF IdsFit
<1>8. QED
  BY <1>4, <1>6, <1>7 DEF HistoryInv, DocsFit

\* What becomes of one document leaves the others as they were.
LEMMA DocStored ==
  ASSUME DocsTyped, DocsFit, NEW d \in Doc, NEW doc \in CollaborativeDoc, NEW log \in Seq(Operation),
         NEW snaps \in Seq(SnapshotRecord), NEW n \in Nat, DocFits(doc, log, snaps, n),
         documents' = [documents EXCEPT ![d] = doc], opLogs' = [opLogs EXCEPT ![d] = log],
         snapshots' = [snapshots EXCEPT ![d] = snaps], direct' = [direct EXCEPT ![d] = n]
  PROVE  DocsTyped' /\ DocsFit'
<1>1. documents' \in [Doc -> CollaborativeDoc \cup {None}]
  BY DEF DocsTyped
<1>2. opLogs' \in [Doc -> Seq(Operation)]
  BY DEF DocsTyped
<1>3. snapshots' \in [Doc -> Seq(SnapshotRecord)]
  BY DEF DocsTyped
<1>4. direct' \in [Doc -> Nat]
  BY DEF DocsTyped
<1>5. \A e \in Doc : e # d =>
        /\ documents'[e] = documents[e] /\ opLogs'[e] = opLogs[e]
        /\ snapshots'[e] = snapshots[e] /\ direct'[e] = direct[e]
  BY DEF DocsTyped
<1>6. documents'[d] = doc /\ opLogs'[d] = log /\ snapshots'[d] = snaps /\ direct'[d] = n
  BY DEF DocsTyped
<1>7. ASSUME NEW e \in Doc PROVE DocFits(documents[e]', opLogs[e]', snapshots[e]', direct[e]')
  <2>1. CASE e = d
    BY <1>6, <2>1
  <2>2. CASE e # d
    <3>1. DocFits(documents[e], opLogs[e], snapshots[e], direct[e])
      BY DEF DocsFit
    <3>2. QED
      BY <1>5, <2>2, <3>1
  <2>3. QED
    BY <2>1, <2>2
<1>8. QED
  BY <1>1, <1>2, <1>3, <1>4, <1>7 DEF DocsTyped, DocsFit

\* Without a change to the ids.
LEMMA IdsKept == IdsFit /\ UNCHANGED <<processed, applied>> => IdsFit'
  BY DEF IdsFit

LEMMA HistoryOfCreate ==
  ASSUME HistoryInv, NEW d \in Doc, CreateDocument(d)
  PROVE  HistoryInv'
<1>1. DocsTyped /\ DocsFit /\ IdsFit
  BY DEF HistoryInv
<1>2. /\ documents[d] = None /\ UNCHANGED <<processed, applied, opLogs, direct>>
      /\ documents' = [documents EXCEPT ![d] = NewDoc]
      /\ snapshots' = [snapshots EXCEPT ![d] = <<Snapshot(NewDoc)>>]
  BY DEF CreateDocument, Created
<1>3. opLogs[d] = <<>> /\ direct[d] = 0
  BY <1>1, <1>2 DEF DocsFit, DocFits
<1>4. opLogs' = [opLogs EXCEPT ![d] = <<>>] /\ direct' = [direct EXCEPT ![d] = 0]
  BY <1>1, <1>2, <1>3 DEF DocsTyped
<1>5. <<>> \in Seq(Operation) /\ 0 \in Nat
  OBVIOUS
<1>6. DocsTyped' /\ DocsFit'
  BY <1>1, <1>2, <1>4, <1>5, NewDocType, FirstSnapshot, DocStored
<1>7. QED
  BY <1>1, <1>2, <1>6, IdsKept DEF HistoryInv

\* A content is a new version, without an operation in the log.
LEMMA HistoryOfContent ==
  ASSUME HistoryInv, NEW d \in Doc, PutContent(d)
  PROVE  HistoryInv'
<1>1. DocsTyped /\ DocsFit /\ IdsFit
  BY DEF HistoryInv
<1>2. /\ d \in Created /\ direct' = [direct EXCEPT ![d] = direct[d] + 1]
      /\ UNCHANGED <<processed, applied, opLogs, snapshots>>
  BY DEF PutContent
<1>3. PICK op \in Operation : documents' = [documents EXCEPT ![d].content = op.text, ![d].version = @ + 1]
  BY DEF PutContent
<1>4. PICK doc : doc = ContentPut(documents[d], op)
  OBVIOUS
<1>5. documents' = [documents EXCEPT ![d] = doc]
  BY <1>1, <1>2, <1>3, <1>4 DEF ContentPut, DocsTyped, Created
<1>6. PICK old \in CollaborativeDoc, log \in Seq(Operation), snaps \in Seq(SnapshotRecord), n \in Nat :
        old = documents[d] /\ log = opLogs[d] /\ snaps = snapshots[d] /\ n = direct[d]
  BY <1>1, <1>2 DEF DocsTyped, Created
<1>7. doc \in CollaborativeDoc /\ doc.version = old.version + 1
  BY <1>4, <1>6, DocAfterContent
<1>8. old.version = 1 + Len(log) + n /\ SnapsFit(old, snaps)
  BY <1>1, <1>2, <1>6 DEF DocsFit, DocFits, Created
<1>9. SnapsFit(doc, snaps)
  BY <1>7, <1>8, SnapsKept
<1>10. doc.version = 1 + Len(log) + (n + 1) /\ n + 1 # 0 /\ n + 1 \in Nat /\ doc # None
  <2>1. Len(log) \in Nat
    OBVIOUS
  <2>2. QED
    BY <1>7, <1>8, <2>1, NoneAssumption
<1>11. DocFits(doc, log, snaps, n + 1)
  BY <1>9, <1>10 DEF DocFits
<1>12. /\ opLogs' = [opLogs EXCEPT ![d] = log] /\ snapshots' = [snapshots EXCEPT ![d] = snaps]
       /\ direct' = [direct EXCEPT ![d] = n + 1]
  BY <1>1, <1>2, <1>6 DEF DocsTyped
<1>13. DocsTyped' /\ DocsFit'
  BY <1>1, <1>5, <1>7, <1>10, <1>11, <1>12, DocStored
<1>14. QED
  BY <1>1, <1>2, <1>13, IdsKept DEF HistoryInv

\* An operation is a new version with one entry more in the log, and a
\* duplicate is nothing; either may take a snapshot.
LEMMA HistoryOfOperation ==
  ASSUME HistoryInv, NEW d \in Created, NEW op \in Operation, UpdateByOperation(d, op)
  PROVE  HistoryInv'
<1>1. DocsTyped /\ DocsFit /\ IdsFit
  BY DEF HistoryInv
<1>2. PICK old \in CollaborativeDoc, log \in Seq(Operation), snaps \in Seq(SnapshotRecord), n \in Nat :
        old = documents[d] /\ log = opLogs[d] /\ snaps = snapshots[d] /\ n = direct[d]
  BY <1>1 DEF DocsTyped, Created
<1>3. /\ d \in Doc /\ old.version = 1 + Len(log) + n /\ (n = 0 => old.content = Replay(log))
      /\ SnapsFit(old, snaps)
  BY <1>1, <1>2 DEF DocsFit, DocFits, Created
<1>4. PICK doc : doc = AfterOperation(d, op)
  OBVIOUS
<1>5. /\ documents' = [documents EXCEPT ![d] = doc] /\ direct' = direct
      /\ snapshots' = IF doc.version % SnapshotEvery = 0
                      THEN [snapshots EXCEPT ![d] = <<Snapshot(doc)>> \o snapshots[d]] ELSE snapshots
  BY <1>4 DEF UpdateByOperation
<1>6. direct' = [direct EXCEPT ![d] = n]
  BY <1>1, <1>2, <1>5 DEF DocsTyped
<1>7. ASSUME doc \in CollaborativeDoc, SnapsFit(doc, snaps)
      PROVE  \E more \in Seq(SnapshotRecord) :
               SnapsFit(doc, more) /\ snapshots' = [snapshots EXCEPT ![d] = more]
  <2>1. CASE doc.version % SnapshotEvery = 0
    <3>1. PICK more : more = <<Snapshot(doc)>> \o snaps
      OBVIOUS
    <3>2. more \in Seq(SnapshotRecord) /\ SnapsFit(doc, more)
      BY <1>7, <3>1, SnapTaken
    <3>3. snapshots' = [snapshots EXCEPT ![d] = more]
      BY <1>2, <1>5, <2>1, <3>1, Zenon
    <3>4. QED
      BY <3>2, <3>3
  <2>2. CASE doc.version % SnapshotEvery # 0
    <3>1. snapshots' = [snapshots EXCEPT ![d] = snaps]
      BY <1>1, <1>2, <1>5, <2>2 DEF DocsTyped
    <3>2. QED
      BY <1>7, <3>1
  <2>3. QED
    BY <2>1, <2>2
<1>8. CASE IsDuplicate(processed, op)
  <2>1. doc = old /\ UNCHANGED <<processed, applied, opLogs>>
    BY <1>2, <1>4, <1>8 DEF AfterOperation, UpdateByOperation
  <2>2. PICK more \in Seq(SnapshotRecord) :
          SnapsFit(doc, more) /\ snapshots' = [snapshots EXCEPT ![d] = more]
    BY <1>3, <1>7, <2>1
  <2>3. opLogs' = [opLogs EXCEPT ![d] = log]
    BY <1>1, <1>2, <2>1 DEF DocsTyped
  <2>4. DocFits(doc, log, more, n)
    BY <1>3, <2>1, <2>2, NoneAssumption DEF DocFits
  <2>5. DocsTyped' /\ DocsFit'
    BY <1>1, <1>3, <1>5, <1>6, <2>1, <2>2, <2>3, <2>4, DocStored
  <2>6. QED
    BY <1>1, <2>1, <2>5, IdsKept DEF HistoryInv
<1>9. CASE ~IsDuplicate(processed, op)
  <2>1. /\ doc = Edited(old, op)
        /\ processed' = Remember(processed, op.id) /\ applied' = Append(applied, op.id)
        /\ opLogs' = [opLogs EXCEPT ![d] = Append(log, op)]
    BY <1>2, <1>4, <1>9 DEF AfterOperation, UpdateByOperation
  <2>2. doc \in CollaborativeDoc /\ doc.version = old.version + 1 /\ doc.content = Mutate(old.content, op)
    BY <2>1, EditedDoc
  <2>3. PICK more \in Seq(SnapshotRecord) :
          SnapsFit(doc, more) /\ snapshots' = [snapshots EXCEPT ![d] = more]
    BY <1>3, <1>7, <2>2, SnapsKept
  <2>4. PICK longer \in Seq(Operation) : longer = Append(log, op) /\ Len(longer) = Len(log) + 1
    <3>1. PICK longer : longer = Append(log, op)
      OBVIOUS
    <3>2. longer \in Seq(Operation) /\ Len(longer) = Len(log) + 1
      BY <3>1
    <3>3. QED
      BY <3>1, <3>2
  <2>5. Replay(longer) = Mutate(Replay(log), op)
    BY <2>4, ReplayGrows
  <2>6. doc.version = 1 + Len(longer) + n /\ (n = 0 => doc.content = Replay(longer))
    <3>1. Len(log) \in Nat
      OBVIOUS
    <3>2. doc.version = 1 + Len(longer) + n
      BY <1>3, <2>2, <2>4, <3>1
    <3>3. n = 0 => doc.content = Replay(longer)
      BY <1>3, <2>2, <2>5
    <3>4. QED
      BY <3>2, <3>3
  <2>7. DocFits(doc, longer, more, n)
    BY <2>2, <2>3, <2>6, NoneAssumption DEF DocFits
  <2>8. opLogs' = [opLogs EXCEPT ![d] = longer]
    BY <2>1, <2>4, Zenon
  <2>9. DocsTyped' /\ DocsFit'
    BY <1>1, <1>3, <1>5, <1>6, <2>2, <2>3, <2>7, <2>8, DocStored
  <2>10. op.id \in Id
    BY DEF Id
  <2>11. PICK id \in Id : id = op.id
    BY <2>10
  <2>12. PICK seen, all : seen = processed /\ all = applied
    OBVIOUS
  <2>13. seen \in Seq(Id) /\ all \in Seq(Id) /\ Window(seen, all) /\ Apart(all)
    BY <1>1, <2>12 DEF IdsFit
  <2>14. Remember(seen, id) \in Seq(Id) /\ Window(Remember(seen, id), Append(all, id))
    BY <2>13, WindowMoves
  <2>15. Apart(Append(all, op.id))
    BY <1>9, <2>12, <2>13, ApartKept
  <2>16. Append(all, id) \in Seq(Id)
    BY <2>13
  <2>17. processed' = Remember(seen, id) /\ applied' = Append(all, id)
    BY <2>1, <2>11, <2>12, Zenon
  <2>18. IdsFit'
    BY <2>11, <2>14, <2>15, <2>16, <2>17 DEF IdsFit
  <2>19. QED
    BY <2>9, <2>18 DEF HistoryInv
<1>10. QED
  BY <1>8, <1>9

LEMMA HistoryStep == HistoryInv /\ [Next]_vars => HistoryInv'
<1> SUFFICES ASSUME HistoryInv, [Next]_vars PROVE HistoryInv'
  OBVIOUS
<1>1. CASE UNCHANGED docVars
  BY <1>1 DEF HistoryInv, DocsTyped, DocsFit, IdsFit, docVars
<1>2. ASSUME NEW d \in Doc, CreateDocument(d) PROVE HistoryInv'
  BY <1>2, HistoryOfCreate
<1>3. ASSUME NEW d \in Doc, PutContent(d) PROVE HistoryInv'
  BY <1>3, HistoryOfContent
<1>4. ASSUME NEW d \in Doc, NEW op \in Operation, PutOperation(d, op) PROVE HistoryInv'
  <2>1. d \in Created /\ UpdateByOperation(d, op)
    BY <1>4 DEF PutOperation
  <2>2. QED
    BY <2>1, HistoryOfOperation
<1>5. ASSUME NEW s \in Socket, NEW d \in Doc, NEW op \in Operation, HandleDocOperation(s, d, op) PROVE HistoryInv'
  <2>1. d \in Created /\ UpdateByOperation(d, op)
    BY <1>5 DEF HandleDocOperation
  <2>2. QED
    BY <2>1, HistoryOfOperation
<1>6. QED
  BY <1>1, <1>2, <1>3, <1>4, <1>5
  DEF Next, vars, HandlePresenceUpdate, HandleHeartbeat, TimePasses, GetWorkspacePresence, HandleConnection,
      HandleDisconnect, HandleWorkspaceJoin, HandleDocJoin, HandleDocLeave, HandlePostComment

\* The past of every document holds together: its log and its direct updates
\* explain its version and its content, its snapshots agree with it and with
\* each other, and a retransmitted operation is applied again only after the
\* eviction of its id.
THEOREM HistoryHoldsTogether == Spec => []DocumentHistory
<1>1. Init => HistoryInv
  BY HistoryInit
<1>2. HistoryInv => DocumentHistory
  <2> SUFFICES ASSUME HistoryInv PROVE DocumentHistory
    OBVIOUS
  <2>1. \A d \in Created : DocFits(documents[d], opLogs[d], snapshots[d], direct[d]) /\ documents[d] # None
    BY DEF HistoryInv, DocsFit, Created
  <2>2. LogExplainsDocument
    BY <2>1 DEF LogExplainsDocument, DocFits
  <2>3. SnapshotsAgree
    BY <2>1 DEF SnapshotsAgree, DocFits, SnapsFit
  <2>4. DedupWindow
    BY DEF HistoryInv, IdsFit, Apart, DedupWindow
  <2>5. QED
    BY <2>2, <2>3, <2>4 DEF DocumentHistory
<1>3. QED
  BY <1>1, <1>2, HistoryStep, PTL DEF Spec

-----------------------------------------------------------------------------
(***************************************************************************)
(* Types, and the cap of the notification feed                             *)
(***************************************************************************)
Notification == [doc : Doc, to : User]
Feed == {list \in Seq(Notification) : Len(list) <= FeedCap}

LEMMA NotifyType ==
  ASSUME NEW list \in Feed, NEW n \in Notification
  PROVE  Notify(list, n) \in Feed
<1>1. list \in Seq(Notification) /\ Len(list) \in Nat /\ Len(list) <= FeedCap /\ FeedCap \in Nat
  BY CollaborationAssumption DEF Feed
<1>2. PICK longer : longer = <<n>> \o list
  OBVIOUS
<1>3. longer \in Seq(Notification) /\ Len(longer) = Len(list) + 1
  BY <1>1, <1>2
<1>4. CASE Len(longer) > FeedCap
  <2>1. PICK shorter : shorter = SubSeq(longer, 1, Len(longer) - 1)
    OBVIOUS
  <2>2. 1 \in Int /\ Len(longer) - 1 \in Int /\ \A i \in 1 .. Len(longer) - 1 : longer[i] \in Notification
    BY <1>1, <1>3
  <2>3. shorter \in Seq(Notification) /\ Len(shorter) = IF 1 <= Len(longer) - 1 THEN (Len(longer) - 1) - 1 + 1 ELSE 0
    BY <2>1, <2>2, SubSeqProperties
  <2>4. Len(shorter) <= FeedCap
    BY <1>1, <1>3, <2>3
  <2>5. Notify(list, n) = shorter
    BY <1>2, <1>4, <2>1 DEF Notify
  <2>6. QED
    BY <2>3, <2>4, <2>5 DEF Feed
<1>5. CASE ~(Len(longer) > FeedCap)
  <2>1. Notify(list, n) = longer
    BY <1>2, <1>5 DEF Notify
  <2>2. QED
    BY <1>1, <1>3, <1>5, <2>1 DEF Feed
<1>6. QED
  BY <1>4, <1>5

\* However many are mentioned, the feed keeps its cap.
LEMMA MentionedType ==
  ASSUME NEW d \in Doc, NEW mentions \in Seq(User), notifications \in Feed
  PROVE  Mentioned(d, mentions) \in Feed
<1>1. PICK n \in Nat : n = Len(mentions)
  OBVIOUS
<1>2. \A i \in 1 .. n : [doc |-> d, to |-> mentions[i]] \in Notification
  BY <1>1 DEF Notification
<1>3. PICK next : next = [x \in (1 .. n) \X Feed |-> Notify(x[2], [doc |-> d, to |-> mentions[x[1]]])]
  OBVIOUS
<1>4. \A i \in 1 .. n : \A list \in Feed : next[<<i, list>>] = Notify(list, [doc |-> d, to |-> mentions[i]])
  BY <1>3
<1>5. next \in [(1 .. n) \X Feed -> Feed]
  BY <1>2, <1>3, NotifyType
<1>6. PICK f \in [0 .. n -> Feed] : f[0] = notifications /\ \A i \in 1 .. n : f[i] = next[<<i, f[i - 1]>>]
  <2>1. \E f : Recursion(f, Feed, notifications, n, next)
    BY <1>5, RecursionExists
  <2>2. QED
    BY <2>1, Zenon DEF Recursion
<1>7. f = [i \in 0 .. n |-> IF i = 0 THEN notifications ELSE Notify(f[i - 1], [doc |-> d, to |-> mentions[i]])]
  <2>1. \A i \in 0 .. n : f[i] = IF i = 0 THEN notifications ELSE Notify(f[i - 1], [doc |-> d, to |-> mentions[i]])
    <3> TAKE i \in 0 .. n
    <3>1. CASE i = 0
      BY <1>6, <3>1
    <3>2. CASE i # 0
      <4>1. i \in 1 .. n /\ i - 1 \in 0 .. n
        BY <3>2
      <4>2. f[i - 1] \in Feed /\ f[i] = next[<<i, f[i - 1]>>]
        BY <1>6, <4>1
      <4>3. QED
        BY <1>4, <3>2, <4>1, <4>2
    <3>3. QED
      BY <3>1, <3>2
  <2>2. f = [i \in 0 .. n |-> f[i]]
    BY <1>6
  <2>3. QED
    BY <2>1, <2>2
<1>8. PICK g : g = CHOOSE sofar : sofar =
        [i \in 0 .. Len(mentions) |->
           IF i = 0 THEN notifications ELSE Notify(sofar[i - 1], [doc |-> d, to |-> mentions[i]])]
  OBVIOUS
<1>9. Mentioned(d, mentions) = g[n]
  BY <1>1, <1>8, Zenon DEF Mentioned
<1>10. g = [i \in 0 .. n |-> IF i = 0 THEN notifications ELSE Notify(g[i - 1], [doc |-> d, to |-> mentions[i]])]
  BY <1>1, <1>7, <1>8, Zenon
<1>11. \A i \in 0 .. n : g[i] = IF i = 0 THEN notifications ELSE Notify(g[i - 1], [doc |-> d, to |-> mentions[i]])
  BY <1>10, Zenon
<1>12. PICK S : S = {m \in Nat : m <= n => g[m] \in Feed}
  OBVIOUS
<1>13. 0 \in S
  <2>1. 0 \in 0 .. n
    OBVIOUS
  <2>2. g[0] = notifications
    BY <1>11, <2>1
  <2>3. QED
    BY <1>12, <2>2
<1>14. ASSUME NEW m \in Nat, m \in S PROVE m + 1 \in S
  <2>1. CASE m + 1 <= n
    <3>1. m + 1 \in 0 .. n /\ m + 1 # 0 /\ (m + 1) - 1 = m /\ m <= n /\ m + 1 \in 1 .. n
      BY <2>1
    <3>2. g[m] \in Feed /\ g[m + 1] = Notify(g[m], [doc |-> d, to |-> mentions[m + 1]])
      BY <1>11, <1>12, <1>14, <3>1
    <3>3. QED
      BY <1>2, <1>12, <3>1, <3>2, NotifyType
  <2>2. CASE ~(m + 1 <= n)
    BY <1>12, <2>2
  <2>3. QED
    BY <2>1, <2>2
<1>15. n \in S
  BY <1>13, <1>14, AllNumbers
<1>16. QED
  BY <1>9, <1>12, <1>15

\* What HistoryInv and RoomsInv say nothing of.
SocketsTyped ==
  /\ connected \subseteq Socket
  /\ sessions \in [Socket -> [user : User, doc : Doc \cup {None}] \cup {None}]
  /\ docRoom \in [Doc -> SUBSET connected]
PresenceTyped == presence \in [User -> UserPresence \cup {None}]
GatewayInv == HistoryInv /\ RoomsInv /\ SocketsTyped /\ PresenceTyped /\ notifications \in Feed

LEMMA FeedStep ==
  ASSUME notifications \in Feed, [Next]_vars
  PROVE  notifications' \in Feed
<1>1. CASE notifications' = notifications
  BY <1>1
<1>2. ASSUME NEW d \in Doc, HandlePostComment(d) PROVE notifications' \in Feed
  <2>1. PICK told \in SUBSET User : \E mentions \in SetToSeqs(told) : notifications' = Mentioned(d, mentions)
    BY <1>2 DEF HandlePostComment
  <2>2. PICK mentions \in SetToSeqs(told) : notifications' = Mentioned(d, mentions)
    BY <2>1
  <2>3. Cardinality(told) \in Nat
    BY CollaborationAssumption, FS_Subset, FS_CardinalityType
  <2>4. mentions \in [1 .. Cardinality(told) -> told]
    BY Zenon DEF SetToSeqs
  <2>5. mentions \in Seq(User)
    BY <2>3, <2>4
  <2>6. QED
    BY <2>2, <2>5, MentionedType
<1>3. QED
  BY <1>1, <1>2
  DEF Next, vars, docVars, HandlePresenceUpdate, HandleHeartbeat, TimePasses, GetWorkspacePresence, HandleConnection,
      HandleDisconnect, HandleWorkspaceJoin, HandleDocJoin, HandleDocLeave, CreateDocument, PutContent,
      PutOperation, HandleDocOperation

LEMMA PresenceOfUpdate ==
  ASSUME NEW entry \in UserPresence \cup {None}, NEW status \in {None, "online", "idle"}, NEW d \in Doc \cup {None}
  PROVE  Updated(entry, status, d) \in UserPresence
BY DEF Updated, UserPresence

LEMMA PresenceOfPrune == PresenceTyped => Pruned \in [User -> UserPresence \cup {None}]
<1> SUFFICES ASSUME PresenceTyped, NEW u \in User
             PROVE  (IF presence[u] # None /\ presence[u].stale /\ presence[u].status # "offline"
                     THEN [presence[u] EXCEPT !.status = "idle"] ELSE presence[u]) \in UserPresence \cup {None}
  BY DEF Pruned
<1>1. PICK entry \in UserPresence \cup {None} : entry = presence[u]
  BY DEF PresenceTyped
<1>2. entry # None => [entry EXCEPT !.status = "idle"] \in UserPresence
  BY DEF UserPresence
<1>3. QED
  BY <1>1, <1>2

LEMMA PresenceStep ==
  ASSUME PresenceTyped, SocketsTyped, [Next]_vars
  PROVE  PresenceTyped'
<1>1. CASE presence' = presence
  BY <1>1 DEF PresenceTyped
<1>2. ASSUME NEW u \in User, NEW entry \in UserPresence, presence' = [presence EXCEPT ![u] = entry]
      PROVE  PresenceTyped'
  BY <1>2 DEF PresenceTyped
<1>3. ASSUME NEW u \in User, HandlePresenceUpdate(u) PROVE PresenceTyped'
  <2>1. PICK status \in {None, "online", "idle"} : presence' = [presence EXCEPT ![u] = Updated(presence[u], status, None)]
    BY <1>3 DEF HandlePresenceUpdate
  <2>2. PICK entry : entry = Updated(presence[u], status, None)
    OBVIOUS
  <2>3. entry \in UserPresence
    BY <2>2, PresenceOfUpdate DEF PresenceTyped
  <2>4. QED
    BY <1>2, <2>1, <2>2, <2>3
<1>4. ASSUME NEW u \in User, presence[u] # None, NEW status \in {"online", "idle", "offline"}, NEW stale \in BOOLEAN,
             presence' = [presence EXCEPT ![u] = [presence[u] EXCEPT !.status = status, !.stale = stale]]
      PROVE  PresenceTyped'
  <2>1. PICK entry \in UserPresence : entry = presence[u]
    BY <1>4 DEF PresenceTyped
  <2>2. PICK new : new = [entry EXCEPT !.status = status, !.stale = stale]
    OBVIOUS
  <2>3. new \in UserPresence
    BY <2>2 DEF UserPresence
  <2>4. QED
    BY <1>2, <1>4, <2>1, <2>2, <2>3
<1>5. ASSUME NEW u \in User, HandleHeartbeat(u) PROVE PresenceTyped'
  BY <1>4, <1>5 DEF HandleHeartbeat
<1>6. ASSUME NEW u \in User, TimePasses(u) PROVE PresenceTyped'
  <2>1. PICK entry \in UserPresence : entry = presence[u]
    BY <1>6 DEF PresenceTyped, TimePasses
  <2>2. PICK new : new = [entry EXCEPT !.stale = TRUE]
    OBVIOUS
  <2>3. new \in UserPresence
    BY <2>2 DEF UserPresence
  <2>4. presence' = [presence EXCEPT ![u] = new]
    BY <1>6, <2>1, <2>2 DEF TimePasses
  <2>5. QED
    BY <1>2, <2>3, <2>4
<1>7. CASE presence' = Pruned
  BY <1>7, PresenceOfPrune DEF PresenceTyped
<1>8. ASSUME NEW s \in Socket, HandleDisconnect(s) PROVE PresenceTyped'
  <2>1. CASE sessions[s] # None /\ presence[sessions[s].user] # None
    <3>1. PICK u \in User : u = sessions[s].user
      BY <2>1 DEF SocketsTyped
    <3>2. presence' = [presence EXCEPT ![u] = [presence[u] EXCEPT !.status = "offline", !.stale = FALSE]]
      BY <1>8, <2>1, <3>1 DEF HandleDisconnect
    <3>3. QED
      BY <1>4, <2>1, <3>1, <3>2
  <2>2. CASE ~(sessions[s] # None /\ presence[sessions[s].user] # None)
    BY <1>1, <1>8, <2>2 DEF HandleDisconnect
  <2>3. QED
    BY <2>1, <2>2
<1>9. ASSUME NEW s \in Socket, NEW u \in User, NEW d \in Doc, HandleDocJoin(s, u, d) PROVE PresenceTyped'
  <2>1. CASE d \in Created
    <3>1. presence' = [presence EXCEPT ![u] = Updated(presence[u], None, d)]
      BY <1>9, <2>1 DEF HandleDocJoin
    <3>2. PICK entry : entry = Updated(presence[u], None, d)
      OBVIOUS
    <3>3. entry \in UserPresence
      BY <3>2, PresenceOfUpdate DEF PresenceTyped
    <3>4. QED
      BY <1>2, <3>1, <3>2, <3>3
  <2>2. CASE d \notin Created
    BY <1>1, <1>9, <2>2 DEF HandleDocJoin
  <2>3. QED
    BY <2>1, <2>2
<1>10. QED
  BY <1>1, <1>3, <1>5, <1>6, <1>7, <1>8, <1>9
  DEF Next, vars, GetWorkspacePresence, HandleConnection, HandleWorkspaceJoin, HandleDocLeave, CreateDocument,
      PutContent, HandlePostComment, PutOperation, HandleDocOperation

LEMMA SocketsStep ==
  ASSUME SocketsTyped, [Next]_vars
  PROVE  SocketsTyped'
<1>1. CASE UNCHANGED roomVars
  BY <1>1 DEF SocketsTyped, roomVars
<1>2. ASSUME NEW s \in Socket, HandleConnection(s) PROVE SocketsTyped'
  BY <1>2 DEF HandleConnection, SocketsTyped
<1>3. ASSUME NEW s \in Socket, HandleDisconnect(s) PROVE SocketsTyped'
  BY <1>3 DEF HandleDisconnect, SocketsTyped
<1>4. ASSUME NEW s \in Socket, NEW u \in User, HandleWorkspaceJoin(s, u) PROVE SocketsTyped'
  BY <1>4 DEF HandleWorkspaceJoin, SocketsTyped
<1>5. ASSUME NEW s \in Socket, NEW u \in User, NEW d \in Doc, HandleDocJoin(s, u, d) PROVE SocketsTyped'
  <2>1. sessions' \in [Socket -> [user : User, doc : Doc \cup {None}] \cup {None}]
    <3>1. CASE sessions[s] = None
      BY <1>5, <3>1 DEF HandleDocJoin, SocketsTyped
    <3>2. CASE sessions[s] # None
      <4>1. PICK old \in [user : User, doc : Doc \cup {None}] : old = sessions[s]
        BY <3>2 DEF SocketsTyped
      <4>2. PICK new : new = [old EXCEPT !.doc = d]
        OBVIOUS
      <4>3. new \in [user : User, doc : Doc \cup {None}]
        BY <4>2
      <4>4. sessions' = [sessions EXCEPT ![s] = new]
        BY <1>5, <3>2, <4>1, <4>2 DEF HandleDocJoin
      <4>5. QED
        BY <4>3, <4>4 DEF SocketsTyped
    <3>3. QED
      BY <3>1, <3>2
  <2>2. s \in connected /\ connected' = connected /\ docRoom' = [docRoom EXCEPT ![d] = docRoom[d] \cup {s}]
    BY <1>5 DEF HandleDocJoin
  <2>3. docRoom' \in [Doc -> SUBSET connected]
    BY <2>2 DEF SocketsTyped
  <2>4. QED
    BY <2>1, <2>2, <2>3 DEF SocketsTyped
<1>6. ASSUME NEW s \in Socket, NEW d \in Doc, HandleDocLeave(s, d) PROVE SocketsTyped'
  BY <1>6 DEF HandleDocLeave, SocketsTyped
<1>7. QED
  BY <1>1, <1>2, <1>3, <1>4, <1>5, <1>6
  DEF Next, vars, HandlePresenceUpdate, HandleHeartbeat, TimePasses, GetWorkspacePresence, CreateDocument,
      PutContent, HandlePostComment, PutOperation, HandleDocOperation

LEMMA GatewayBegins == Init => GatewayInv
<1> SUFFICES ASSUME Init PROVE GatewayInv
  OBVIOUS
<1>1. HistoryInv /\ RoomsInv
  BY HistoryInit, RoomsInit
<1>2. SocketsTyped /\ PresenceTyped
  BY DEF Init, SocketsTyped, PresenceTyped
<1>3. notifications \in Feed
  BY CollaborationAssumption DEF Init, Feed
<1>4. QED
  BY <1>1, <1>2, <1>3 DEF GatewayInv

LEMMA GatewayStep == GatewayInv /\ [Next]_vars => GatewayInv'
BY HistoryStep, RoomsStep, SocketsStep, PresenceStep, FeedStep DEF GatewayInv

LEMMA GatewayPromises == GatewayInv => TypeOK
<1> SUFFICES ASSUME GatewayInv PROVE TypeOK
  OBVIOUS
<1>1. /\ documents \in [Doc -> CollaborativeDoc \cup {None}] /\ opLogs \in [Doc -> Seq(Operation)]
      /\ views \in [Socket -> [Doc -> Nat]]
  BY DEF GatewayInv, HistoryInv, DocsTyped, RoomsInv, RoomsTyped
<1>2. processed \in Seq({op.id : op \in Operation}) /\ Len(processed) <= ProcessedCap
  BY DEF GatewayInv, HistoryInv, IdsFit, Window, Id
<1>3. notifications \in Seq([doc : Doc, to : User]) /\ Len(notifications) <= FeedCap
  BY DEF GatewayInv, Feed, Notification
<1>4. QED
  BY <1>1, <1>2, <1>3 DEF GatewayInv, SocketsTyped, PresenceTyped, TypeOK

\* Every state of the gateway is well typed, no room holds a socket that is
\* closed, and neither the feed of notifications nor the table of processed
\* ids ever exceeds its cap, however many are mentioned in one comment.
THEOREM GatewayTypes == Spec => []TypeOK
BY GatewayBegins, GatewayStep, GatewayPromises, PTL DEF Spec

=============================================================================
