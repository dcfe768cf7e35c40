---------------------------- MODULE DocReplicas -----------------------------
(***************************************************************************)
(* Distributed peers, each with a CrdtSyncService of its own, edit one     *)
(* document and synchronise by vector clock.  This is what the class says  *)
(* it is for ("state convergence across distributed peers"); the server in *)
(* this repository runs a single instance (see Collaboration).             *)
(***************************************************************************)
EXTENDS CrdtSync

CONSTANTS Char,     \* what an insert may insert
          MaxEdits  \* bound: edits of one user

VARIABLES doc,       \* doc[u]: the copy that user u edits
          processed, \* processed[u]: ids its service has processed
          log        \* log[u]: the operation log of its service

vars == <<doc, processed, log>>

Init ==
  /\ doc = [u \in User |-> [content |-> <<>>, version |-> 1, clock |-> NoClock]]
  /\ processed = [u \in User |-> <<>>]
  /\ log = [u \in User |-> <<>>]

\* applyOperation at the peer of u.
ApplyOperation(u, op) ==
  /\ ~IsDuplicate(processed[u], op)
  /\ processed' = [processed EXCEPT ![u] = Remember(@, op.id)]
  /\ doc' = [doc EXCEPT ![u] = Edited(@, op)]
  /\ log' = [log EXCEPT ![u] = Append(@, op)]

\* A user edits its own copy; the operation is stamped with the clock that
\* applying it gives.
LocalEdit(u) ==
  LET stamp == [doc[u].clock EXCEPT ![u] = @ + 1] IN
  /\ stamp[u] <= MaxEdits
  /\ \E c \in Char, pos \in 0 .. Len(doc[u].content) :
       ApplyOperation(u, [id |-> <<u, stamp[u]>>, user |-> u, type |-> "insert",
                          pos |-> pos, text |-> <<c>>, length |-> 0, clock |-> stamp])

\* The peer of u asks the peer of w for what it misses and applies the first
\* of it; asking again brings the rest, in the order of w's log.
Synchronise(u, w) ==
  LET missing == MissingOperations(log[w], doc[u].clock) IN
  missing # <<>> /\ ApplyOperation(u, Head(missing))

Next == \E u \in User : LocalEdit(u) \/ \E w \in User \ {u} : Synchronise(u, w)

Spec == Init /\ [][Next]_vars

-----------------------------------------------------------------------------
\* Two peers that have applied the same operations (their vector clocks are
\* equal) hold the same content: the convergence that the documentation of
\* applyOperation promises.
Convergence ==
  \A u, w \in User : doc[u].clock = doc[w].clock => doc[u].content = doc[w].content
=============================================================================
