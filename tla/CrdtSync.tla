------------------------------ MODULE CrdtSync ------------------------------
(***************************************************************************)
(* CrdtSyncService: how one operation changes a document, which operations *)
(* count as already processed, and which ones a peer is missing.  These    *)
(* are functions of their arguments; Collaboration and DocReplicas keep    *)
(* the state they work on.                                                 *)
(*                                                                         *)
(* A document's content is a sequence of characters.  An operation is a    *)
(* record with the fields of DocOperation that applyOperation reads;       *)
(* length = 0 stands for an absent length.                                 *)
(***************************************************************************)
EXTENDS Naturals, Sequences, FiniteSetsExt

CONSTANTS User,
          ProcessedCap, \* ids remembered before the oldest are evicted (10000)
          EvictCount    \* ids evicted at once (1000)

ASSUME DedupAssumption == ProcessedCap \in Nat /\ EvictCount \in 1 .. ProcessedCap

NoClock == [u \in User |-> 0]

\* Fault variant of Remember: one id more than EvictCount goes.
RememberOffByOne(processed, id) ==
  LET seen == Append(processed, id)
  IN IF Len(seen) > ProcessedCap THEN SubSeq(seen, EvictCount + 2, Len(seen)) ELSE seen

\* The Set of processed ids, in the order of insertion, after one more.
Remember(processed, id) ==
  LET seen == Append(processed, id)
  IN IF Len(seen) > ProcessedCap THEN SubSeq(seen, EvictCount + 1, Len(seen)) ELSE seen

IsDuplicate(processed, op) == \E i \in DOMAIN processed : processed[i] = op.id

DeleteLength(op) == IF op.length # 0 THEN op.length
                    ELSE IF op.text # <<>> THEN Len(op.text) ELSE 1

\* The position is only clamped into the content, never moved past the
\* operations that the sender had not seen.
Mutate(content, op) ==
  LET pos == Min({op.pos, Len(content)})
      before == SubSeq(content, 1, pos)
  IN CASE op.type = "insert"  -> before \o op.text \o SubSeq(content, pos + 1, Len(content))
       [] op.type = "delete"  -> before \o SubSeq(content, pos + DeleteLength(op) + 1, Len(content))
       [] op.type = "replace" -> op.text

\* The document that an operation not seen before leaves.
Edited(doc, op) ==
  [doc EXCEPT !.content = Mutate(@, op),
              !.version = @ + 1,
              !.clock = [doc.clock EXCEPT ![op.user] = @ + 1]]

\* What a peer with the given vector clock has not seen, by the stamps of
\* the operations (not by the clock that applyOperation counts).
MissingOperations(log, clock) ==
  SelectSeq(log, LAMBDA op : op.clock[op.user] > clock[op.user])
=============================================================================
