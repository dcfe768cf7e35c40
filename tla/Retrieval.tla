----------------------------- MODULE Retrieval ------------------------------
(***************************************************************************)
(* HybridRetrieverService.retrieve, one action per chunk it scores, and    *)
(* ContextBuilderService.buildContext, one action per block it adds.  A    *)
(* chunk is its score for the question and whether the filters let it by.  *)
(***************************************************************************)
EXTENDS Naturals, SequencesExt, FiniteSets

CONSTANTS TopK, MinScore, MaxScore,
          MaxChunks,                \* bound: chunks of a repository
          MaxContextTokens, Sizes,  \* the budget, and the sizes of a block
          None

VARIABLES chunks,     \* the chunks of the request, None before it
          candidates, \* those it searches: indices into chunks, in order
          scored,     \* those it keeps
          selected,   \* the best of these, best first; None before the end
          blocks      \* the sizes of the blocks in the context, None likewise

vars == <<chunks, candidates, scored, selected, blocks>>

Chunk == [matches : BOOLEAN, score : 0 .. MaxScore]

Init ==
  /\ chunks = None /\ candidates = <<>> /\ scored = <<>>
  /\ selected = None /\ blocks = None

-----------------------------------------------------------------------------
\* The filters; when nothing passes them, everything is searched.
Matching(all) ==
  LET every == [i \in DOMAIN all |-> i]
      some == SelectSeq(every, LAMBDA i : all[i].matches)
  IN IF some = <<>> THEN every ELSE some

Retrieve(all) ==
  /\ chunks = None
  /\ chunks' = all
  /\ candidates' = Matching(all)
  /\ UNCHANGED <<scored, selected, blocks>>

\* Fault variant of Keeps: the first of the list are kept, not the best.
KeepsFirst(i) == Len(scored) < TopK

\* A low score is kept as long as there are not enough of any kind.
Keeps(i) == chunks[i].score >= MinScore \/ Len(scored) < TopK

ScoreChunk ==
  /\ candidates # <<>>
  /\ LET i == Head(candidates) IN scored' = IF Keeps(i) THEN Append(scored, i) ELSE scored
  /\ candidates' = Tail(candidates)
  /\ UNCHANGED <<chunks, selected, blocks>>

\* sort is stable.  The fallback for an empty selection finds nothing either.
Better(i, j) == \/ chunks[i].score > chunks[j].score
                \/ chunks[i].score = chunks[j].score /\ i < j
Best(kept) == LET sorted == SetToSortSeq(ToSet(kept), Better)
              IN SubSeq(sorted, 1, IF Len(sorted) < TopK THEN Len(sorted) ELSE TopK)

SelectTopK ==
  /\ chunks # None /\ candidates = <<>> /\ selected = None
  /\ selected' = Best(scored)
  /\ blocks' = <<>>
  /\ UNCHANGED <<chunks, candidates, scored>>

Tokens(sizes) == FoldSeq(LAMBDA size, n : n + size, 0, sizes)

\* The first block is taken whatever its size; the first of the others that
\* exceeds the budget ends the loop.
Fits(size) == blocks = <<>> \/ Tokens(blocks) + size <= MaxContextTokens

AddBlock(size) ==
  /\ selected # None /\ Len(blocks) < Len(selected) /\ Fits(size)
  /\ blocks' = Append(blocks, size)
  /\ UNCHANGED <<chunks, candidates, scored, selected>>

Next ==
  \/ \E n \in 0 .. MaxChunks : \E all \in [1 .. n -> Chunk] : Retrieve(all)
  \/ ScoreChunk \/ SelectTopK
  \/ \E size \in Sizes : AddBlock(size)

Spec == Init /\ [][Next]_vars

-----------------------------------------------------------------------------
(***************************************************************************)
(* Properties                                                              *)
(***************************************************************************)
Least(a, b) == IF a < b THEN a ELSE b

\* Types; no chunk is searched, kept or put in the context twice.
TypeOK ==
  /\ chunks = None \/ chunks \in Seq(Chunk)
  /\ \A s \in {candidates, scored} : s # <<>> => IsInjective(s) /\ ToSet(s) \subseteq DOMAIN chunks
  /\ blocks = None \/ blocks \in Seq(Sizes)
  /\ blocks # None => Len(blocks) <= Len(selected)

\* The evidence of an answer: as many chunks as asked for or as there are,
\* out of those that pass the filters if any does; never a chunk below the
\* threshold, nor one worse than a chunk left out, while enough chunks reach
\* it; and a context within its budget unless its first block alone is not.
BestAreSelected ==
  /\ selected # None =>
       LET searched == ToSet(Matching(chunks))
           chosen == ToSet(selected)
           good == {i \in searched : chunks[i].score >= MinScore}
       IN /\ Cardinality(chosen) = Least(TopK, Cardinality(searched)) /\ chosen \subseteq searched
          /\ \A i \in good \ chosen : \A j \in chosen : chunks[j].score >= chunks[i].score
          /\ Cardinality(good) >= TopK => chosen \subseteq good
          /\ \A i \in 1 .. Len(selected) - 1 : chunks[selected[i]].score >= chunks[selected[i + 1]].score
  /\ blocks # None /\ Len(blocks) > 1 => Tokens(blocks) <= MaxContextTokens
=============================================================================
