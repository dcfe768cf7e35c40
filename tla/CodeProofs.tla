------------------------------ MODULE CodeProofs ------------------------------
(***************************************************************************)
(* What the platform does with the files of a repository: chunkers,        *)
(* parsers, the search for circular imports and the tests generated for    *)
(* them, for any files and any sizes; and the executions of jobs, for any  *)
(* batches.  Each has an invariant of its own, as in PlatformProofs.       *)
(***************************************************************************)
EXTENDS MCPlatform, FiniteSetTheorems, SequenceTheorems, WellFoundedInduction, TLAPS

\* Any set of natural numbers has a least one.
LEMMA SmallestOne ==
  ASSUME NEW S, S \subseteq Nat, S # {}
  PROVE  \E n \in S : \A k \in S : n <= k
<1>1. PICK n \in S : \A k \in S : <<k, n>> \notin OpToRel(<, Nat)
  BY WFMin, NatLessThanWellFounded, Zenon
<1>2. \A k \in S : ~(k < n)
  BY <1>1 DEF OpToRel
<1>3. QED
  BY <1>2

-----------------------------------------------------------------------------
(***************************************************************************)
(* Chunkers                                                                *)
(***************************************************************************)
Piece == [from : Int, to : Int]
ChunkTask == [how : {"split", "blocks", "symbol"}, start : Nat, lines : Nat \ {0}]

\* How far chunks may overlap, and how long they may be.
OverlapOf(t) == IF t.how = "split" THEN Overlap ELSE 0
LongestOf(t) == IF t.how = "split" THEN Chunker!Max2(MaxChunkLines, WindowSize) ELSE BlockSize

\* The pieces so far go on from each other, none of them longer than it may be.
Tiled(start, overlap, longest, ps) ==
  /\ Len(ps) > 0 => ps[1].from = start
  /\ \A i \in 1 .. Len(ps) : ps[i].to - ps[i].from + 1 <= longest
  /\ \A i \in 1 .. Len(ps) - 1 : /\ ps[i + 1].from = ps[i].to + 1 - overlap
                                 /\ ps[i + 1].to > ps[i].to

\* Where the loop goes on: before the last line, the overlap before the end of
\* the last piece; when it is over, the last piece ends on the last line.
GoesOnFrom(start, lines, overlap, ps, i) ==
  /\ i # None => /\ i \in Nat /\ i < lines
                 /\ Len(ps) = 0 => i = 0
                 /\ Len(ps) > 0 => /\ start + i = ps[Len(ps)].to + 1 - overlap
                                   /\ ps[Len(ps)].to < start + lines - 1
  /\ i = None => Len(ps) > 0 /\ ps[Len(ps)].to = start + lines - 1

InLines(start, lines, ps) == \A i \in 1 .. Len(ps) :
  start <= ps[i].from /\ ps[i].from <= ps[i].to /\ ps[i].to <= start + lines - 1

\* Nothing is chunked, or a file, and then the loop holds to the above.
ChunkerInv ==
  /\ pieces \in Seq(Piece)
  /\ task = None => at = None /\ pieces = <<>>
  /\ task # None => /\ task \in ChunkTask /\ (task.how # "split" => task.start = 1) /\ InLines(task.start, task.lines, pieces)
                    /\ IF task.how = "symbol" THEN at = None
                       ELSE /\ Tiled(task.start, OverlapOf(task), LongestOf(task), pieces)
                            /\ GoesOnFrom(task.start, task.lines, OverlapOf(task), pieces, at)

\* No task and no place in a file is None.
LEMMA ChunkTaskNone == None \notin ChunkTask /\ None \notin Nat
BY ChunkerAssumption DEF ChunkTask

\* A sequence with one element more.
LEMMA OneMore ==
  ASSUME NEW S, NEW s \in Seq(S), NEW x \in S, NEW more, more = Append(s, x)
  PROVE  /\ more \in Seq(S) /\ Len(s) \in Nat /\ Len(more) = Len(s) + 1 /\ more[Len(s) + 1] = x
         /\ \A j \in 1 .. Len(s) : more[j] = s[j]
OBVIOUS

LEMMA Elements == ASSUME NEW S, NEW s \in Seq(S) PROVE \A j \in 1 .. Len(s) : s[j] \in S
OBVIOUS

LEMMA OnlyOne == ASSUME NEW S, NEW x \in S, NEW s, s = <<x>> PROVE s \in Seq(S) /\ Len(s) = 1 /\ s[1] = x
OBVIOUS

LEMMA NoneYet == ASSUME NEW S, NEW s, s = <<>> PROVE s \in Seq(S) /\ Len(s) = 0
OBVIOUS

\* The fields of a piece.
LEMMA PieceOf ==
  ASSUME NEW first \in Int, NEW last \in Int, NEW piece, piece = [from |-> first, to |-> last]
  PROVE  piece \in Piece /\ piece.from = first /\ piece.to = last
BY DEF Piece

\* A chunker starts without a file.
LEMMA ChunkerInit == Chunker!Init => ChunkerInv
BY DEF Chunker!Init, ChunkerInv

\* A turn of a loop: the piece from line i on, at most so long and within the
\* lines, and where the next turn begins.
Turn(start, lines, overlap, longer, i, first, last, next) ==
  /\ first = start + i
  /\ last <= start + i + longer - 1 /\ last <= start + lines - 1
  /\ last = start + i + longer - 1 \/ last = start + lines - 1
  /\ i + longer >= lines => next = None
  /\ i + longer < lines => next = i + longer - overlap

\* The sizes with which a loop runs, and how far it has come.
Sized(start, lines, overlap, longer, longest) ==
  /\ start \in Nat /\ lines \in Nat /\ 0 < lines
  /\ overlap \in Nat /\ longer \in Nat /\ longest \in Nat /\ overlap < longer /\ longer <= longest

Cut(start, lines, overlap, longest, ps, i) ==
  /\ ps \in Seq(Piece) /\ InLines(start, lines, ps) /\ Tiled(start, overlap, longest, ps)
  /\ GoesOnFrom(start, lines, overlap, ps, i)

\* One piece more.
LEMMA PieceAdded ==
  ASSUME NEW start, NEW lines, NEW overlap, NEW longer, NEW longest, Sized(start, lines, overlap, longer, longest),
         NEW ps, NEW i \in Nat, Cut(start, lines, overlap, longest, ps, i),
         NEW first \in Int, NEW last \in Int, NEW next, Turn(start, lines, overlap, longer, i, first, last, next),
         NEW more, more = Append(ps, [from |-> first, to |-> last])
  PROVE  Cut(start, lines, overlap, longest, more, next)
<1>1. /\ start \in Nat /\ lines \in Nat /\ 0 < lines /\ overlap \in Nat /\ longer \in Nat /\ longest \in Nat
      /\ overlap < longer /\ longer <= longest
  BY DEF Sized
<1>2. /\ ps \in Seq(Piece) /\ Tiled(start, overlap, longest, ps) /\ GoesOnFrom(start, lines, overlap, ps, i)
      /\ InLines(start, lines, ps)
  BY DEF Cut
<1>3. PICK piece : piece = [from |-> first, to |-> last]
  OBVIOUS
<1>4. piece \in Piece /\ piece.from = first /\ piece.to = last /\ more = Append(ps, piece)
  BY <1>3, PieceOf, Zenon
<1> USE <1>1, <1>2, <1>4
<1>5. /\ first = start + i /\ last <= start + i + longer - 1 /\ last <= start + lines - 1
      /\ last = start + i + longer - 1 \/ last = start + lines - 1
  BY Zenon DEF Turn
<1>6. (i + longer >= lines => next = None) /\ (i + longer < lines => next = i + longer - overlap)
  BY Zenon DEF Turn
<1>7. more \in Seq(Piece)
  BY OneMore, Zenon
<1>8. PICK n \in Nat : /\ n = Len(ps) /\ Len(more) = n + 1 /\ more[n + 1] = piece /\ \A j \in 1 .. n : more[j] = ps[j]
                      /\ \A j \in 1 .. n : ps[j] \in Piece
  <2>1. /\ Len(ps) \in Nat /\ Len(more) = Len(ps) + 1 /\ more[Len(ps) + 1] = piece
        /\ \A j \in 1 .. Len(ps) : more[j] = ps[j]
    BY OneMore
  <2>2. \A j \in 1 .. Len(ps) : ps[j] \in Piece
    BY Elements, Zenon
  <2>3. QED
    BY <2>1, <2>2, Zenon
<1>9. None # i
  BY ChunkTaskNone
<1>10. i < lines /\ (n = 0 => i = 0) /\ (n > 0 => start + i = ps[n].to + 1 - overlap /\ ps[n].to < start + lines - 1)
  BY <1>8, <1>9 DEF GoesOnFrom
<1>11. \A j \in 1 .. n : ps[j].to \in Int /\ ps[j].from \in Int
  BY <1>8 DEF Piece
<1>12. InLines(start, lines, more)
  <2>1. start <= first /\ first <= last /\ last <= start + lines - 1
    <3>1. i < lines
      BY <1>10, Zenon
    <3>2. QED
      BY <3>1, <1>5
  <2>2. \A j \in 1 .. n : start <= ps[j].from /\ ps[j].from <= ps[j].to /\ ps[j].to <= start + lines - 1
    BY <1>8 DEF InLines
  <2>3. \A j \in 1 .. n + 1 : j \in 1 .. n \/ j = n + 1
    OBVIOUS
  <2>4. QED
    BY <1>8, <2>1, <2>2, <2>3 DEF InLines
<1>13. \A j \in 1 .. n + 1 : more[j].to - more[j].from + 1 <= longest
  <2>1. last - first + 1 <= longest
    BY <1>5
  <2>2. \A j \in 1 .. n : ps[j].to - ps[j].from + 1 <= longest
    BY <1>8 DEF Tiled
  <2>3. QED
    BY <1>8, <2>1, <2>2
<1>14. more[1].from = start
  <2>1. n = 0 => first = start
    BY <1>10, <1>5
  <2>2. n > 0 => ps[1].from = start
    BY <1>8 DEF Tiled
  <2>3. QED
    BY <1>8, <2>1, <2>2
<1>15. n > 0 => piece.from = ps[n].to + 1 - overlap /\ piece.to > ps[n].to
  <2> SUFFICES ASSUME n > 0 PROVE piece.from = ps[n].to + 1 - overlap /\ piece.to > ps[n].to
    OBVIOUS
  <2>1. PICK e \in Int : e = ps[n].to
    BY <1>11
  <2>2. start + i = e + 1 - overlap /\ e < start + lines - 1
    BY <1>10, <2>1
  <2>3. first = e + 1 - overlap /\ last > e
    BY <2>2, <1>5
  <2>4. QED
    BY <2>1, <2>3
<1>16. \A j \in 1 .. n : more[j + 1].from = more[j].to + 1 - overlap /\ more[j + 1].to > more[j].to
  <2> SUFFICES ASSUME NEW j \in 1 .. n
               PROVE  more[j + 1].from = more[j].to + 1 - overlap /\ more[j + 1].to > more[j].to
    OBVIOUS
  <2>1. CASE j = n
    BY <1>8, <1>15, <2>1
  <2>2. CASE j # n
    <3>1. j \in 1 .. n - 1 /\ j \in 1 .. n /\ j + 1 \in 1 .. n
      BY <2>2
    <3>2. ps[j + 1].from = ps[j].to + 1 - overlap /\ ps[j + 1].to > ps[j].to
      BY <1>8, <3>1 DEF Tiled
    <3>3. more[j + 1] = ps[j + 1] /\ more[j] = ps[j]
      BY <1>8, <3>1
    <3>4. QED
      BY <3>2, <3>3
  <2>3. QED
    BY <2>1, <2>2
<1>17. Tiled(start, overlap, longest, more)
  <2>1. 1 .. Len(more) = 1 .. n + 1 /\ 1 .. Len(more) - 1 = 1 .. n
    BY <1>8
  <2>2. QED
    BY <2>1, <1>13, <1>14, <1>16 DEF Tiled
<1>18. ASSUME i + longer >= lines PROVE GoesOnFrom(start, lines, overlap, more, None)
  <2>1. last = start + lines - 1
    BY <1>18, <1>5
  <2>2. more[Len(more)].to = last /\ Len(more) > 0
    BY <1>8
  <2>3. QED
    BY <2>1, <2>2 DEF GoesOnFrom
<1>19. ASSUME i + longer < lines PROVE GoesOnFrom(start, lines, overlap, more, i + longer - overlap)
  <2>1. PICK k \in Nat : k = i + longer - overlap
    OBVIOUS
  <2>2. last = start + i + longer - 1
    BY <1>19, <1>5
  <2>3. k < lines /\ start + k = last + 1 - overlap /\ last < start + lines - 1 /\ k # None
    BY <1>19, <2>1, <2>2, ChunkTaskNone
  <2>4. more[Len(more)].to = last /\ Len(more) > 0
    BY <1>8
  <2>5. GoesOnFrom(start, lines, overlap, more, k)
    <3>1. Len(more) # 0
      BY <2>4
    <3>2. start + k = more[Len(more)].to + 1 - overlap /\ more[Len(more)].to < start + lines - 1
      BY <2>3, <2>4, Zenon
    <3>3. QED
      BY <2>1, <2>3, <3>1, <3>2, Zenon DEF GoesOnFrom
  <2>6. QED
    BY <2>1, <2>5
<1>20. QED
  <2>1. i + longer >= lines \/ i + longer < lines
    OBVIOUS
  <2>2. QED
    BY <1>7, <1>12, <1>17, <1>18, <1>19, <1>6, <2>1, Zenon DEF Cut

\* A file that is chunked as one block, or begins to be split, keeps the invariant.
LEMMA ProcessKeeps ==
  ASSUME ChunkerInv, NEW lines \in 1 .. MaxLines, NEW start \in Starts, NEW long \in BOOLEAN,
         Chunker!ProcessChunk(start, lines, long)
  PROVE  ChunkerInv'
<1>1. start \in Nat /\ lines \in Nat /\ 0 < lines
  BY ChunkerAssumption
<1>2. PICK t \in ChunkTask : t = [how |-> "split", start |-> start, lines |-> lines] /\ task' = t
  BY <1>1 DEF Chunker!ProcessChunk, ChunkTask
<1>3. t # None /\ t.how = "split" /\ t.start = start /\ t.lines = lines
  BY <1>2, ChunkTaskNone
<1>4. PICK overlap, longest : overlap = OverlapOf(t) /\ longest = LongestOf(t)
  OBVIOUS
<1>5. longest \in Nat /\ MaxChunkLines <= longest
  BY <1>3, <1>4, ChunkerAssumption DEF LongestOf, Chunker!Max2
<1>6. CASE lines <= MaxChunkLines /\ ~long
  <2>1. PICK last \in Int : last = start + lines - 1
    BY <1>1
  <2>2. PICK piece : piece = [from |-> start, to |-> last]
    OBVIOUS
  <2>3. piece \in Piece /\ piece.from = start /\ piece.to = last
    BY <1>1, <2>2, PieceOf
  <2>4. at' = None /\ pieces' = <<piece>>
    BY <1>6, <2>1, <2>2 DEF Chunker!ProcessChunk
  <2>5. PICK ps : ps = <<piece>>
    OBVIOUS
  <2>6. ps \in Seq(Piece) /\ Len(ps) = 1 /\ ps[1] = piece
    BY <2>3, <2>5, OnlyOne, Zenon
  <2>7. InLines(start, lines, ps) /\ GoesOnFrom(start, lines, overlap, ps, None)
    BY <1>1, <2>1, <2>3, <2>6 DEF InLines, GoesOnFrom
  <2>8. last - start + 1 <= longest
    BY <1>1, <1>5, <1>6, <2>1, ChunkerAssumption
  <2>9. Tiled(start, overlap, longest, ps)
    BY <2>3, <2>6, <2>8 DEF Tiled
  <2>10. QED
    BY <1>2, <1>3, <1>4, <2>4, <2>5, <2>6, <2>7, <2>9 DEF ChunkerInv
<1>7. CASE ~(lines <= MaxChunkLines /\ ~long)
  <2>1. at' = 0 /\ pieces' = <<>>
    BY <1>7 DEF Chunker!ProcessChunk
  <2>2. PICK ps \in Seq(Piece) : ps = <<>> /\ Len(ps) = 0
    BY NoneYet, Zenon
  <2>3. InLines(start, lines, ps) /\ Tiled(start, overlap, longest, ps) /\ GoesOnFrom(start, lines, overlap, ps, 0)
    BY <1>1, <2>2, ChunkTaskNone DEF InLines, Tiled, GoesOnFrom
  <2>4. QED
    BY <1>2, <1>3, <1>4, <2>1, <2>2, <2>3 DEF ChunkerInv
<1>8. QED
  BY <1>6, <1>7

\* So does a whole file, of however many lines,
LEMMA ChunkFileKeeps ==
  ASSUME ChunkerInv, NEW lines \in 1 .. MaxLines, Chunker!ChunkFile(lines)
  PROVE  ChunkerInv'
<1>1. lines \in Nat /\ 0 < lines
  BY ChunkerAssumption
<1>2. PICK t \in ChunkTask : t = [how |-> "blocks", start |-> 1, lines |-> lines] /\ task' = t
  BY <1>1 DEF Chunker!ChunkFile, ChunkTask
<1>3. t # None /\ t.how = "blocks" /\ t.start = 1 /\ t.lines = lines
  BY <1>2, ChunkTaskNone
<1>4. PICK overlap, longest : overlap = OverlapOf(t) /\ longest = LongestOf(t)
  OBVIOUS
<1>5. at' = 0 /\ pieces' = <<>>
  BY DEF Chunker!ChunkFile
<1>6. PICK ps \in Seq(Piece) : ps = <<>> /\ Len(ps) = 0
  BY NoneYet, Zenon
<1>7. InLines(1, lines, ps) /\ Tiled(1, overlap, longest, ps) /\ GoesOnFrom(1, lines, overlap, ps, 0)
  BY <1>1, <1>6, ChunkTaskNone DEF InLines, Tiled, GoesOnFrom
<1>8. QED
  BY <1>2, <1>3, <1>4, <1>5, <1>6, <1>7 DEF ChunkerInv

\* a file with symbols of its own,
LEMMA ChunkSymbolsKeeps ==
  ASSUME ChunkerInv, NEW lines \in {1, MaxLines}, NEW from \in 0 .. lines,
         NEW to \in {Chunker!Max2(1, from), lines + 1}, Chunker!ChunkSymbols(lines, from, to)
  PROVE  ChunkerInv'
<1>1. lines \in Nat /\ 0 < lines /\ from \in Nat /\ from <= lines
  BY ChunkerAssumption
<1>2. PICK t \in ChunkTask : t = [how |-> "symbol", start |-> 1, lines |-> lines] /\ task' = t
  BY <1>1 DEF Chunker!ChunkSymbols, ChunkTask
<1>3. t # None /\ t.how = "symbol" /\ t.start = 1 /\ t.lines = lines
  BY <1>2, ChunkTaskNone
<1>4. PICK first, last \in Int : /\ first = Chunker!Max2(1, from) /\ last = Chunker!Min2(lines, to)
                                 /\ 1 <= first /\ first <= last /\ last <= lines
  BY <1>1 DEF Chunker!Max2, Chunker!Min2
<1>5. PICK piece : piece = [from |-> first, to |-> last]
  OBVIOUS
<1>6. piece \in Piece /\ piece.from = first /\ piece.to = last
  BY <1>5, PieceOf, Zenon
<1>7. PICK ps : ps = <<piece>>
  OBVIOUS
<1>8. ps \in Seq(Piece) /\ Len(ps) = 1 /\ ps[1] = piece
  BY <1>6, <1>7, OnlyOne, Zenon
<1>9. at' = None /\ pieces' = ps
  BY <1>4, <1>5, <1>7 DEF Chunker!ChunkSymbols
<1>10. InLines(1, lines, ps)
  BY <1>1, <1>4, <1>6, <1>8 DEF InLines
<1>11. QED
  BY <1>2, <1>3, <1>8, <1>9, <1>10 DEF ChunkerInv

\* The loops of the two chunkers, which add a piece each turn.
LEMMA LoopKeeps ==
  ASSUME ChunkerInv, NEW t \in ChunkTask, task = t, t.how # "symbol", NEW i \in Nat, at = i, task' = t,
         NEW longer \in Nat, Sized(t.start, t.lines, OverlapOf(t), longer, LongestOf(t)),
         NEW first \in Int, NEW last \in Int, Turn(t.start, t.lines, OverlapOf(t), longer, i, first, last, at'),
         pieces' = Append(pieces, [from |-> first, to |-> last])
  PROVE  ChunkerInv'
<1>1. t # None
  BY ChunkTaskNone
<1>2. Cut(t.start, t.lines, OverlapOf(t), LongestOf(t), pieces, i) /\ (t.how # "split" => t.start = 1)
  BY <1>1, Zenon DEF ChunkerInv, Cut
<1>3. Cut(t.start, t.lines, OverlapOf(t), LongestOf(t), pieces', at')
  BY <1>2, PieceAdded, Zenon
<1>4. QED
  BY <1>1, <1>2, <1>3, Zenon DEF ChunkerInv, Cut

\* a window of a large block,
LEMMA SplitKeeps ==
  ASSUME ChunkerInv, Chunker!SplitLargeBlock
  PROVE  ChunkerInv'
<1>1. task \in ChunkTask /\ task.how = "split" /\ at # None /\ task' = task
      /\ GoesOnFrom(task.start, task.lines, OverlapOf(task), pieces, at)
  BY DEF Chunker!SplitLargeBlock, ChunkerInv
<1>2. PICK t \in ChunkTask, i \in Nat : task = t /\ at = i /\ t.how = "split" /\ task' = t /\ i < t.lines
  BY <1>1 DEF GoesOnFrom
<1>3. t.start \in Nat /\ t.lines \in Nat
  BY DEF ChunkTask
<1>4. PICK overlap, longest, longer \in Nat : /\ overlap = OverlapOf(t) /\ longest = LongestOf(t) /\ longer = WindowSize
                                              /\ overlap < longer /\ longer <= longest /\ overlap = Overlap
  BY <1>2, ChunkerAssumption DEF OverlapOf, LongestOf, Chunker!Max2
<1>5. PICK last \in Int : /\ last = t.start + Chunker!Min2(i + longer, t.lines) - 1 /\ t.start + i <= last
                          /\ last <= t.start + i + longer - 1 /\ last <= t.start + t.lines - 1
                          /\ last = t.start + i + longer - 1 \/ last = t.start + t.lines - 1
  BY <1>2, <1>3, <1>4 DEF Chunker!Min2
<1>6. Chunker!Window(at) = [from |-> t.start + i, to |-> last]
  BY <1>2, <1>3, <1>4, <1>5 DEF Chunker!Window, Chunker!Max2
<1>7. pieces' = Append(pieces, [from |-> t.start + i, to |-> last])
  BY <1>6 DEF Chunker!SplitLargeBlock
<1>8. at' = IF i + longer >= t.lines THEN None ELSE i + longer - OverlapOf(t)
  BY <1>2, <1>4 DEF Chunker!SplitLargeBlock
<1>9. (i + longer >= t.lines => at' = None) /\ (i + longer < t.lines => at' = i + longer - OverlapOf(t))
  BY <1>3, <1>8
<1>10. t.how # "symbol" /\ Sized(t.start, t.lines, OverlapOf(t), longer, LongestOf(t))
  BY <1>2, <1>3, <1>4 DEF Sized
<1>11. PICK first \in Int : first = t.start + i
  BY <1>3
<1>12. pieces' = Append(pieces, [from |-> first, to |-> last])
  BY <1>7, <1>11, Zenon
<1>13. Turn(t.start, t.lines, OverlapOf(t), longer, i, first, last, at')
  BY <1>5, <1>9, <1>11, Zenon DEF Turn
<1>14. QED
  BY <1>2, <1>10, <1>12, <1>13, LoopKeeps, Zenon

\* and a block of a file without symbols.
LEMMA NextBlockKeeps ==
  ASSUME ChunkerInv, Chunker!NextBlock
  PROVE  ChunkerInv'
<1>1. task \in ChunkTask /\ task.how = "blocks" /\ at # None /\ task' = task
      /\ GoesOnFrom(task.start, task.lines, OverlapOf(task), pieces, at)
  BY DEF Chunker!NextBlock, ChunkerInv
<1>2. PICK t \in ChunkTask, i \in Nat : task = t /\ at = i /\ t.how = "blocks" /\ task' = t /\ i < t.lines
  BY <1>1 DEF GoesOnFrom
<1>3. t.start = 1 /\ t.lines \in Nat
  BY <1>1, <1>2, ChunkTaskNone DEF ChunkTask, ChunkerInv
<1>4. PICK longer \in Nat : longer = BlockSize /\ OverlapOf(t) = 0 /\ LongestOf(t) = longer /\ 0 < longer
  BY <1>2, ChunkerAssumption DEF OverlapOf, LongestOf
<1>5. PICK last \in Int : /\ last = Chunker!Min2(t.lines, i + longer)
                          /\ last <= t.start + i + longer - 1 /\ last <= t.start + t.lines - 1
                          /\ last = t.start + i + longer - 1 \/ last = t.start + t.lines - 1
  BY <1>3, <1>4 DEF Chunker!Min2
<1>6. pieces' = Append(pieces, [from |-> t.start + i, to |-> last])
  <2>1. t.start + i = i + 1
    BY <1>3
  <2>2. QED
    BY <1>2, <1>4, <1>5, <2>1 DEF Chunker!NextBlock
<1>7. at' = IF i + longer < t.lines THEN i + longer ELSE None
  BY <1>2, <1>4 DEF Chunker!NextBlock
<1>8. (i + longer >= t.lines => at' = None) /\ (i + longer < t.lines => at' = i + longer - OverlapOf(t))
  <2>1. i + longer >= t.lines => ~(i + longer < t.lines)
    BY <1>3
  <2>2. i + longer - OverlapOf(t) = i + longer
    BY <1>4
  <2>3. QED
    BY <1>7, <2>1, <2>2, Zenon
<1>9. t.how # "symbol" /\ Sized(t.start, t.lines, OverlapOf(t), longer, LongestOf(t))
  BY <1>2, <1>3, <1>4 DEF Sized
<1>10. PICK first \in Int : first = t.start + i
  BY <1>3
<1>11. pieces' = Append(pieces, [from |-> first, to |-> last])
  BY <1>6, <1>10, Zenon
<1>12. Turn(t.start, t.lines, OverlapOf(t), longer, i, first, last, at')
  BY <1>5, <1>8, <1>10, Zenon DEF Turn
<1>13. QED
  BY <1>2, <1>9, <1>11, <1>12, LoopKeeps, Zenon

LEMMA ChunkerStep == ChunkerInv /\ [Next]_vars => ChunkerInv'
<1> SUFFICES ASSUME ChunkerInv, [Next]_vars PROVE ChunkerInv'
  OBVIOUS
<1>1. Chunker!Next \/ UNCHANGED chunkerVars
  BY DEF Next, vars
<1>2. CASE UNCHANGED chunkerVars
  BY <1>2 DEF chunkerVars, ChunkerInv
<1>3. CASE Chunker!Next
  BY <1>3, ProcessKeeps, ChunkFileKeeps, ChunkSymbolsKeeps, SplitKeeps, NextBlockKeeps DEF Chunker!Next
<1>4. QED
  BY <1>1, <1>2, <1>3

LEMMA ChunkerPromises == ChunkerInv => Chunker!TypeOK /\ Chunker!EveryLineOnce
<1> SUFFICES ASSUME ChunkerInv PROVE Chunker!TypeOK /\ Chunker!EveryLineOnce
  OBVIOUS
<1>1. PICK n \in Nat : n = Len(pieces) /\ DOMAIN pieces = 1 .. n /\ (n > 0 <=> pieces # <<>>)
  BY DEF ChunkerInv
<1>2. Chunker!TypeOK
  <2>1. at \in Nat \cup {None}
    BY DEF ChunkerInv, GoesOnFrom
  <2>2. \A i \in DOMAIN pieces : /\ task.start <= pieces[i].from /\ pieces[i].from <= pieces[i].to
                                 /\ pieces[i].to <= task.start + task.lines - 1
    <3>1. CASE task = None
      BY <3>1, <1>1 DEF ChunkerInv
    <3>2. CASE task # None
      BY <3>2, <1>1 DEF ChunkerInv, InLines
    <3>3. QED
      BY <3>1, <3>2
  <2>3. QED
    BY <2>1, <2>2 DEF Chunker!TypeOK
<1>3. ASSUME task # None, task.how # "symbol"
      PROVE  /\ pieces # <<>> => pieces[1].from = task.start
             /\ \A i \in DOMAIN pieces : pieces[i].to - pieces[i].from + 1 <= LongestOf(task)
             /\ \A i \in 1 .. Len(pieces) - 1 : /\ pieces[i + 1].from = pieces[i].to + 1 - OverlapOf(task)
                                                /\ pieces[i + 1].to > pieces[i].to
             /\ at = None => pieces # <<>> /\ pieces[Len(pieces)].to = task.start + task.lines - 1
  BY <1>1, <1>3 DEF ChunkerInv, Tiled, GoesOnFrom
<1>4. Chunker!EveryLineOnce
  BY <1>3 DEF Chunker!EveryLineOnce, Chunker!Last, OverlapOf, LongestOf
<1>5. QED
  BY <1>2, <1>4

-----------------------------------------------------------------------------
(***************************************************************************)
(* Parsers                                                                 *)
(***************************************************************************)
\* A file that is indexed has what its language's parser gives, any other nothing.
ParsedInv ==
  /\ status \in {"pending", "ignored", "binary", "indexed"}
  /\ status # "indexed" => symbols = {} /\ parsedChunks = {}
  /\ status = "indexed" => /\ parsedFile \in Parse!Files /\ "secret" \notin parsedFile.traits
                           /\ symbols = Parse!Parse(parsedFile.lang, parsedFile.lines).symbols
                           /\ parsedChunks = Parse!Parse(parsedFile.lang, parsedFile.lines).chunks

Languages == {"TypeScript", "Java", "Python", "SQL", "Generic"}

\* What the minimum of a set of numbers is, and when it is the other value.
LEMMA LeastIsLeast ==
  ASSUME NEW S, S \subseteq Nat, NEW otherwise
  PROVE  /\ S = {} => Parse!Least(S, otherwise) = otherwise
         /\ S # {} => /\ Parse!Least(S, otherwise) \in S
                      /\ \A k \in S : Parse!Least(S, otherwise) <= k
<1>1. CASE S = {}
  BY <1>1 DEF Parse!Least
<1>2. CASE S # {}
  <2>1. Parse!Least(S, otherwise) = CHOOSE n \in S : \A k \in S : n <= k
    BY <1>2 DEF Parse!Least, Parse!Min
  <2>2. QED
    BY <1>2, <2>1, SmallestOne
<1>3. QED
  BY <1>1, <1>2

\* A file has at least one line, and in Python every line an indentation.
WellFormed(lang, lines) ==
  /\ DOMAIN lines = 1 .. Len(lines) /\ Len(lines) \in Nat \ {0}
  /\ lang = "Python" => \A i \in DOMAIN lines : lines[i].indent \in Nat

LEMMA LinesHaveIndents == \A line \in Parse!LinesOf("Python") : line.indent \in Nat
BY DEF Parse!LinesOf, Parse!Indented, Parse!Line

\* A function on 1 .. n is a sequence of n elements.
LEMMA LinesAreAList ==
  ASSUME NEW n \in Nat, NEW S, NEW lines \in [1 .. n -> S]
  PROVE  DOMAIN lines = 1 .. Len(lines) /\ Len(lines) = n
OBVIOUS

\* Files the parsers are given have lines of the language's own kind.
LEMMA FilesAreWellFormed ==
  ASSUME NEW f \in Parse!Files
  PROVE  f.lang \in Languages /\ WellFormed(f.lang, f.lines)
<1>1. CASE \E l \in DOMAIN ParsedLength :
           f \in [lang : {l}, lines : UNION {[1 .. n -> Parse!LinesOf(l)] : n \in 1 .. ParsedLength[l]}, traits : {{}}]
  <2>1. PICK l \in DOMAIN ParsedLength :
           f \in [lang : {l}, lines : UNION {[1 .. n -> Parse!LinesOf(l)] : n \in 1 .. ParsedLength[l]}, traits : {{}}]
    BY <1>1
  <2>2. PICK n \in 1 .. ParsedLength[l] : f.lines \in [1 .. n -> Parse!LinesOf(l)]
    BY <2>1
  <2>3. n \in Nat \ {0} /\ l \in Languages /\ f.lang = l
    BY <2>1, <2>2, ParsersAssumption DEF Languages
  <2>4. DOMAIN f.lines = 1 .. Len(f.lines) /\ Len(f.lines) = n
    BY <2>2, <2>3, LinesAreAList
  <2>5. l = "Python" => \A i \in DOMAIN f.lines : f.lines[i].indent \in Nat
    BY <2>2, LinesHaveIndents
  <2>6. QED
    BY <2>3, <2>4, <2>5 DEF WellFormed
<1>2. CASE \E n \in GenericLength, blank \in SUBSET Int : f = [Parse!Flat("Generic") EXCEPT !.lines = Parse!GenericLines(n, blank)]
  <2>1. PICK n \in GenericLength, blank \in SUBSET Int : f = [Parse!Flat("Generic") EXCEPT !.lines = Parse!GenericLines(n, blank)]
    BY <1>2
  <2>2. n \in Nat \ {0}
    BY ParsersAssumption
  <2>3. f.lang = "Generic" /\ f.lines = Parse!GenericLines(n, blank)
    BY <2>1 DEF Parse!Flat
  <2>4. DOMAIN f.lines = 1 .. n
    BY <2>3 DEF Parse!GenericLines
  <2>5. f.lines \in [1 .. n -> {f.lines[i] : i \in 1 .. n}]
    BY <2>3, <2>4 DEF Parse!GenericLines
  <2>6. Len(f.lines) = n
    BY <2>2, <2>5, LinesAreAList
  <2>7. QED
    BY <2>2, <2>3, <2>4, <2>6 DEF WellFormed, Languages
<1>3. CASE \E ts : f = [Parse!Flat("Python") EXCEPT !.traits = ts]
  <2>1. PICK ts : f = [Parse!Flat("Python") EXCEPT !.traits = ts]
    BY <1>3
  <2>2. PICK line : line = Parse!Line("other", 0, 0, 0, FALSE)
    OBVIOUS
  <2>3. line.indent = 0
    BY <2>2 DEF Parse!Line
  <2>4. f.lang = "Python" /\ f.lines = <<line>>
    BY <2>1, <2>2 DEF Parse!Flat
  <2>5. DOMAIN f.lines = 1 .. 1 /\ Len(f.lines) = 1 /\ f.lines[1] = line
    BY <2>4
  <2>6. \A i \in DOMAIN f.lines : f.lines[i].indent \in Nat
    BY <2>3, <2>5
  <2>7. QED
    BY <2>4, <2>5, <2>6 DEF WellFormed, Languages
<1>4. ASSUME NEW n \in GenericLength, NEW from \in {1, 2, 46}, NEW to \in {0, 50, 95, 96},
             f = [Parse!Flat("Generic") EXCEPT !.lines = Parse!GenericLines(n, from .. to)]
      PROVE  f.lang \in Languages /\ WellFormed(f.lang, f.lines)
  <2>1. from .. to \in SUBSET Int
    OBVIOUS
  <2>2. \E blank \in SUBSET Int : f = [Parse!Flat("Generic") EXCEPT !.lines = Parse!GenericLines(n, blank)]
    BY <1>4, <2>1, Zenon
  <2>3. \E m \in GenericLength, blank \in SUBSET Int : f = [Parse!Flat("Generic") EXCEPT !.lines = Parse!GenericLines(m, blank)]
    BY <2>2, Zenon
  <2>4. QED
    BY <1>2, <2>3, Zenon
<1>5. QED
  BY <1>1, <1>3, <1>4 DEF Parse!Files

-----------------------------------------------------------------------------
\* The lines from i on up to j that P holds of, and where they close.
Opening(lines, i, j) == {k \in i .. j : lines[k].open = 1}
Closing(lines, i, j) == {k \in i .. j : lines[k].close = 1}
ClosesAt(lines, i, j) ==
  Cardinality(Opening(lines, i, j)) > 0 /\ Cardinality(Opening(lines, i, j)) <= Cardinality(Closing(lines, i, j))

LEMMA SameParseCardinality == \A S : Parse!Cardinality(S) = Cardinality(S)
BY Zenon DEF Parse!Cardinality, Cardinality

\* The end of a block in braces is the least line where as many have closed as opened.
LEMMA BlockEndIsLeast ==
  ASSUME NEW lines, NEW i \in Nat \ {0}, NEW otherwise, NEW n \in Nat, Len(lines) = n,
         otherwise \in i .. n, NEW end, end = Parse!FindBlockEnd(lines, i, otherwise)
  PROVE  /\ end \in i .. n
         /\ \A j \in i .. n : ClosesAt(lines, i, j) => end <= j /\ ClosesAt(lines, i, end)
<1>1. PICK S : S = {j \in i .. n : ClosesAt(lines, i, j)}
  OBVIOUS
<1>2. end = Parse!Least(S, otherwise)
  <2>1. PICK T : T = {j \in i .. n : /\ Parse!Cardinality(Opening(lines, i, j)) > 0
                                    /\ Parse!Cardinality(Opening(lines, i, j)) <= Parse!Cardinality(Closing(lines, i, j))}
    OBVIOUS
  <2>2. end = Parse!Least(T, otherwise)
    BY <2>1, Zenon DEF Parse!FindBlockEnd, Opening, Closing
  <2>3. \A j \in i .. n : j \in T <=> ClosesAt(lines, i, j)
    BY <2>1, SameParseCardinality, Zenon DEF ClosesAt
  <2>4. S = T
    BY <1>1, <2>1, <2>3
  <2>5. QED
    BY <2>2, <2>4
<1>3. S \subseteq Nat /\ S \subseteq i .. n
  BY <1>1
<1>4. CASE S = {}
  BY <1>1, <1>2, <1>4, LeastIsLeast
<1>5. CASE S # {}
  <2>1. Parse!Least(S, otherwise) \in S /\ \A k \in S : Parse!Least(S, otherwise) <= k
    BY <1>3, <1>5, LeastIsLeast, Zenon
  <2>2. end \in S /\ \A k \in S : end <= k
    BY <1>2, <2>1
  <2>3. QED
    BY <1>1, <1>3, <2>2
<1>6. QED
  BY <1>4, <1>5

\* The lines of a range that are in a set, before one line and from it on.
InTwo(S, A, B) == /\ Cardinality(S) = Cardinality(A) + Cardinality(B)
                  /\ Cardinality(A) \in Nat /\ Cardinality(B) \in Nat

\* A range cut in two, as the sums over lines are.
LEMMA RangeInTwo ==
  ASSUME NEW M, NEW i \in Nat, NEW k \in Nat, NEW j \in Nat, i <= k, k <= j
  PROVE  InTwo({x \in i .. j : x \in M}, {x \in i .. k - 1 : x \in M}, {x \in k .. j : x \in M})
<1>1. PICK A : A = {x \in i .. k - 1 : x \in M}
  OBVIOUS
<1>2. PICK B : B = {x \in k .. j : x \in M}
  OBVIOUS
<1>3. IsFiniteSet(i .. k - 1) /\ IsFiniteSet(k .. j)
  BY FS_Interval
<1>4. A \subseteq i .. k - 1 /\ B \subseteq k .. j
  BY <1>1, <1>2
<1>5. IsFiniteSet(A) /\ IsFiniteSet(B)
  BY <1>3, <1>4, FS_Subset
<1>6. A \cap B = {} /\ A \cup B = {x \in i .. j : x \in M}
  BY <1>1, <1>2
<1>7. Cardinality(A \cup B) = Cardinality(A) + Cardinality(B) - Cardinality(A \cap B)
  BY <1>5, FS_Union
<1>8. Cardinality(A \cap B) = 0
  BY <1>6, FS_EmptySet
<1>9. Cardinality(A) \in Nat /\ Cardinality(B) \in Nat
  BY <1>5, FS_CardinalityType
<1>10. Cardinality(A \cup B) = Cardinality(A) + Cardinality(B)
  BY <1>7, <1>8, <1>9
<1>11. QED
  BY <1>1, <1>2, <1>6, <1>9, <1>10 DEF InTwo

\* Counting braces up to a line and on from there.
LEMMA BracesInTwo ==
  ASSUME NEW lines, NEW i \in Nat, NEW k \in Nat, NEW j \in Nat, i <= k, k <= j
  PROVE  /\ InTwo(Opening(lines, i, j), Opening(lines, i, k - 1), Opening(lines, k, j))
         /\ InTwo(Closing(lines, i, j), Closing(lines, i, k - 1), Closing(lines, k, j))
<1>1. PICK M : M = {x \in Nat : lines[x].open = 1}
  OBVIOUS
<1>2. PICK N : N = {x \in Nat : lines[x].close = 1}
  OBVIOUS
<1>3. \A a \in Nat, b \in Int : /\ Opening(lines, a, b) = {x \in a .. b : x \in M}
                               /\ Closing(lines, a, b) = {x \in a .. b : x \in N}
  <2> TAKE a \in Nat, b \in Int
  <2>1. a .. b \subseteq Nat
    OBVIOUS
  <2>2. QED
    BY <1>1, <1>2, <2>1 DEF Opening, Closing
<1>4. i \in Nat /\ k \in Nat /\ j \in Int /\ k - 1 \in Int
  OBVIOUS
<1>5. /\ Opening(lines, i, j) = {x \in i .. j : x \in M}
      /\ Opening(lines, i, k - 1) = {x \in i .. k - 1 : x \in M}
      /\ Opening(lines, k, j) = {x \in k .. j : x \in M}
  BY <1>3, <1>4, Zenon
<1>6. /\ Closing(lines, i, j) = {x \in i .. j : x \in N}
      /\ Closing(lines, i, k - 1) = {x \in i .. k - 1 : x \in N}
      /\ Closing(lines, k, j) = {x \in k .. j : x \in N}
  BY <1>3, <1>4, Zenon
<1>7. InTwo({x \in i .. j : x \in M}, {x \in i .. k - 1 : x \in M}, {x \in k .. j : x \in M})
  BY RangeInTwo
<1>8. InTwo({x \in i .. j : x \in N}, {x \in i .. k - 1 : x \in N}, {x \in k .. j : x \in N})
  BY RangeInTwo
<1>9. QED
  BY <1>5, <1>6, <1>7, <1>8, Zenon

\* Where a line opens a brace the count is above zero.
LEMMA OneOpens ==
  ASSUME NEW lines, NEW i \in Nat, NEW j \in Nat, i <= j, lines[i].open = 1
  PROVE  Cardinality(Opening(lines, i, j)) > 0
<1>1. IsFiniteSet(i .. j)
  BY FS_Interval
<1>2. Opening(lines, i, j) \subseteq i .. j /\ i \in Opening(lines, i, j)
  BY DEF Opening
<1>3. IsFiniteSet(Opening(lines, i, j))
  BY <1>1, <1>2, FS_Subset
<1>4. Cardinality(Opening(lines, i, j)) # 0 /\ Cardinality(Opening(lines, i, j)) \in Nat
  BY <1>2, <1>3, FS_EmptySet, FS_CardinalityType
<1>5. QED
  BY <1>4

\* A block that begins inside another that is closed ends there too.
LEMMA BracesNest ==
  ASSUME NEW lines, NEW n \in Nat, Len(lines) = n,
         NEW i \in 1 .. n, NEW k \in 1 .. n, NEW a \in i .. n, NEW b \in k .. n,
         NEW e, e = Parse!FindBlockEnd(lines, i, a), NEW f, f = Parse!FindBlockEnd(lines, k, b),
         i < k, k <= e, lines[i].open = 1, lines[k].open = 1,
         Cardinality(Opening(lines, i, e)) <= Cardinality(Closing(lines, i, e))
  PROVE  f <= e
<1>1. /\ e \in i .. n
      /\ \A j \in i .. n : ClosesAt(lines, i, j) => e <= j
  BY BlockEndIsLeast
<1>2. \A j \in k .. n : ClosesAt(lines, k, j) => f <= j
  BY BlockEndIsLeast
<1>3. k - 1 \in i .. n /\ ~(e <= k - 1) /\ e \in k .. n /\ k - 1 \in Nat
  BY <1>1
<1>4. ~ClosesAt(lines, i, k - 1)
  BY <1>1, <1>3
<1>5. Cardinality(Opening(lines, i, k - 1)) > 0
  BY <1>3, OneOpens
<1>6. Cardinality(Opening(lines, k, e)) > 0
  BY <1>3, OneOpens
<1>7. ~(Cardinality(Opening(lines, i, k - 1)) <= Cardinality(Closing(lines, i, k - 1)))
  BY <1>4, <1>5 DEF ClosesAt
<1>8. i \in Nat /\ k \in Nat /\ e \in Nat /\ i <= k /\ k <= e
  BY <1>1
<1>9. /\ InTwo(Opening(lines, i, e), Opening(lines, i, k - 1), Opening(lines, k, e))
      /\ InTwo(Closing(lines, i, e), Closing(lines, i, k - 1), Closing(lines, k, e))
  BY <1>8, BracesInTwo, Zenon
<1>10. Cardinality(Opening(lines, k, e)) <= Cardinality(Closing(lines, k, e))
  BY <1>7, <1>9 DEF InTwo
<1>11. ClosesAt(lines, k, e)
  BY <1>6, <1>10 DEF ClosesAt
<1>12. QED
  BY <1>2, <1>3, <1>11

-----------------------------------------------------------------------------
\* What is extracted lies in the lines of the file.
Within(n, x) == x.start \in 1 .. n /\ x.end \in x.start .. n
AllWithin(n, given) ==
  /\ \A s \in given.symbols : Within(n, s) /\ s.of \in Nat
  /\ \A c \in given.chunks : Within(n, c)

InClass(lang, some) ==
  \A m \in some : m.kind = "method" =>
    \E c \in some : /\ c.kind = "class" /\ c.start = m.of /\ c.start <= m.start
                    /\ lang # "Java" => m.start <= c.end

\* A definition between braces ends where they close, or on its own line.
InBraces(lines, s) ==
  /\ s.start \in 1 .. Len(lines) /\ s.of \in Nat
  /\ \E a \in s.start .. Len(lines) : s.end \in {s.start, Parse!FindBlockEnd(lines, s.start, a)}

\* The fields of a symbol and of a chunk.
LEMMA SymbolFields ==
  ASSUME NEW kind, NEW start, NEW end, NEW of, NEW s, s = Parse!Symbol(kind, start, end, of)
  PROVE  s.kind = kind /\ s.start = start /\ s.end = end /\ s.of = of
BY DEF Parse!Symbol

LEMMA ChunkFields ==
  ASSUME NEW start, NEW end, NEW c, c = Parse!Chunk(start, end)
  PROVE  c.start = start /\ c.end = end
BY DEF Parse!Chunk

\* A file without chunks of its own is one chunk.
LEMMA ModuleWithin ==
  ASSUME NEW lines, NEW n \in Nat \ {0}, Len(lines) = n, NEW windows, \A c \in windows : Within(n, c)
  PROVE  Parse!OrModule(lines, windows) # {} /\ \A c \in Parse!OrModule(lines, windows) : Within(n, c)
<1>1. CASE windows = {}
  <2>1. PICK c : c = Parse!Chunk(1, n)
    OBVIOUS
  <2>2. Parse!OrModule(lines, windows) = {c}
    BY <1>1, <2>1 DEF Parse!OrModule
  <2>3. c.start = 1 /\ c.end = n
    BY <2>1, ChunkFields
  <2>4. QED
    BY <2>2, <2>3 DEF Within
<1>2. CASE windows # {}
  BY <1>2 DEF Parse!OrModule
<1>3. QED
  BY <1>1, <1>2

\* A block in braces lies in its file.
LEMMA BracesWithin ==
  ASSUME NEW lines, NEW n \in Nat \ {0}, Len(lines) = n, NEW s, InBraces(lines, s)
  PROVE  Within(n, s) /\ s.of \in Nat
<1>1. PICK a \in s.start .. n : s.end \in {s.start, Parse!FindBlockEnd(lines, s.start, a)}
  BY DEF InBraces
<1>2. s.start \in 1 .. n /\ s.of \in Nat
  BY DEF InBraces
<1>3. PICK i : i = s.start
  OBVIOUS
<1>4. PICK e : e = Parse!FindBlockEnd(lines, i, a)
  OBVIOUS
<1>5. i \in Nat \ {0} /\ i \in 1 .. n /\ a \in i .. n
  BY <1>1, <1>2, <1>3
<1>6. e \in i .. n
  BY <1>4, <1>5, BlockEndIsLeast
<1>7. s.end \in i .. n
  BY <1>1, <1>3, <1>4, <1>5, <1>6
<1>8. QED
  BY <1>2, <1>3, <1>7 DEF Within

\* Of two blocks in braces one lies in the other, or they do not meet.
LEMMA BracedNest ==
  ASSUME NEW lines, NEW n \in Nat \ {0}, Len(lines) = n, NEW s, InBraces(lines, s), NEW t, InBraces(lines, t),
         s.start < t.start, t.start <= s.end, lines[s.start].open = 1, lines[t.start].open = 1,
         Cardinality(Opening(lines, s.start, s.end)) <= Cardinality(Closing(lines, s.start, s.end))
  PROVE  t.end <= s.end
<1>1. PICK i : i = s.start
  OBVIOUS
<1>2. PICK k : k = t.start
  OBVIOUS
<1>3. PICK e : e = s.end
  OBVIOUS
<1>4. PICK f : f = t.end
  OBVIOUS
<1>5. i \in 1 .. n /\ k \in 1 .. n
  BY <1>1, <1>2 DEF InBraces
<1>6. PICK a \in i .. n : e \in {i, Parse!FindBlockEnd(lines, i, a)}
  BY <1>1, <1>3, Zenon DEF InBraces
<1>7. PICK b \in k .. n : f \in {k, Parse!FindBlockEnd(lines, k, b)}
  BY <1>2, <1>4, Zenon DEF InBraces
<1>8. i < k /\ k <= e /\ i # e
  BY <1>1, <1>2, <1>3, <1>5
<1>9. e = Parse!FindBlockEnd(lines, i, a)
  BY <1>6, <1>8
<1>10. CASE f = k
  BY <1>3, <1>4, <1>8, <1>10
<1>11. CASE f = Parse!FindBlockEnd(lines, k, b)
  <2>1. lines[i].open = 1 /\ lines[k].open = 1
    BY <1>1, <1>2
  <2>2. Cardinality(Opening(lines, i, e)) <= Cardinality(Closing(lines, i, e))
    BY <1>1, <1>3
  <2>3. f <= e
    BY <1>5, <1>6, <1>7, <1>8, <1>9, <1>11, <2>1, <2>2, BracesNest
  <2>4. QED
    BY <1>3, <1>4, <2>3
<1>12. QED
  BY <1>7, <1>10, <1>11

-----------------------------------------------------------------------------
\* TypeScript
TsTop(lines) == UNION {Parse!TsSymbolAt(lines, i) : i \in DOMAIN lines}
TsMethods(lines) == UNION {Parse!ExtractClassMethods(lines, s) : s \in {t \in TsTop(lines) : t.kind = "class"}}

\* TypeScript: what the parser returns.
LEMMA TsFound ==
  ASSUME NEW lines
  PROVE  /\ Parse!ParseTypeScript(lines).symbols = TsTop(lines) \cup TsMethods(lines)
         /\ Parse!ParseTypeScript(lines).chunks =
              Parse!OrModule(lines, {Parse!Chunk(s.start, s.end) : s \in {t \in TsTop(lines) : t.kind \notin {"enum", "type"}}})
BY DEF Parse!ParseTypeScript, Parse!Extracted, TsTop, TsMethods

LEMMA TsBlockEnds ==
  ASSUME NEW lines, NEW n \in Nat \ {0}, Len(lines) = n, NEW i \in 1 .. n
  PROVE  \E a \in i .. n : Parse!TsBlockEnd(lines, i) = Parse!FindBlockEnd(lines, i, a)
<1>1. PICK a : a = Parse!Lesser(i - 1 + BlockLines, n)
  OBVIOUS
<1>2. a \in i .. n
  BY <1>1, ParsersAssumption DEF Parse!Lesser
<1>3. Parse!TsBlockEnd(lines, i) = Parse!FindBlockEnd(lines, i, a)
  BY <1>1 DEF Parse!TsBlockEnd
<1>4. QED
  BY <1>2, <1>3

\* Declarations and methods are blocks in braces, methods inside their class.
LEMMA TsTopShape ==
  ASSUME NEW lines, NEW n \in Nat \ {0}, Len(lines) = n, DOMAIN lines = 1 .. n, NEW s \in TsTop(lines)
  PROVE  InBraces(lines, s) /\ s.kind # "method"
<1>1. PICK i \in 1 .. n : s \in Parse!TsSymbolAt(lines, i)
  BY DEF TsTop
<1>2. PICK a \in i .. n : Parse!TsBlockEnd(lines, i) = Parse!FindBlockEnd(lines, i, a)
  BY TsBlockEnds
<1>3. CASE lines[i].is \in {"class", "interface", "enum", "function", "arrow"}
  <2>1. PICK kind : kind = IF lines[i].is = "arrow" THEN "function" ELSE lines[i].is
    OBVIOUS
  <2>2. s = Parse!Symbol(kind, i, Parse!TsBlockEnd(lines, i), 0)
    BY <1>1, <1>3, <2>1 DEF Parse!TsSymbolAt
  <2>3. kind # "method"
    BY <1>3, <2>1
  <2>4. s.kind = kind /\ s.start = i /\ s.end = Parse!FindBlockEnd(lines, i, a) /\ s.of = 0
    BY <1>2, <2>2, SymbolFields
  <2>5. QED
    BY <2>3, <2>4 DEF InBraces
<1>4. CASE lines[i].is = "type"
  <2>1. s = Parse!Symbol("type", i, i, 0)
    BY <1>1, <1>4 DEF Parse!TsSymbolAt
  <2>2. s.kind = "type" /\ s.start = i /\ s.end = i /\ s.of = 0
    BY <2>1, SymbolFields
  <2>3. QED
    BY <2>2 DEF InBraces
<1>5. CASE lines[i].is \notin {"class", "interface", "enum", "function", "arrow", "type"}
  <2>1. Parse!TsSymbolAt(lines, i) = {}
    BY <1>5 DEF Parse!TsSymbolAt
  <2>2. QED
    BY <1>1, <2>1
<1>6. QED
  BY <1>3, <1>4, <1>5

LEMMA TsMethodShape ==
  ASSUME NEW lines, NEW n \in Nat \ {0}, Len(lines) = n, DOMAIN lines = 1 .. n, NEW m \in TsMethods(lines)
  PROVE  /\ InBraces(lines, m)
         /\ \E c \in TsTop(lines) : c.kind = "class" /\ c.start = m.of /\ c.start <= m.start /\ m.start <= c.end
<1>1. PICK c \in TsTop(lines) : c.kind = "class" /\ m \in Parse!ExtractClassMethods(lines, c)
  BY Zenon DEF TsMethods
<1>2. InBraces(lines, c)
  BY TsTopShape
<1>3. c.start \in 1 .. n /\ c.end \in c.start .. n
  BY <1>2, BracesWithin DEF Within
<1>4. CASE c.start = c.end
  <2>1. m = Parse!Symbol("method", c.start, c.start, c.start)
    BY <1>1, <1>4 DEF Parse!ExtractClassMethods
  <2>2. m.start = c.start /\ m.end = c.start /\ m.of = c.start
    BY <2>1, SymbolFields
  <2>3. InBraces(lines, m)
    BY <1>3, <2>2 DEF InBraces
  <2>4. QED
    BY <1>1, <1>3, <2>2, <2>3
<1>5. CASE c.start # c.end
  <2>1. PICK i \in c.start + 1 .. c.end : m = Parse!Symbol("method", i, Parse!TsBlockEnd(lines, i), c.start)
    BY <1>1, <1>5 DEF Parse!ExtractClassMethods
  <2>2. i \in 1 .. n /\ c.start <= i /\ i <= c.end /\ c.start \in Nat
    BY <1>3
  <2>3. PICK a \in i .. n : Parse!TsBlockEnd(lines, i) = Parse!FindBlockEnd(lines, i, a)
    BY <2>2, TsBlockEnds
  <2>4. m.start = i /\ m.end = Parse!FindBlockEnd(lines, i, a) /\ m.of = c.start
    BY <2>1, <2>3, SymbolFields
  <2>5. InBraces(lines, m)
    BY <2>2, <2>4 DEF InBraces
  <2>6. QED
    BY <1>1, <2>2, <2>4, <2>5
<1>6. QED
  BY <1>4, <1>5

\* All a TypeScript file gives is as it should be.
LEMMA TsIsRight ==
  ASSUME NEW lines, NEW n \in Nat \ {0}, Len(lines) = n, DOMAIN lines = 1 .. n,
         NEW given, given = Parse!ParseTypeScript(lines)
  PROVE  /\ \A s \in given.symbols : InBraces(lines, s)
         /\ AllWithin(n, given) /\ given.chunks # {}
         /\ InClass("TypeScript", given.symbols)
<1>1. \A s \in TsTop(lines) : InBraces(lines, s) /\ s.kind # "method"
  BY TsTopShape
<1>2. \A s \in given.symbols : InBraces(lines, s)
  BY <1>1, TsFound, TsMethodShape
<1>3. \A s \in given.symbols : Within(n, s) /\ s.of \in Nat
  BY <1>2, BracesWithin
<1>4. PICK windows : windows = {Parse!Chunk(s.start, s.end) : s \in {t \in TsTop(lines) : t.kind \notin {"enum", "type"}}}
  OBVIOUS
<1>5. \A c \in windows : Within(n, c)
  <2> TAKE c \in windows
  <2>1. PICK s \in TsTop(lines) : c = Parse!Chunk(s.start, s.end)
    BY <1>4
  <2>2. Within(n, s)
    BY <1>1, BracesWithin
  <2>3. QED
    BY <2>1, <2>2, ChunkFields DEF Within
<1>6. given.chunks = Parse!OrModule(lines, windows)
  BY <1>4, TsFound
<1>7. given.chunks # {} /\ \A c \in given.chunks : Within(n, c)
  BY <1>5, <1>6, ModuleWithin
<1>8. InClass("TypeScript", given.symbols)
  <2> SUFFICES ASSUME NEW m \in given.symbols, m.kind = "method"
               PROVE  \E c \in given.symbols : c.kind = "class" /\ c.start = m.of /\ c.start <= m.start /\ m.start <= c.end
    BY DEF InClass
  <2>1. m \in TsMethods(lines)
    BY <1>1, TsFound
  <2>2. QED
    BY <2>1, TsMethodShape, TsFound
<1>9. QED
  BY <1>2, <1>3, <1>7, <1>8 DEF AllWithin

-----------------------------------------------------------------------------
\* Java
JavaClasses(lines) == {i \in DOMAIN lines : Parse!IsJavaClass(lines, i)}
JavaBefore(lines, i) == {c \in JavaClasses(lines) : c < i}
JavaMethods(lines) == {i \in DOMAIN lines : lines[i].is = "method" /\ JavaBefore(lines, i) # {}}
JavaSymbols(lines) ==
  {Parse!Symbol("class", i, Parse!JavaBlockEnd(lines, i), 0) : i \in JavaClasses(lines)}
    \cup {Parse!Symbol("method", i, Parse!JavaBlockEnd(lines, i), Parse!Max(JavaBefore(lines, i))) : i \in JavaMethods(lines)}

\* Java: what the parser returns.
LEMMA JavaFound ==
  ASSUME NEW lines
  PROVE  /\ Parse!ParseJava(lines).symbols = JavaSymbols(lines)
         /\ Parse!ParseJava(lines).chunks =
              Parse!OrModule(lines, {Parse!Chunk(i, Parse!JavaBlockEnd(lines, i)) : i \in JavaClasses(lines)})
BY DEF Parse!ParseJava, Parse!Extracted, JavaSymbols, JavaClasses, JavaMethods, JavaBefore

\* A non-empty set of lines has a last one.
LEMMA LargestOne ==
  ASSUME NEW n \in Nat, NEW S, S \subseteq 1 .. n, S # {}
  PROVE  Parse!Max(S) \in S
<1>1. PICK T : T = {n - k : k \in S}
  OBVIOUS
<1>2. T \subseteq Nat /\ T # {}
  <2>1. \A k \in S : n - k \in Nat
    OBVIOUS
  <2>2. PICK k \in S : TRUE
    OBVIOUS
  <2>3. n - k \in T
    BY <1>1
  <2>4. QED
    BY <1>1, <2>1, <2>3
<1>3. PICK m \in T : \A k \in T : m <= k
  BY <1>2, SmallestOne
<1>4. PICK x \in S : m = n - x
  BY <1>1, <1>3
<1>5. \A y \in S : y <= x
  <2> TAKE y \in S
  <2>1. n - y \in T
    BY <1>1
  <2>2. n - x <= n - y
    BY <1>3, <1>4, <2>1
  <2>3. QED
    BY <2>2
<1>6. Parse!Max(S) = CHOOSE y \in S : \A z \in S : y >= z
  BY DEF Parse!Max
<1>7. \E y \in S : \A z \in S : y >= z
  BY <1>5
<1>8. QED
  BY <1>6, <1>7, Zenon

LEMMA JavaBlockEnds ==
  ASSUME NEW lines, NEW n \in Nat \ {0}, Len(lines) = n, NEW i \in 1 .. n, NEW s,
         s.start = i, s.end = Parse!JavaBlockEnd(lines, i), s.of \in Nat
  PROVE  InBraces(lines, s)
<1>1. Parse!JavaBlockEnd(lines, i) = Parse!FindBlockEnd(lines, i, n)
  BY DEF Parse!JavaBlockEnd
<1>2. n \in i .. n
  OBVIOUS
<1>3. QED
  BY <1>1, <1>2 DEF InBraces

\* All a Java file gives is as it should be.
LEMMA JavaIsRight ==
  ASSUME NEW lines, NEW n \in Nat \ {0}, Len(lines) = n, DOMAIN lines = 1 .. n,
         NEW given, given = Parse!ParseJava(lines)
  PROVE  /\ \A s \in given.symbols : InBraces(lines, s)
         /\ AllWithin(n, given) /\ given.chunks # {}
         /\ InClass("Java", given.symbols)
<1>1. JavaClasses(lines) \subseteq 1 .. n /\ JavaMethods(lines) \subseteq 1 .. n
  BY DEF JavaClasses, JavaMethods
<1>2. \A i \in JavaMethods(lines) :
        /\ Parse!Max(JavaBefore(lines, i)) \in JavaClasses(lines) /\ Parse!Max(JavaBefore(lines, i)) < i
  <2> TAKE i \in JavaMethods(lines)
  <2>1. PICK S : S = JavaBefore(lines, i)
    OBVIOUS
  <2>2. S \subseteq 1 .. n /\ S # {}
    BY <1>1, <2>1 DEF JavaMethods, JavaBefore
  <2>3. Parse!Max(S) \in S
    BY <2>2, LargestOne
  <2>4. QED
    BY <2>1, <2>3 DEF JavaBefore
<1>3. ASSUME NEW i \in JavaClasses(lines), NEW s, s = Parse!Symbol("class", i, Parse!JavaBlockEnd(lines, i), 0)
      PROVE  InBraces(lines, s) /\ s.kind = "class" /\ s.start = i
  <2>1. s.kind = "class" /\ s.start = i /\ s.end = Parse!JavaBlockEnd(lines, i) /\ s.of = 0
    BY <1>3, SymbolFields
  <2>2. QED
    BY <1>1, <2>1, JavaBlockEnds
<1>4. ASSUME NEW i \in JavaMethods(lines), NEW s,
             s = Parse!Symbol("method", i, Parse!JavaBlockEnd(lines, i), Parse!Max(JavaBefore(lines, i)))
      PROVE  InBraces(lines, s) /\ s.kind = "method" /\ s.of \in JavaClasses(lines) /\ s.of <= s.start
  <2>1. PICK of : of = Parse!Max(JavaBefore(lines, i))
    OBVIOUS
  <2>2. of \in JavaClasses(lines) /\ of < i /\ of \in Nat
    BY <1>1, <1>2, <2>1
  <2>3. s.kind = "method" /\ s.start = i /\ s.end = Parse!JavaBlockEnd(lines, i) /\ s.of = of
    BY <1>4, <2>1, SymbolFields
  <2>4. i \in 1 .. n
    BY <1>1
  <2>5. QED
    BY <2>2, <2>3, <2>4, JavaBlockEnds
<1>5. \A s \in given.symbols :
        \/ \E i \in JavaClasses(lines) : s = Parse!Symbol("class", i, Parse!JavaBlockEnd(lines, i), 0)
        \/ \E i \in JavaMethods(lines) :
             s = Parse!Symbol("method", i, Parse!JavaBlockEnd(lines, i), Parse!Max(JavaBefore(lines, i)))
  BY JavaFound, ZenonT(40) DEF JavaSymbols
<1>6. \A s \in given.symbols : InBraces(lines, s)
  BY <1>3, <1>4, <1>5, Zenon
<1>7. \A s \in given.symbols : Within(n, s) /\ s.of \in Nat
  BY <1>6, BracesWithin
<1>8. PICK windows : windows = {Parse!Chunk(i, Parse!JavaBlockEnd(lines, i)) : i \in JavaClasses(lines)}
  OBVIOUS
<1>9. \A c \in windows : Within(n, c)
  <2> TAKE c \in windows
  <2>1. PICK i \in JavaClasses(lines) : c = Parse!Chunk(i, Parse!JavaBlockEnd(lines, i))
    BY <1>8
  <2>2. PICK s : s = Parse!Symbol("class", i, Parse!JavaBlockEnd(lines, i), 0)
    OBVIOUS
  <2>3. Within(n, s)
    BY <1>3, <2>2, BracesWithin
  <2>4. s.start = c.start /\ s.end = c.end
    BY <2>1, <2>2, ChunkFields, SymbolFields
  <2>5. QED
    BY <2>3, <2>4 DEF Within
<1>10. given.chunks # {} /\ \A c \in given.chunks : Within(n, c)
  <2>1. given.chunks = Parse!OrModule(lines, windows)
    BY <1>8, JavaFound
  <2>2. QED
    BY <1>9, <2>1, ModuleWithin
<1>11. InClass("Java", given.symbols)
  <2> SUFFICES ASSUME NEW m \in given.symbols, m.kind = "method"
               PROVE  \E c \in given.symbols : c.kind = "class" /\ c.start = m.of /\ c.start <= m.start
    BY DEF InClass
  <2>1. m.of \in JavaClasses(lines) /\ m.of <= m.start
    BY <1>3, <1>4, <1>5
  <2>2. PICK c : c = Parse!Symbol("class", m.of, Parse!JavaBlockEnd(lines, m.of), 0)
    OBVIOUS
  <2>3. c \in given.symbols
    BY <2>1, <2>2, JavaFound, Zenon DEF JavaSymbols
  <2>4. c.kind = "class" /\ c.start = m.of
    BY <1>3, <2>1, <2>2
  <2>5. QED
    BY <2>1, <2>3, <2>4
<1>12. QED
  BY <1>6, <1>7, <1>10, <1>11 DEF AllWithin

-----------------------------------------------------------------------------
\* Python
PyTop(lines) ==
  {i \in DOMAIN lines : lines[i].is \in {"class", "def"} /\ lines[i].indent <= Parse!BaseIndent(lines)}
PyClasses(lines) == {i \in PyTop(lines) : lines[i].is = "class"}
PyKind(lines, i) == IF lines[i].is = "class" THEN "class" ELSE "function"
PySymbols(lines) ==
  {Parse!Symbol(PyKind(lines, i), i, Parse!FindPythonBlockEnd(lines, i), 0) : i \in PyTop(lines)}
    \cup UNION {Parse!ExtractMethods(lines, c) : c \in PyClasses(lines)}

\* A definition ends before the next line that is not indented more.
Indented(lines, s) ==
  /\ s.start \in DOMAIN lines /\ lines[s.start].is \in {"class", "def"} /\ s.of \in Nat
  /\ s.end = Parse!FindPythonBlockEnd(lines, s.start)

\* Python: what the parser returns.
LEMMA PyFound ==
  ASSUME NEW lines
  PROVE  /\ Parse!ParsePython(lines).symbols = PySymbols(lines)
         /\ Parse!ParsePython(lines).chunks =
              Parse!OrModule(lines, {Parse!Chunk(i, Parse!FindPythonBlockEnd(lines, i)) : i \in PyTop(lines)})
BY DEF Parse!ParsePython, Parse!Extracted, PySymbols, PyTop, PyClasses, PyKind

NotInside(lines, i, j) == lines[j].is # "blank" /\ lines[j].indent <= lines[i].indent

\* A block ends before the first line that is indented no deeper.
LEMMA PyBlockEnds ==
  ASSUME NEW lines, NEW n \in Nat \ {0}, Len(lines) = n, NEW i \in 1 .. n,
         NEW end, end = Parse!FindPythonBlockEnd(lines, i)
  PROVE  /\ end \in i .. n
         /\ \A j \in i + 1 .. n : NotInside(lines, i, j) => end < j
         /\ end < n => NotInside(lines, i, end + 1)
<1>1. PICK S : S = {j \in i + 1 .. n : NotInside(lines, i, j)}
  OBVIOUS
<1>2. PICK next : next = Parse!Least(S, n + 1)
  OBVIOUS
<1>3. end = next - 1
  BY <1>1, <1>2 DEF Parse!FindPythonBlockEnd, NotInside
<1>4. S \subseteq Nat
  BY <1>1
<1>5. CASE S = {}
  <2>1. next = n + 1
    BY <1>2, <1>4, <1>5, LeastIsLeast
  <2>2. QED
    BY <1>1, <1>3, <1>5, <2>1
<1>6. CASE S # {}
  <2>1. Parse!Least(S, n + 1) \in S /\ \A k \in S : Parse!Least(S, n + 1) <= k
    BY <1>4, <1>6, LeastIsLeast, Zenon
  <2>2. next \in i + 1 .. n /\ NotInside(lines, i, next)
    BY <1>1, <1>2, <2>1
  <2>3. \A j \in i + 1 .. n : NotInside(lines, i, j) => next <= j
    BY <1>1, <1>2, <2>1
  <2>4. end + 1 = next /\ end \in i .. n
    BY <1>3, <2>2
  <2>5. QED
    BY <2>2, <2>3, <2>4
<1>7. QED
  BY <1>5, <1>6

LEMMA PyWithin ==
  ASSUME NEW lines, NEW n \in Nat \ {0}, Len(lines) = n, DOMAIN lines = 1 .. n, NEW s, Indented(lines, s)
  PROVE  Within(n, s) /\ s.of \in Nat
<1>1. s.start \in 1 .. n /\ s.of \in Nat /\ s.end = Parse!FindPythonBlockEnd(lines, s.start)
  BY DEF Indented
<1>2. s.end \in s.start .. n
  BY <1>1, PyBlockEnds
<1>3. QED
  BY <1>1, <1>2 DEF Within

\* Of two indented blocks one lies in the other, or they do not meet.
LEMMA IndentedNest ==
  ASSUME NEW lines, NEW n \in Nat \ {0}, Len(lines) = n, DOMAIN lines = 1 .. n,
         \A i \in 1 .. n : lines[i].indent \in Nat,
         NEW s, Indented(lines, s), NEW t, Indented(lines, t), s.start < t.start, t.start <= s.end
  PROVE  t.end <= s.end
<1>1. PICK i \in 1 .. n : i = s.start
  BY DEF Indented
<1>2. PICK k \in 1 .. n : k = t.start
  BY DEF Indented
<1>3. PICK e : e = Parse!FindPythonBlockEnd(lines, i)
  OBVIOUS
<1>4. PICK f : f = Parse!FindPythonBlockEnd(lines, k)
  OBVIOUS
<1>5. e = s.end /\ f = t.end /\ lines[k].is # "blank"
  BY <1>1, <1>2, <1>3, <1>4 DEF Indented
<1>6. e \in i .. n /\ (\A j \in i + 1 .. n : NotInside(lines, i, j) => e < j) /\ (e < n => NotInside(lines, i, e + 1))
  BY <1>3, PyBlockEnds
<1>7. f \in k .. n /\ \A j \in k + 1 .. n : NotInside(lines, k, j) => f < j
  BY <1>4, PyBlockEnds
<1>8. k \in i + 1 .. n /\ k <= e
  BY <1>1, <1>2, <1>5
<1>9. ~(lines[k].indent <= lines[i].indent)
  BY <1>5, <1>6, <1>8 DEF NotInside
<1>10. CASE e < n
  <2>1. NotInside(lines, i, e + 1) /\ e + 1 \in 1 .. n /\ e + 1 \in k + 1 .. n
    BY <1>6, <1>8, <1>10
  <2>2. NotInside(lines, k, e + 1)
    BY <1>9, <2>1 DEF NotInside
  <2>3. QED
    BY <1>5, <1>6, <1>7, <2>1, <2>2
<1>11. CASE e = n
  BY <1>5, <1>7, <1>11
<1>12. QED
  BY <1>6, <1>10, <1>11

LEMMA PyMethodShape ==
  ASSUME NEW lines, NEW n \in Nat \ {0}, Len(lines) = n, DOMAIN lines = 1 .. n,
         NEW class \in PyClasses(lines), NEW m \in Parse!ExtractMethods(lines, class)
  PROVE  Indented(lines, m) /\ m.of = class /\ class <= m.start /\ m.start <= Parse!FindPythonBlockEnd(lines, class)
<1>1. PICK e : e = Parse!FindPythonBlockEnd(lines, class)
  OBVIOUS
<1>2. class \in 1 .. n
  BY DEF PyClasses, PyTop
<1>3. e \in class .. n
  BY <1>1, <1>2, PyBlockEnds
<1>4. PICK i \in class + 1 .. e : /\ lines[i].is = "def"
                                  /\ m = Parse!Symbol("method", i, Parse!FindPythonBlockEnd(lines, i), class)
  BY <1>1 DEF Parse!ExtractMethods
<1>5. m.start = i /\ m.end = Parse!FindPythonBlockEnd(lines, i) /\ m.of = class
  BY <1>4, SymbolFields
<1>6. i \in 1 .. n /\ class <= i /\ i <= e /\ class \in Nat
  BY <1>2, <1>3
<1>7. Indented(lines, m)
  BY <1>4, <1>5, <1>6 DEF Indented
<1>8. QED
  BY <1>1, <1>5, <1>6, <1>7

\* All a Python file gives is as it should be.
LEMMA PythonIsRight ==
  ASSUME NEW lines, NEW n \in Nat \ {0}, Len(lines) = n, DOMAIN lines = 1 .. n,
         NEW given, given = Parse!ParsePython(lines)
  PROVE  /\ \A s \in given.symbols : Indented(lines, s)
         /\ AllWithin(n, given) /\ given.chunks # {}
         /\ InClass("Python", given.symbols)
<1>1. PyTop(lines) \subseteq 1 .. n /\ PyClasses(lines) \subseteq PyTop(lines)
  BY DEF PyTop, PyClasses
<1>2. ASSUME NEW i \in PyTop(lines), NEW s,
             s = Parse!Symbol(PyKind(lines, i), i, Parse!FindPythonBlockEnd(lines, i), 0)
      PROVE  /\ Indented(lines, s) /\ s.kind # "method" /\ s.start = i /\ s.end = Parse!FindPythonBlockEnd(lines, i)
             /\ i \in PyClasses(lines) => s.kind = "class"
  <2>1. s.kind = PyKind(lines, i) /\ s.start = i /\ s.end = Parse!FindPythonBlockEnd(lines, i) /\ s.of = 0
    BY <1>2, SymbolFields
  <2>2. lines[i].is \in {"class", "def"} /\ i \in DOMAIN lines
    BY DEF PyTop
  <2>3. QED
    BY <2>1, <2>2 DEF Indented, PyKind, PyClasses
<1>3. \A s \in given.symbols :
        \/ \E i \in PyTop(lines) : s = Parse!Symbol(PyKind(lines, i), i, Parse!FindPythonBlockEnd(lines, i), 0)
        \/ \E c \in PyClasses(lines) : s \in Parse!ExtractMethods(lines, c)
  <2>1. given.symbols = PySymbols(lines)
    BY PyFound
  <2>2. QED
    BY <2>1 DEF PySymbols
<1>4. \A s \in given.symbols : Indented(lines, s)
  BY <1>2, <1>3, PyMethodShape
<1>5. \A s \in given.symbols : Within(n, s) /\ s.of \in Nat
  BY <1>4, PyWithin
<1>6. PICK windows : windows = {Parse!Chunk(i, Parse!FindPythonBlockEnd(lines, i)) : i \in PyTop(lines)}
  OBVIOUS
<1>7. \A c \in windows : Within(n, c)
  <2> TAKE c \in windows
  <2>1. PICK i \in PyTop(lines) : c = Parse!Chunk(i, Parse!FindPythonBlockEnd(lines, i))
    BY <1>6
  <2>2. i \in 1 .. n /\ Parse!FindPythonBlockEnd(lines, i) \in i .. n
    BY <1>1, PyBlockEnds
  <2>3. QED
    BY <2>1, <2>2, ChunkFields DEF Within
<1>8. given.chunks # {} /\ \A c \in given.chunks : Within(n, c)
  <2>1. given.chunks = Parse!OrModule(lines, windows)
    BY <1>6, PyFound
  <2>2. QED
    BY <1>7, <2>1, ModuleWithin
<1>9. InClass("Python", given.symbols)
  <2> SUFFICES ASSUME NEW m \in given.symbols, m.kind = "method"
               PROVE  \E c \in given.symbols : c.kind = "class" /\ c.start = m.of /\ c.start <= m.start /\ m.start <= c.end
    BY DEF InClass
  <2>1. PICK class \in PyClasses(lines) : m \in Parse!ExtractMethods(lines, class)
    BY <1>2, <1>3
  <2>2. PICK c : c = Parse!Symbol(PyKind(lines, class), class, Parse!FindPythonBlockEnd(lines, class), 0)
    OBVIOUS
  <2>3. class \in PyTop(lines)
    BY <1>1
  <2>4. c \in given.symbols
    <3>1. given.symbols = PySymbols(lines)
      BY PyFound
    <3>2. QED
      BY <2>2, <2>3, <3>1 DEF PySymbols
  <2>5. c.kind = "class" /\ c.start = class /\ c.end = Parse!FindPythonBlockEnd(lines, class)
    BY <1>2, <2>2, <2>3
  <2>6. QED
    BY <2>1, <2>4, <2>5, PyMethodShape
<1>10. QED
  BY <1>4, <1>5, <1>8, <1>9 DEF AllWithin

-----------------------------------------------------------------------------
\* SQL, and files of no known language
LEMMA SemicolonEnds ==
  ASSUME NEW lines, NEW n \in Nat \ {0}, Len(lines) = n, NEW i \in 1 .. n
  PROVE  Parse!FindSemicolonEnd(lines, i) \in i .. n
<1>1. PICK S : S = {j \in i .. n : lines[j].semi}
  OBVIOUS
<1>2. PICK otherwise : otherwise = Parse!Lesser(i - 1 + StatementLines, n)
  OBVIOUS
<1>3. otherwise \in i .. n
  BY <1>2, ParsersAssumption DEF Parse!Lesser
<1>4. Parse!FindSemicolonEnd(lines, i) = Parse!Least(S, otherwise)
  BY <1>1, <1>2 DEF Parse!FindSemicolonEnd
<1>5. S \subseteq Nat /\ S \subseteq i .. n
  BY <1>1
<1>6. CASE S = {}
  BY <1>3, <1>4, <1>5, <1>6, LeastIsLeast
<1>7. CASE S # {}
  <2>1. Parse!Least(S, otherwise) \in S
    BY <1>5, <1>7, LeastIsLeast, Zenon
  <2>2. QED
    BY <1>4, <1>5, <2>1
<1>8. QED
  BY <1>6, <1>7

SqlBegins(lines, kinds) == {i \in DOMAIN lines : lines[i].is \in kinds}
SqlSymbols(lines) ==
  {Parse!Symbol(lines[i].is, i, Parse!FindSemicolonEnd(lines, i), 0) :
     i \in SqlBegins(lines, {"table", "view", "function", "procedure"})}
    \cup {Parse!Symbol("variable", i, i, 0) : i \in SqlBegins(lines, {"index"})}

\* SQL: what the parser returns.
LEMMA SqlFound ==
  ASSUME NEW lines
  PROVE  /\ Parse!ParseSql(lines).symbols = SqlSymbols(lines)
         /\ Parse!ParseSql(lines).chunks =
              Parse!OrModule(lines, {Parse!Chunk(i, Parse!FindSemicolonEnd(lines, i)) : i \in SqlBegins(lines, {"table"})})
BY DEF Parse!ParseSql, Parse!Extracted, SqlSymbols, SqlBegins

\* All an SQL file gives is as it should be.
LEMMA SqlIsRight ==
  ASSUME NEW lines, NEW n \in Nat \ {0}, Len(lines) = n, DOMAIN lines = 1 .. n,
         NEW given, given = Parse!ParseSql(lines)
  PROVE  AllWithin(n, given) /\ given.chunks # {} /\ InClass("SQL", given.symbols)
<1>1. given.symbols = SqlSymbols(lines)
  BY SqlFound
<1>2. \A s \in given.symbols : Within(n, s) /\ s.of \in Nat /\ s.kind # "method"
  <2> TAKE s \in given.symbols
  <2>1. CASE \E i \in SqlBegins(lines, {"table", "view", "function", "procedure"}) :
               s = Parse!Symbol(lines[i].is, i, Parse!FindSemicolonEnd(lines, i), 0)
    <3>1. PICK i \in SqlBegins(lines, {"table", "view", "function", "procedure"}) :
               s = Parse!Symbol(lines[i].is, i, Parse!FindSemicolonEnd(lines, i), 0)
      BY <2>1
    <3>2. i \in 1 .. n /\ lines[i].is # "method"
      BY DEF SqlBegins
    <3>3. s.kind = lines[i].is /\ s.start = i /\ s.end = Parse!FindSemicolonEnd(lines, i) /\ s.of = 0
      BY <3>1, SymbolFields
    <3>4. QED
      BY <3>2, <3>3, SemicolonEnds DEF Within
  <2>2. CASE \E i \in SqlBegins(lines, {"index"}) : s = Parse!Symbol("variable", i, i, 0)
    <3>1. PICK i \in SqlBegins(lines, {"index"}) : s = Parse!Symbol("variable", i, i, 0)
      BY <2>2
    <3>2. i \in 1 .. n
      BY DEF SqlBegins
    <3>3. s.kind = "variable" /\ s.start = i /\ s.end = i /\ s.of = 0
      BY <3>1, SymbolFields
    <3>4. QED
      BY <3>2, <3>3 DEF Within
  <2>3. QED
    BY <1>1, <2>1, <2>2 DEF SqlSymbols
<1>3. PICK windows : windows = {Parse!Chunk(i, Parse!FindSemicolonEnd(lines, i)) : i \in SqlBegins(lines, {"table"})}
  OBVIOUS
<1>4. \A c \in windows : Within(n, c)
  <2> TAKE c \in windows
  <2>1. PICK i \in 1 .. n : c = Parse!Chunk(i, Parse!FindSemicolonEnd(lines, i))
    BY <1>3 DEF SqlBegins
  <2>2. QED
    BY <2>1, SemicolonEnds, ChunkFields DEF Within
<1>5. given.chunks = Parse!OrModule(lines, windows)
  BY <1>3, SqlFound
<1>6. given.chunks # {} /\ \A c \in given.chunks : Within(n, c)
  BY <1>4, <1>5, ModuleWithin
<1>7. QED
  BY <1>2, <1>6 DEF AllWithin, InClass

\* Every line is in the window that begins at the last multiple of 45 before
\* it, or where that is too near to the end of the file in the one before.
LEMMA WindowOfLine ==
  ASSUME NEW n \in Nat \ {0}, NEW i \in 1 .. n
  PROVE  \E s \in 0 .. n - 1 : /\ s % 45 = 0 /\ (s = 0 \/ s + 5 < n)
                               /\ s + 1 <= i /\ (i <= s + 50 /\ i <= n)
<1>1. PICK z \in Nat : z = i - 1
  OBVIOUS
<1>2. PICK r \in Int : r = z % 45
  OBVIOUS
<1>3. 0 <= r /\ r <= 44 /\ r <= z /\ (z - r) % 45 = 0
  BY <1>1, <1>2
<1>4. PICK s \in Nat : s = z - r
  BY <1>1, <1>2, <1>3
<1>5. CASE s = 0 \/ s + 5 < n
  <2>1. s \in 0 .. n - 1 /\ s % 45 = 0 /\ s + 1 <= i /\ i <= s + 50 /\ i <= n
    BY <1>1, <1>3, <1>4
  <2>2. QED
    BY <1>5, <2>1
<1>6. CASE s # 0 /\ ~(s + 5 < n)
  <2>1. s % 45 = 0 /\ s > 0
    BY <1>3, <1>4, <1>6
  <2>2. s >= 45
    BY <2>1
  <2>3. PICK t \in Nat : t = s - 45
    BY <2>2
  <2>4. t % 45 = 0
    BY <2>1, <2>3
  <2>5. t + 5 < n /\ t + 1 <= i /\ i <= t + 50 /\ t \in 0 .. n - 1
    BY <1>1, <1>3, <1>4, <1>6, <2>3
  <2>6. QED
    BY <2>4, <2>5
<1>7. QED
  BY <1>5, <1>6

GenericStarts(n) == {i \in 0 .. n - 1 : i % (Parse!chunkSize - Parse!overlap) = 0 /\ (i = 0 \/ i + Parse!overlap < n)}
GenericWindows(n) == {Parse!Chunk(i + 1, Parse!Lesser(i + Parse!chunkSize, n)) : i \in GenericStarts(n)}

\* Any other language: windows of lines.
LEMMA GenericFound ==
  ASSUME NEW lines
  PROVE  /\ Parse!ParseGeneric(lines).symbols = {}
         /\ Parse!ParseGeneric(lines).chunks =
              {w \in GenericWindows(Len(lines)) : \E k \in w.start .. w.end : lines[k].is # "blank"}
BY DEF Parse!ParseGeneric, Parse!Extracted, GenericWindows, GenericStarts

\* All such a file gives is as it should be.
LEMMA GenericIsRight ==
  ASSUME NEW lines, NEW n \in Nat \ {0}, Len(lines) = n, DOMAIN lines = 1 .. n,
         NEW given, given = Parse!ParseGeneric(lines)
  PROVE  /\ AllWithin(n, given) /\ InClass("Generic", given.symbols)
         /\ given.symbols = {}
         /\ \A i \in 1 .. n : lines[i].is # "blank" => \E c \in given.chunks : i \in c.start .. c.end
<1>1. given.symbols = {}
  BY GenericFound
<1>2. given.chunks = {w \in GenericWindows(n) : \E k \in w.start .. w.end : lines[k].is # "blank"}
  BY GenericFound
<1>3. ASSUME NEW i \in GenericStarts(n), NEW w, w = Parse!Chunk(i + 1, Parse!Lesser(i + Parse!chunkSize, n))
      PROVE  w.start = i + 1 /\ w.end = (IF i + 50 < n THEN i + 50 ELSE n) /\ Within(n, w)
  <2>1. w.start = i + 1 /\ w.end = Parse!Lesser(i + 50, n)
    BY <1>3, ChunkFields DEF Parse!chunkSize
  <2>2. i \in 0 .. n - 1
    BY DEF GenericStarts
  <2>3. QED
    BY <2>1, <2>2 DEF Within, Parse!Lesser
<1>4. \A w \in GenericWindows(n) : Within(n, w)
  BY <1>3 DEF GenericWindows
<1>5. ASSUME NEW i \in 1 .. n, lines[i].is # "blank"
      PROVE  \E c \in given.chunks : i \in c.start .. c.end
  <2>1. PICK s \in 0 .. n - 1 : s % 45 = 0 /\ (s = 0 \/ s + 5 < n) /\ s + 1 <= i /\ i <= s + 50 /\ i <= n
    BY WindowOfLine
  <2>2. s \in GenericStarts(n)
    BY <2>1 DEF GenericStarts, Parse!chunkSize, Parse!overlap
  <2>3. PICK w : w = Parse!Chunk(s + 1, Parse!Lesser(s + Parse!chunkSize, n))
    OBVIOUS
  <2>4. w \in GenericWindows(n)
    BY <2>2, <2>3 DEF GenericWindows
  <2>5. i \in w.start .. w.end
    BY <1>3, <2>1, <2>2, <2>3
  <2>6. w \in given.chunks
    BY <1>2, <1>5, <2>4, <2>5
  <2>7. QED
    BY <2>5, <2>6
<1>6. QED
  BY <1>1, <1>2, <1>4, <1>5 DEF AllWithin, InClass

-----------------------------------------------------------------------------
\* What was extracted from a file of a language is as it should be.
RightFor(lang, lines, given) ==
  /\ AllWithin(Len(lines), given)
  /\ InClass(lang, given.symbols)
  /\ lang = "Python" => \A s \in given.symbols : Indented(lines, s)
  /\ lang \in {"TypeScript", "Java"} => \A s \in given.symbols : InBraces(lines, s)
  /\ IF lang = "Generic"
     THEN \A i \in 1 .. Len(lines) : lines[i].is # "blank" => \E c \in given.chunks : i \in c.start .. c.end
     ELSE given.chunks # {}

\* Whatever the language.
LEMMA AllAreRight ==
  ASSUME NEW lang \in Languages, NEW lines, WellFormed(lang, lines), NEW given, given = Parse!Parse(lang, lines)
  PROVE  RightFor(lang, lines, given)
<1>1. PICK n \in Nat \ {0} : Len(lines) = n /\ DOMAIN lines = 1 .. n
  BY DEF WellFormed
<1>2. CASE lang = "TypeScript"
  <2>1. given = Parse!ParseTypeScript(lines)
    BY <1>2 DEF Parse!Parse
  <2>2. QED
    BY <1>1, <1>2, <2>1, TsIsRight DEF RightFor
<1>3. CASE lang = "Java"
  <2>1. given = Parse!ParseJava(lines)
    BY <1>3 DEF Parse!Parse
  <2>2. QED
    BY <1>1, <1>3, <2>1, JavaIsRight DEF RightFor
<1>4. CASE lang = "Python"
  <2>1. given = Parse!ParsePython(lines)
    BY <1>4 DEF Parse!Parse
  <2>2. QED
    BY <1>1, <1>4, <2>1, PythonIsRight DEF RightFor
<1>5. CASE lang = "SQL"
  <2>1. given = Parse!ParseSql(lines)
    BY <1>5 DEF Parse!Parse
  <2>2. QED
    BY <1>1, <1>5, <2>1, SqlIsRight DEF RightFor
<1>6. CASE lang = "Generic"
  <2>1. given = Parse!ParseGeneric(lines)
    BY <1>6 DEF Parse!Parse
  <2>2. QED
    BY <1>1, <1>6, <2>1, GenericIsRight DEF RightFor
<1>7. QED
  BY <1>2, <1>3, <1>4, <1>5, <1>6 DEF Languages

\* A file is left out or indexed, and one with a secret in its name is not indexed.
LEMMA FilteredOrParsed ==
  ASSUME NEW traits
  PROVE  /\ Parse!ShouldProcess(traits) \in {"ignored", "binary", "process"}
         /\ Parse!ShouldProcess(traits) = "process" => "secret" \notin traits
BY DEF Parse!ShouldProcess

LEMMA ParsersInit == Parse!Init => ParsedInv
BY DEF Parse!Init, ParsedInv

LEMMA ParsersStep == ParsedInv /\ [Next]_vars => ParsedInv'
<1> SUFFICES ASSUME ParsedInv, [Next]_vars PROVE ParsedInv'
  OBVIOUS
<1>1. Parse!Next \/ UNCHANGED parsersVars
  BY DEF Next, vars
<1>2. CASE UNCHANGED parsersVars
  BY <1>2 DEF parsersVars, ParsedInv
<1>3. CASE Parse!Next
  <2>1. PICK f \in Parse!Files : Parse!FilterFile(f) \/ Parse!ParseFile(f)
    BY <1>3 DEF Parse!Next
  <2>2. status = "pending"
    BY <1>3 DEF Parse!Next
  <2>3. CASE Parse!FilterFile(f)
    <3>1. status' \in {"ignored", "binary"}
      BY <2>3, FilteredOrParsed DEF Parse!FilterFile
    <3>2. symbols' = {} /\ parsedChunks' = {}
      BY <2>2, <2>3 DEF ParsedInv, Parse!FilterFile
    <3>3. QED
      BY <3>1, <3>2 DEF ParsedInv
  <2>4. CASE Parse!ParseFile(f)
    <3>1. status' = "indexed" /\ parsedFile' = f /\ "secret" \notin f.traits
      BY <2>4, FilteredOrParsed DEF Parse!ParseFile
    <3>2. /\ symbols' = Parse!Parse(f.lang, f.lines).symbols
          /\ parsedChunks' = Parse!Parse(f.lang, f.lines).chunks
      BY <2>4, Zenon DEF Parse!ParseFile
    <3>3. QED
      BY <3>1, <3>2 DEF ParsedInv
  <2>5. QED
    BY <2>1, <2>3, <2>4
<1>4. QED
  BY <1>1, <1>2, <1>3

LEMMA ParsersPromises ==
  ParsedInv => Parse!TypeOK /\ Parse!ArtefactsInFile /\ Parse!BlocksNest /\ Parse!MethodsInClass
<1> SUFFICES ASSUME ParsedInv PROVE Parse!TypeOK /\ Parse!ArtefactsInFile /\ Parse!BlocksNest /\ Parse!MethodsInClass
  OBVIOUS
<1>1. CASE status # "indexed"
  <2>1. symbols = {} /\ parsedChunks = {} /\ status \in {"pending", "ignored", "binary"}
    BY <1>1 DEF ParsedInv
  <2>2. Parse!TypeOK /\ Parse!ArtefactsInFile
    BY <2>1 DEF Parse!TypeOK, Parse!ArtefactsInFile
  <2>3. Parse!BlocksNest /\ Parse!MethodsInClass
    BY <2>1 DEF Parse!BlocksNest, Parse!MethodsInClass
  <2>4. QED
    BY <2>2, <2>3
<1>2. CASE status = "indexed"
  <2>1. PICK lang : lang = parsedFile.lang
    OBVIOUS
  <2>2. PICK lines : lines = parsedFile.lines
    OBVIOUS
  <2>3. PICK given : given = Parse!Parse(lang, lines)
    OBVIOUS
  <2>4. symbols = given.symbols /\ parsedChunks = given.chunks /\ "secret" \notin parsedFile.traits
    BY <1>2, <2>1, <2>2, <2>3 DEF ParsedInv
  <2>5. lang \in Languages /\ WellFormed(lang, lines)
    BY <1>2, <2>1, <2>2, FilesAreWellFormed, Zenon DEF ParsedInv
  <2>6. RightFor(lang, lines, given)
    BY <2>3, <2>5, AllAreRight
  <2>7. PICK n \in Nat \ {0} : Len(lines) = n /\ DOMAIN lines = 1 .. n
    BY <2>5 DEF WellFormed
  <2>8. /\ \A s \in symbols : s.start \in 1 .. n /\ s.end \in s.start .. n /\ s.of \in Nat
        /\ \A c \in parsedChunks : c.start \in 1 .. n /\ c.end \in c.start .. n
    BY <2>4, <2>6, <2>7 DEF RightFor, AllWithin, Within
  <2>9. Parse!TypeOK
    BY <1>2, <2>8 DEF Parse!TypeOK
  <2>10. Parse!ArtefactsInFile
    <3>1. \A s \in symbols \cup parsedChunks : 1 <= s.start /\ s.start <= s.end /\ s.end <= n
      BY <2>8
    <3>2. IF lang = "Generic"
          THEN \A i \in 1 .. n : lines[i].is # "blank" => \E c \in parsedChunks : i \in c.start .. c.end
          ELSE parsedChunks # {}
      BY <2>4, <2>6, <2>7 DEF RightFor
    <3>3. QED
      BY <2>1, <2>2, <2>4, <2>7, <3>1, <3>2 DEF Parse!ArtefactsInFile
  <2>11. Parse!BlocksNest
    <3> SUFFICES ASSUME NEW s \in symbols, NEW t \in symbols, s.start < t.start, t.start <= s.end,
                        \/ lang = "Python"
                        \/ /\ lang \in {"TypeScript", "Java"} /\ Parse!Closed(s)
                           /\ lines[s.start].open = 1 /\ lines[t.start].open = 1
                 PROVE  t.end <= s.end
      BY <2>1, <2>2 DEF Parse!BlocksNest
    <3>1. CASE lang = "Python"
      <4>1. \A i \in 1 .. n : lines[i].indent \in Nat
        BY <2>5, <2>7, <3>1 DEF WellFormed
      <4>2. Indented(lines, s) /\ Indented(lines, t)
        BY <2>4, <2>6, <3>1 DEF RightFor
      <4>3. QED
        BY <2>7, <4>1, <4>2, IndentedNest
    <3>2. CASE lang # "Python"
      <4>1. Parse!Closed(s) /\ lines[s.start].open = 1 /\ lines[t.start].open = 1 /\ lang \in {"TypeScript", "Java"}
        BY <3>2
      <4>2. InBraces(lines, s) /\ InBraces(lines, t)
        BY <2>4, <2>6, <4>1 DEF RightFor
      <4>3. Parse!Cardinality(Opening(lines, s.start, s.end)) <= Parse!Cardinality(Closing(lines, s.start, s.end))
        BY <2>2, <4>1 DEF Parse!Closed, Opening, Closing
      <4>4. Cardinality(Opening(lines, s.start, s.end)) <= Cardinality(Closing(lines, s.start, s.end))
        BY <4>3, SameParseCardinality
      <4>5. QED
        BY <2>7, <4>1, <4>2, <4>4, BracedNest
    <3>3. QED
      BY <3>1, <3>2
  <2>12. Parse!MethodsInClass
    BY <2>1, <2>4, <2>6 DEF RightFor, InClass, Parse!MethodsInClass
  <2>13. QED
    BY <2>9, <2>10, <2>11, <2>12
<1>3. QED
  BY <1>1, <1>2

-----------------------------------------------------------------------------
(***************************************************************************)
(* Circular imports                                                        *)
(***************************************************************************)
GraphNode == Graph!Files \cup {<<"symbol", "S">>, <<"test", "suite">>}
Frame == [node : GraphNode, left : SUBSET GraphNode]
Importers == [GraphNode -> SUBSET GraphNode]

\* The calls of dfs are a path along imports, of which some are left to follow.
OnPath(nb, s) == \A i \in 1 .. Len(s) :
  s[i].left \subseteq nb[s[i].node] /\ (i < Len(s) => s[i + 1].node \in nb[s[i].node])
Apart(s) == \A i, j \in 1 .. Len(s) : i < j => s[i].node # s[j].node
NodesOf(s) == {s[i].node : i \in 1 .. Len(s)}

\* Of the other imports of a node, all are done but the one that is being visited.
LookedAt(nb, s, done) == \A i \in 1 .. Len(s) : \A m \in nb[s[i].node] \ s[i].left :
  m \in done \/ (i < Len(s) /\ m = s[i + 1].node)

\* The nodes that are done can be ranked, each above all it imports: so there
\* is no circle among them.
Ranked(nb, done) == \E k \in Nat : \E rank \in [done -> Nat] : \A x \in done :
  rank[x] < k /\ \A y \in nb[x] : y \in done /\ rank[y] < rank[x]

SearchInv(nb, s, seen, rec) ==
  /\ s \in Seq(Frame) /\ rec = NodesOf(s) /\ rec \subseteq seen /\ seen \subseteq GraphNode
  /\ OnPath(nb, s) /\ Apart(s) /\ LookedAt(nb, s, seen \ rec) /\ Ranked(nb, seen \ rec)

\* The top of the stack with one neighbour less to look at.
Less(s, m) == [s EXCEPT ![Len(s)].left = @ \ {m}]
Called(nb, s, m) == Append(s, [node |-> m, left |-> nb[m]])

\* One import less to look at for the file on top of the stack.
LEMMA LessFacts ==
  ASSUME NEW s \in Seq(Frame), s # <<>>, NEW m, NEW r, r = Less(s, m)
  PROVE  /\ r \in Seq(Frame) /\ Len(r) = Len(s) /\ Len(s) \in Nat \ {0}
         /\ \A i \in 1 .. Len(s) : r[i].node = s[i].node
         /\ \A i \in 1 .. Len(s) - 1 : r[i].left = s[i].left
         /\ r[Len(s)].left = s[Len(s)].left \ {m}
<1>1. PICK n \in Nat \ {0} : n = Len(s) /\ DOMAIN s = 1 .. n
  OBVIOUS
<1>2. \A i \in 1 .. n : s[i] \in Frame
  BY <1>1
<1>3. PICK top : top = [s[n] EXCEPT !.left = @ \ {m}]
  OBVIOUS
<1>4. top \in Frame /\ top.node = s[n].node /\ top.left = s[n].left \ {m}
  BY <1>1, <1>2, <1>3 DEF Frame
<1>5. r = [i \in 1 .. n |-> IF i = n THEN top ELSE s[i]]
  BY <1>1, <1>3 DEF Less
<1>6. \A i \in 1 .. n : r[i] = IF i = n THEN top ELSE s[i]
  BY <1>5
<1>7. r \in [1 .. n -> Frame]
  BY <1>2, <1>4, <1>5
<1>8. r \in Seq(Frame) /\ Len(r) = n
  BY <1>7
<1>9. /\ \A i \in 1 .. n : r[i].node = s[i].node
      /\ \A i \in 1 .. n - 1 : r[i].left = s[i].left
      /\ r[n].left = s[n].left \ {m}
  BY <1>1, <1>4, <1>6
<1>10. QED
  BY <1>1, <1>8, <1>9

\* A call for a node that was not visited, from the top or from none.
LEMMA CallKeeps ==
  ASSUME NEW nb \in Importers, NEW s, NEW seen, NEW rec, SearchInv(nb, s, seen, rec),
         NEW m \in GraphNode, m \notin seen, NEW r,
         \/ s = <<>> /\ r = s
         \/ s # <<>> /\ r = Less(s, m) /\ m \in s[Len(s)].left
  PROVE  SearchInv(nb, Called(nb, r, m), seen \cup {m}, rec \cup {m})
<1>1. s \in Seq(Frame) /\ rec = NodesOf(s) /\ rec \subseteq seen /\ seen \subseteq GraphNode
  BY DEF SearchInv
<1>2. OnPath(nb, s) /\ Apart(s) /\ LookedAt(nb, s, seen \ rec) /\ Ranked(nb, seen \ rec)
  BY DEF SearchInv
<1>3. PICK n \in Nat : n = Len(s)
  BY <1>1
<1>4. /\ r \in Seq(Frame) /\ Len(r) = n
      /\ \A i \in 1 .. n : r[i].node = s[i].node
      /\ \A i \in 1 .. n - 1 : r[i].left = s[i].left
      /\ n > 0 => m \in s[n].left /\ r[n].left = s[n].left \ {m}
  <2>1. CASE s = <<>> /\ r = s
    <3>1. n = 0
      BY <1>3, <2>1
    <3>2. QED
      BY <1>1, <1>3, <2>1, <3>1
  <2>2. CASE s # <<>> /\ r = Less(s, m) /\ m \in s[Len(s)].left
    BY <1>1, <1>3, <2>2, LessFacts
  <2>3. QED
    BY <2>1, <2>2
<1>5. PICK t : t = Called(nb, r, m)
  OBVIOUS
<1>6. /\ t \in Seq(Frame) /\ Len(t) = n + 1
      /\ \A i \in 1 .. n : t[i].node = s[i].node
      /\ \A i \in 1 .. n - 1 : t[i].left = s[i].left
      /\ n > 0 => t[n].left = s[n].left \ {m}
      /\ t[n + 1].node = m /\ t[n + 1].left = nb[m]
  <2>1. /\ t \in Seq(Frame) /\ Len(t) = n + 1
        /\ \A i \in 1 .. n : t[i] = r[i]
        /\ t[n + 1].node = m /\ t[n + 1].left = nb[m]
    <3>1. r \in Seq(Frame) /\ Len(r) = n
      BY <1>4
    <3>2. PICK frame : frame = [node |-> m, left |-> nb[m]]
      OBVIOUS
    <3>3. frame \in Frame /\ frame.node = m /\ frame.left = nb[m]
      BY <3>2 DEF Frame, Importers
    <3>4. t = Append(r, frame)
      BY <1>5, <3>2 DEF Called
    <3>5. QED
      BY <3>1, <3>3, <3>4
  <2>2. /\ \A i \in 1 .. n : t[i].node = s[i].node
        /\ \A i \in 1 .. n - 1 : t[i].left = s[i].left
        /\ n > 0 => t[n].left = s[n].left \ {m}
    <3>1. n > 0 => n \in 1 .. n
      OBVIOUS
    <3>2. \A i \in 1 .. n - 1 : i \in 1 .. n
      OBVIOUS
    <3>3. \A i \in 1 .. n : t[i].node = s[i].node
      BY <1>4, <2>1
    <3>4. \A i \in 1 .. n - 1 : t[i].left = s[i].left
      BY <1>4, <2>1, <3>2
    <3>5. n > 0 => t[n].left = s[n].left \ {m}
      BY <1>4, <2>1, <3>1
    <3>6. QED
      BY <3>3, <3>4, <3>5
  <2>3. QED
    BY <2>1, <2>2
<1>7. NodesOf(t) = rec \cup {m}
  <2>1. 1 .. n + 1 = (1 .. n) \cup {n + 1}
    OBVIOUS
  <2>2. {t[i].node : i \in 1 .. n} = {s[i].node : i \in 1 .. n}
    BY <1>6
  <2>3. NodesOf(t) = {t[i].node : i \in 1 .. n} \cup {t[n + 1].node}
    BY <1>6, <2>1 DEF NodesOf
  <2>4. QED
    BY <1>1, <1>3, <1>6, <2>2, <2>3 DEF NodesOf
<1>8. (seen \cup {m}) \ (rec \cup {m}) = seen \ rec
  OBVIOUS
<1>9. OnPath(nb, t)
  <2> SUFFICES ASSUME NEW i \in 1 .. n + 1
               PROVE  t[i].left \subseteq nb[t[i].node] /\ (i < n + 1 => t[i + 1].node \in nb[t[i].node])
    BY <1>6 DEF OnPath
  <2>1. CASE i = n + 1
    BY <1>6, <2>1
  <2>2. CASE i = n
    <3>1. s[n].left \subseteq nb[s[n].node]
      BY <1>2, <1>3, <2>2 DEF OnPath
    <3>2. m \in s[n].left
      BY <1>4, <2>2
    <3>3. t[i].node = s[n].node /\ t[i].left = s[n].left \ {m} /\ t[i + 1].node = m
      BY <1>6, <2>2
    <3>4. QED
      BY <3>1, <3>2, <3>3
  <2>3. CASE i < n
    <3>1. s[i].left \subseteq nb[s[i].node] /\ s[i + 1].node \in nb[s[i].node]
      BY <1>2, <1>3, <2>3 DEF OnPath
    <3>2. i \in 1 .. n /\ i + 1 \in 1 .. n
      BY <2>3
    <3>3. t[i].node = s[i].node /\ t[i].left = s[i].left /\ t[i + 1].node = s[i + 1].node
      BY <1>6, <2>3, <3>2
    <3>4. QED
      BY <3>1, <3>3
  <2>4. QED
    BY <2>1, <2>2, <2>3
<1>10. Apart(t)
  <2> SUFFICES ASSUME NEW i \in 1 .. n + 1, NEW j \in 1 .. n + 1, i < j
               PROVE  t[i].node # t[j].node
    BY <1>6 DEF Apart
  <2>1. i \in 1 .. n /\ t[i].node = s[i].node /\ s[i].node \in rec
    BY <1>1, <1>3, <1>6 DEF NodesOf
  <2>2. CASE j = n + 1
    BY <1>1, <1>6, <2>1, <2>2
  <2>3. CASE j # n + 1
    <3>1. j \in 1 .. n /\ t[j].node = s[j].node
      BY <1>6, <2>3
    <3>2. QED
      BY <1>2, <1>3, <2>1, <3>1 DEF Apart
  <2>4. QED
    BY <2>2, <2>3
<1>11. LookedAt(nb, t, seen \ rec)
  <2> SUFFICES ASSUME NEW i \in 1 .. n + 1, NEW x \in nb[t[i].node] \ t[i].left
               PROVE  x \in seen \ rec \/ (i < n + 1 /\ x = t[i + 1].node)
    BY <1>6 DEF LookedAt
  <2>1. CASE i = n + 1
    BY <1>6, <2>1
  <2>2. CASE i = n
    <3>1. t[i].node = s[n].node /\ t[i].left = s[n].left \ {m} /\ t[i + 1].node = m
      BY <1>6, <2>2
    <3>2. x = m \/ x \in nb[s[n].node] \ s[n].left
      BY <3>1
    <3>3. x \in nb[s[n].node] \ s[n].left => x \in seen \ rec
      BY <1>2, <1>3, <2>2 DEF LookedAt
    <3>4. QED
      BY <2>2, <3>1, <3>2, <3>3
  <2>3. CASE i < n
    <3>1. i \in 1 .. n /\ i + 1 \in 1 .. n
      BY <2>3
    <3>2. t[i].node = s[i].node /\ t[i].left = s[i].left /\ t[i + 1].node = s[i + 1].node
      BY <1>6, <2>3, <3>1
    <3>3. x \in seen \ rec \/ x = s[i + 1].node
      BY <1>2, <1>3, <3>1, <3>2 DEF LookedAt
    <3>4. QED
      BY <2>3, <3>2, <3>3
  <2>4. QED
    BY <2>1, <2>2, <2>3
<1>12. QED
  BY <1>1, <1>2, <1>5, <1>6, <1>7, <1>8, <1>9, <1>10, <1>11, Zenon DEF SearchInv

\* A neighbour that is done.
LEMMA SkipKeeps ==
  ASSUME NEW nb \in Importers, NEW s, NEW seen, NEW rec, SearchInv(nb, s, seen, rec),
         s # <<>>, NEW m \in seen \ rec, m \in s[Len(s)].left
  PROVE  SearchInv(nb, Less(s, m), seen, rec)
<1>1. s \in Seq(Frame) /\ rec = NodesOf(s) /\ rec \subseteq seen /\ seen \subseteq GraphNode
  BY DEF SearchInv
<1>2. OnPath(nb, s) /\ Apart(s) /\ LookedAt(nb, s, seen \ rec) /\ Ranked(nb, seen \ rec)
  BY DEF SearchInv
<1>3. PICK n \in Nat \ {0} : n = Len(s)
  BY <1>1
<1>4. PICK r : r = Less(s, m)
  OBVIOUS
<1>5. /\ r \in Seq(Frame) /\ Len(r) = n
      /\ \A i \in 1 .. n : r[i].node = s[i].node
      /\ \A i \in 1 .. n - 1 : r[i].left = s[i].left
      /\ r[n].left = s[n].left \ {m}
  BY <1>1, <1>3, <1>4, LessFacts
<1>6. NodesOf(r) = rec
  BY <1>1, <1>3, <1>5 DEF NodesOf
<1>7. \A i \in 1 .. n : r[i].left \subseteq s[i].left
  <2> TAKE i \in 1 .. n
  <2>1. i = n \/ i \in 1 .. n - 1
    OBVIOUS
  <2>2. QED
    BY <1>5, <2>1
<1>8. OnPath(nb, r)
  <2> SUFFICES ASSUME NEW i \in 1 .. n
               PROVE  r[i].left \subseteq nb[r[i].node] /\ (i < n => r[i + 1].node \in nb[r[i].node])
    BY <1>5 DEF OnPath
  <2>1. s[i].left \subseteq nb[s[i].node] /\ (i < n => s[i + 1].node \in nb[s[i].node])
    BY <1>2, <1>3 DEF OnPath
  <2>2. r[i].node = s[i].node /\ (i < n => r[i + 1].node = s[i + 1].node)
    BY <1>5
  <2>3. QED
    BY <1>7, <2>1, <2>2
<1>9. Apart(r)
  BY <1>2, <1>3, <1>5 DEF Apart
<1>10. LookedAt(nb, r, seen \ rec)
  <2> SUFFICES ASSUME NEW i \in 1 .. n, NEW x \in nb[r[i].node] \ r[i].left
               PROVE  x \in seen \ rec \/ (i < n /\ x = r[i + 1].node)
    BY <1>5 DEF LookedAt
  <2>1. r[i].node = s[i].node /\ (i < n => r[i + 1].node = s[i + 1].node)
    BY <1>5
  <2>2. x = m \/ x \in nb[s[i].node] \ s[i].left
    <3>1. i = n \/ i \in 1 .. n - 1
      OBVIOUS
    <3>2. QED
      BY <1>5, <2>1, <3>1
  <2>3. x \in nb[s[i].node] \ s[i].left => x \in seen \ rec \/ (i < n /\ x = s[i + 1].node)
    BY <1>2, <1>3 DEF LookedAt
  <2>4. QED
    BY <2>1, <2>2, <2>3
<1>11. QED
  BY <1>1, <1>2, <1>4, <1>5, <1>6, <1>8, <1>9, <1>10, Zenon DEF SearchInv

\* A return: the node is done, and ranked above all the others.
LEMMA ReturnKeeps ==
  ASSUME NEW nb \in Importers, NEW s, NEW seen, NEW rec, SearchInv(nb, s, seen, rec),
         s # <<>>, s[Len(s)].left = {}
  PROVE  SearchInv(nb, SubSeq(s, 1, Len(s) - 1), seen, rec \ {s[Len(s)].node})
<1>1. s \in Seq(Frame) /\ rec = NodesOf(s) /\ rec \subseteq seen /\ seen \subseteq GraphNode
  BY DEF SearchInv
<1>2. OnPath(nb, s) /\ Apart(s) /\ LookedAt(nb, s, seen \ rec) /\ Ranked(nb, seen \ rec)
  BY DEF SearchInv
<1>3. PICK n \in Nat \ {0} : n = Len(s)
  BY <1>1
<1>4. PICK r : r = SubSeq(s, 1, n - 1)
  OBVIOUS
<1>5. r \in Seq(Frame) /\ Len(r) = n - 1 /\ \A i \in 1 .. n - 1 : r[i] = s[i]
  BY <1>1, <1>3, <1>4
<1>6. PICK top : top = s[n].node
  OBVIOUS
<1>7. top \in rec /\ top \in GraphNode
  BY <1>1, <1>3, <1>6 DEF NodesOf
<1>8. PICK fewer : fewer = rec \ {top}
  OBVIOUS
<1>9. NodesOf(r) = fewer
  <2>1. \A i \in 1 .. n - 1 : s[i].node # top
    BY <1>2, <1>3, <1>6 DEF Apart
  <2>2. rec = {s[i].node : i \in 1 .. n}
    BY <1>1, <1>3 DEF NodesOf
  <2>3. 1 .. n = (1 .. n - 1) \cup {n}
    OBVIOUS
  <2>4. rec = {s[i].node : i \in 1 .. n - 1} \cup {top}
    BY <1>6, <2>2, <2>3
  <2>5. fewer = {s[i].node : i \in 1 .. n - 1}
    BY <1>8, <2>1, <2>4
  <2>6. QED
    BY <1>5, <2>5 DEF NodesOf
<1>10. OnPath(nb, r)
  <2> SUFFICES ASSUME NEW i \in 1 .. n - 1
               PROVE  r[i].left \subseteq nb[r[i].node] /\ (i < n - 1 => r[i + 1].node \in nb[r[i].node])
    BY <1>5 DEF OnPath
  <2>1. s[i].left \subseteq nb[s[i].node] /\ (i < n => s[i + 1].node \in nb[s[i].node])
    BY <1>2, <1>3 DEF OnPath
  <2>2. r[i] = s[i] /\ (i < n - 1 => r[i + 1] = s[i + 1])
    BY <1>5
  <2>3. QED
    BY <2>1, <2>2
<1>11. Apart(r)
  BY <1>2, <1>3, <1>5 DEF Apart
<1>12. seen \ fewer = (seen \ rec) \cup {top}
  BY <1>1, <1>7, <1>8
<1>13. LookedAt(nb, r, seen \ fewer)
  <2> SUFFICES ASSUME NEW i \in 1 .. n - 1, NEW x \in nb[r[i].node] \ r[i].left
               PROVE  x \in seen \ fewer \/ (i < n - 1 /\ x = r[i + 1].node)
    BY <1>5 DEF LookedAt
  <2>1. x \in seen \ rec \/ x = s[i + 1].node
    <3>1. r[i] = s[i] /\ i \in 1 .. Len(s)
      BY <1>3, <1>5
    <3>2. x \in nb[s[i].node] \ s[i].left
      BY <3>1
    <3>3. QED
      BY <1>2, <3>1, <3>2 DEF LookedAt
  <2>2. CASE i = n - 1
    BY <1>6, <1>12, <2>1, <2>2
  <2>3. CASE i < n - 1
    BY <1>5, <1>12, <2>1, <2>3
  <2>4. QED
    BY <2>2, <2>3
<1>14. Ranked(nb, seen \ fewer)
  <2>1. PICK done : done = seen \ rec
    OBVIOUS
  <2>2. \A y \in nb[top] : y \in done
    BY <1>2, <1>3, <1>6, <2>1 DEF LookedAt
  <2>3. PICK k \in Nat : \E rank \in [done -> Nat] : \A x \in done :
          rank[x] < k /\ \A y \in nb[x] : y \in done /\ rank[y] < rank[x]
    BY <1>2, <2>1, Zenon DEF Ranked
  <2>4. PICK rank \in [done -> Nat] : \A x \in done :
          rank[x] < k /\ \A y \in nb[x] : y \in done /\ rank[y] < rank[x]
    BY <2>3
  <2>5. PICK more : more = [x \in done \cup {top} |-> IF x = top THEN k ELSE rank[x]]
    OBVIOUS
  <2>6. top \notin done
    BY <1>7, <2>1
  <2>7. more[top] = k /\ \A x \in done : more[x] = rank[x] /\ rank[x] \in Nat
    BY <2>4, <2>5, <2>6
  <2>8. more \in [done \cup {top} -> Nat]
    BY <2>4, <2>5
  <2>9. ASSUME NEW x \in done \cup {top}
        PROVE  more[x] < k + 1 /\ \A y \in nb[x] : y \in done \cup {top} /\ more[y] < more[x]
    <3>1. CASE x = top
      BY <2>2, <2>4, <2>7, <3>1
    <3>2. CASE x \in done
      BY <2>4, <2>7, <3>2
    <3>3. QED
      BY <3>1, <3>2
  <2>10. k + 1 \in Nat
    OBVIOUS
  <2>11. Ranked(nb, done \cup {top})
    BY <2>8, <2>9, <2>10, Zenon DEF Ranked
  <2>12. QED
    BY <1>12, <2>1, <2>11
<1>15. fewer \subseteq seen
  BY <1>1, <1>8
<1>16. SearchInv(nb, r, seen, fewer)
  BY <1>1, <1>5, <1>9, <1>10, <1>11, <1>13, <1>14, <1>15, Zenon DEF SearchInv
<1>17. QED
  BY <1>3, <1>4, <1>6, <1>8, <1>16

Imported == [n \in GraphNode |-> Graph!Neighbours(n)]

\* Some files each of which imports another of them.
Circular(some) ==
  some # {} /\ \A f \in some : \E g \in some \ {f} : <<f, "IMPORTS", g>> \in edges

\* Edges are between nodes, imports between different files.
EdgesJoin ==
  \A e \in edges : /\ e = <<e[1], e[2], e[3]>> /\ e[1] \in nodes /\ e[3] \in nodes /\ e[1] # e[3]
                   /\ e[2] = "IMPORTS" => e[1] \in Graph!Files /\ e[3] \in Graph!Files

\* The graph is well formed, its search as above, and a verdict is right.
GraphInv ==
  /\ input = None => /\ nodes = {} /\ edges = {} /\ stack = <<>> /\ visited = {} /\ recStack = {}
                     /\ hasCycles = None
  /\ nodes \subseteq GraphNode /\ (input # None => Graph!Files \subseteq nodes)
  /\ EdgesJoin
  /\ visited \subseteq nodes
  /\ SearchInv(Imported, stack, visited, recStack)
  /\ hasCycles \in {None, TRUE, FALSE}
  /\ hasCycles = TRUE => \E some \in SUBSET Graph!Files : Circular(some)
  /\ hasCycles = FALSE => \A some \in SUBSET Graph!Files : ~Circular(some)

\* What a file imports is a node of the graph.
LEMMA ImportedNodes ==
  ASSUME EdgesJoin, nodes \subseteq GraphNode
  PROVE  /\ Imported \in Importers
         /\ \A n \in GraphNode : /\ Imported[n] = Graph!Neighbours(n)
                                 /\ \A m \in Imported[n] : /\ <<n, "IMPORTS", m>> \in edges /\ m \in nodes
                                                           /\ n # m /\ n \in Graph!Files /\ m \in Graph!Files
<1>1. ASSUME NEW n \in GraphNode, NEW m \in Graph!Neighbours(n)
      PROVE  /\ <<n, "IMPORTS", m>> \in edges /\ m \in nodes
             /\ n # m /\ n \in Graph!Files /\ m \in Graph!Files
  <2>1. PICK e \in edges : e[1] = n /\ e[2] = "IMPORTS" /\ e[3] = m
    BY DEF Graph!Neighbours
  <2>2. e = <<n, "IMPORTS", m>>
    BY <2>1 DEF EdgesJoin
  <2>3. QED
    BY <2>1, <2>2 DEF EdgesJoin
<1>2. Imported = [n \in GraphNode |-> Graph!Neighbours(n)]
  BY DEF Imported
<1>3. \A n \in GraphNode : Graph!Neighbours(n) \subseteq GraphNode
  BY <1>1
<1>4. QED
  BY <1>1, <1>2, <1>3 DEF Importers

\* A neighbour that is being visited: all from it to the top are in a circle.
LEMMA CircleFound ==
  ASSUME GraphInv, stack # <<>>, NEW m \in stack[Len(stack)].left, m \in recStack
  PROVE  \E some \in SUBSET Graph!Files : Circular(some)
<1>1. /\ stack \in Seq(Frame) /\ recStack = NodesOf(stack)
      /\ OnPath(Imported, stack) /\ Apart(stack)
  BY DEF GraphInv, SearchInv
<1>2. PICK n \in Nat \ {0} : n = Len(stack)
  BY <1>1
<1>3. PICK k \in 1 .. n : m = stack[k].node
  BY <1>1, <1>2 DEF NodesOf
<1>4. PICK some : some = {stack[i].node : i \in k .. n}
  OBVIOUS
<1>5. \A i \in 1 .. n : stack[i].node \in GraphNode
  <2>1. \A i \in 1 .. n : stack[i] \in Frame
    BY <1>1, <1>2
  <2>2. QED
    BY <2>1 DEF Frame
<1>6. \A x \in GraphNode : \A y \in Imported[x] :
        <<x, "IMPORTS", y>> \in edges /\ x # y /\ x \in Graph!Files
  BY ImportedNodes DEF GraphInv
<1>7. ASSUME NEW i \in k .. n
      PROVE  stack[i].node \in Graph!Files /\ \E g \in some \ {stack[i].node} : <<stack[i].node, "IMPORTS", g>> \in edges
  <2>1. i \in 1 .. n /\ stack[i].node \in GraphNode
    BY <1>5
  <2>2. PICK j \in k .. n : stack[j].node \in Imported[stack[i].node]
    <3>1. CASE i = n
      <4>1. stack[n].left \subseteq Imported[stack[n].node]
        BY <1>1, <1>2 DEF OnPath
      <4>2. k \in k .. n
        OBVIOUS
      <4>3. stack[k].node \in Imported[stack[i].node]
        BY <1>2, <1>3, <3>1, <4>1
      <4>4. QED
        BY <4>2, <4>3
    <3>2. CASE i # n
      <4>1. i + 1 \in k .. n /\ i < n
        BY <3>2
      <4>2. stack[i + 1].node \in Imported[stack[i].node]
        BY <1>1, <1>2, <2>1, <4>1 DEF OnPath
      <4>3. QED
        BY <4>1, <4>2
    <3>3. QED
      BY <3>1, <3>2
  <2>3. stack[j].node \in some
    BY <1>4
  <2>4. QED
    BY <1>6, <2>1, <2>2, <2>3
<1>8. some \subseteq Graph!Files /\ some # {}
  BY <1>4, <1>7
<1>9. \A f \in some : \E g \in some \ {f} : <<f, "IMPORTS", g>> \in edges
  BY <1>4, <1>7
<1>10. QED
  BY <1>8, <1>9 DEF Circular

\* When all is done no files are in a circle: one of them has the lowest rank.
LEMMA NoCircleLeft ==
  ASSUME GraphInv, input # None, stack = <<>>, nodes \subseteq visited,
         NEW some \in SUBSET Graph!Files, Circular(some)
  PROVE  FALSE
<1>1. recStack = NodesOf(stack) /\ Ranked(Imported, visited \ recStack)
  BY DEF GraphInv, SearchInv
<1>2. recStack = {}
  BY <1>1 DEF NodesOf
<1>3. PICK done : done = visited \ recStack
  OBVIOUS
<1>4. some \subseteq done
  BY <1>2, <1>3 DEF GraphInv
<1>5. PICK k \in Nat : \E rank \in [done -> Nat] : \A x \in done :
        rank[x] < k /\ \A y \in Imported[x] : y \in done /\ rank[y] < rank[x]
  BY <1>1, <1>3, Zenon DEF Ranked
<1>6. PICK rank \in [done -> Nat] : \A x \in done :
        rank[x] < k /\ \A y \in Imported[x] : y \in done /\ rank[y] < rank[x]
  BY <1>5
<1>7. PICK S : S = {rank[x] : x \in some}
  OBVIOUS
<1>8. S \subseteq Nat /\ S # {}
  BY <1>4, <1>6, <1>7 DEF Circular
<1>9. PICK n \in S : \A i \in S : n <= i
  BY <1>8, SmallestOne
<1>10. PICK f \in some : n = rank[f]
  BY <1>7, <1>9
<1>11. PICK g \in some : <<f, "IMPORTS", g>> \in edges
  BY DEF Circular
<1>12. g \in Imported[f]
  <2>1. f \in GraphNode
    BY DEF GraphNode
  <2>2. PICK e \in edges : e = <<f, "IMPORTS", g>>
    BY <1>11
  <2>3. e[1] = f /\ e[2] = "IMPORTS" /\ e[3] = g
    BY <2>2
  <2>4. g \in Graph!Neighbours(f)
    BY <2>3 DEF Graph!Neighbours
  <2>5. QED
    BY <2>1, <2>4 DEF Imported
<1>13. rank[g] < rank[f] /\ rank[g] \in S
  BY <1>4, <1>6, <1>7, <1>12
<1>14. rank[g] \in Nat /\ n \in Nat /\ n <= rank[g]
  BY <1>8, <1>9, <1>13
<1>15. QED
  BY <1>10, <1>13, <1>14

LEMMA FirstFile == Graph!FileId(File[1]) \in Graph!Files
<1>1. 1 \in DOMAIN File
  BY GraphAssumption
<1>2. QED
  BY <1>1 DEF Graph!Files, Graph!ToSet

LEMMA GraphInit == Graph!Init => GraphInv
<1> SUFFICES ASSUME Graph!Init PROVE GraphInv
  OBVIOUS
<1>1. /\ input = None /\ nodes = {} /\ edges = {} /\ stack = <<>> /\ visited = {} /\ recStack = {}
      /\ hasCycles = None
  BY DEF Graph!Init
<1>2. EdgesJoin
  BY <1>1 DEF EdgesJoin
<1>3. None # TRUE /\ None # FALSE
  BY GraphAssumption
<1>4. Ranked(Imported, {})
  <2>1. PICK rank : rank = [x \in {} |-> 0]
    OBVIOUS
  <2>2. rank \in [{} -> Nat] /\ 0 \in Nat
    BY <2>1
  <2>3. QED
    BY <2>2 DEF Ranked
<1>5. SearchInv(Imported, stack, visited, recStack)
  <2>1. stack \in Seq(Frame) /\ Len(stack) = 0
    BY <1>1
  <2>2. OnPath(Imported, stack) /\ Apart(stack) /\ LookedAt(Imported, stack, visited \ recStack) /\ recStack = NodesOf(stack)
    BY <1>1, <2>1 DEF OnPath, Apart, LookedAt, NodesOf
  <2>3. visited \ recStack = {}
    BY <1>1
  <2>4. QED
    BY <1>1, <1>4, <2>1, <2>2, <2>3 DEF SearchInv
<1>6. QED
  BY <1>1, <1>2, <1>3, <1>5 DEF GraphInv

\* A graph that is built has no search in it yet.
LEMMA BuildGraphKeeps ==
  ASSUME GraphInv, NEW dependencies \in SUBSET Graph!Importable, NEW more \in BOOLEAN,
         Graph!BuildGraph(dependencies, IF more THEN Graph!Found ELSE {}, IF more THEN Graph!Suites ELSE {})
  PROVE  GraphInv'
<1>1. PICK definitions : definitions = IF more THEN Graph!Found ELSE {}
  OBVIOUS
<1>2. PICK tests : tests = IF more THEN Graph!Suites ELSE {}
  OBVIOUS
<1>3. /\ input = None
      /\ input' = [dependencies |-> dependencies, definitions |-> definitions, tests |-> tests]
      /\ nodes' = Graph!Files \cup {d[2] : d \in definitions} \cup {t[1] : t \in tests}
      /\ edges' = Graph!Imports(dependencies) \cup Graph!Defines(definitions) \cup Graph!Tests(tests)
      /\ UNCHANGED <<stack, visited, recStack, hasCycles>>
  BY <1>1, <1>2 DEF Graph!BuildGraph
<1>4. input' # None
  <2>1. definitions \in {{}, Graph!Found} /\ tests \in {{}, Graph!Suites}
    BY <1>1, <1>2
  <2>2. input' \in [dependencies : SUBSET Graph!Importable, definitions : {{}, Graph!Found}, tests : {{}, Graph!Suites}]
    BY <1>3, <2>1
  <2>3. QED
    BY <2>2, GraphAssumption
<1>5. \A d \in definitions : d = <<d[1], d[2]>> /\ d[1] \in Graph!Files /\ d[2] = <<"symbol", "S">>
  BY <1>1, FirstFile DEF Graph!Found
<1>6. \A t \in tests : t = <<t[1], t[2]>> /\ t[1] = <<"test", "suite">> /\ t[2] \in Graph!Files
  BY <1>2 DEF Graph!Suites
<1>7. nodes' \subseteq GraphNode /\ Graph!Files \subseteq nodes'
  BY <1>3, <1>5, <1>6 DEF GraphNode
<1>8. ASSUME NEW e \in edges'
      PROVE  /\ e = <<e[1], e[2], e[3]>> /\ e[1] \in nodes' /\ e[3] \in nodes' /\ e[1] # e[3]
             /\ e[2] = "IMPORTS" => e[1] \in Graph!Files /\ e[3] \in Graph!Files
  <2>1. CASE e \in Graph!Imports(dependencies)
    <3>1. PICK d \in dependencies : d[1] # Graph!Resolve(d[2]) /\ e = <<d[1], "IMPORTS", Graph!Resolve(d[2])>>
      BY <2>1 DEF Graph!Imports
    <3>2. e[1] = d[1] /\ e[2] = "IMPORTS" /\ e[3] = Graph!Resolve(d[2]) /\ e = <<e[1], e[2], e[3]>>
      BY <3>1
    <3>3. Graph!Resolve(d[2]) \in Graph!Files
      BY FirstFile DEF Graph!Resolve
    <3>4. d[1] \in Graph!Files
      <4>1. Graph!FileId(Graph!Last(File)) \in Graph!Files
        <5>1. Len(File) \in DOMAIN File
          BY GraphAssumption
        <5>2. QED
          BY <5>1 DEF Graph!Files, Graph!ToSet, Graph!Last
      <4>2. QED
        BY <4>1 DEF Graph!Importable
    <3>5. QED
      BY <1>7, <3>1, <3>2, <3>3, <3>4
  <2>2. CASE e \in Graph!Defines(definitions)
    <3>1. PICK d \in definitions : e = <<d[1], "DEFINES", d[2]>>
      BY <2>2 DEF Graph!Defines
    <3>2. e[1] = d[1] /\ e[2] = "DEFINES" /\ e[3] = d[2] /\ e = <<e[1], e[2], e[3]>>
      BY <3>1
    <3>3. d[2] \in nodes' /\ d[1] \in Graph!Files
      BY <1>3, <1>5
    <3>4. d[1] # d[2]
      <4>1. d[2] = <<"symbol", "S">>
        BY <1>5
      <4>2. PICK f : d[1] = <<"file", f>>
        BY <3>3 DEF Graph!Files, Graph!FileId
      <4>3. d[1][1] = "file" /\ d[2][1] = "symbol"
        BY <4>1, <4>2
      <4>4. QED
        BY <4>3
    <3>5. QED
      BY <1>7, <3>2, <3>3, <3>4
  <2>3. CASE e \in Graph!Tests(tests)
    <3>1. PICK t \in tests : e = <<t[1], "TESTS", t[2]>>
      BY <2>3 DEF Graph!Tests
    <3>2. e[1] = t[1] /\ e[2] = "TESTS" /\ e[3] = t[2] /\ e = <<e[1], e[2], e[3]>>
      BY <3>1
    <3>3. t[1] \in nodes' /\ t[2] \in Graph!Files
      BY <1>3, <1>6
    <3>4. t[1] # t[2]
      <4>1. t[1] = <<"test", "suite">>
        BY <1>6
      <4>2. PICK f : t[2] = <<"file", f>>
        BY <3>3 DEF Graph!Files, Graph!FileId
      <4>3. t[2][1] = "file" /\ t[1][1] = "test"
        BY <4>1, <4>2
      <4>4. QED
        BY <4>3
    <3>5. QED
      BY <1>7, <3>2, <3>3, <3>4
  <2>4. QED
    BY <1>3, <2>1, <2>2, <2>3
<1>9. EdgesJoin'
  BY <1>8 DEF EdgesJoin
<1>10. stack' = <<>> /\ visited' = {} /\ recStack' = {} /\ hasCycles' = None
  BY <1>3 DEF GraphInv
<1>11. None # TRUE /\ None # FALSE
  BY GraphAssumption
<1>12. SearchInv(Imported', stack', visited', recStack')
  <2>1. Ranked(Imported', {})
    <3>1. PICK rank : rank = [x \in {} |-> 0]
      OBVIOUS
    <3>2. rank \in [{} -> Nat] /\ 0 \in Nat
      BY <3>1
    <3>3. QED
      BY <3>2 DEF Ranked
  <2>2. stack' \in Seq(Frame) /\ Len(stack') = 0
    BY <1>10
  <2>3. /\ OnPath(Imported', stack') /\ Apart(stack') /\ LookedAt(Imported', stack', visited' \ recStack')
        /\ recStack' = NodesOf(stack')
    BY <1>10, <2>2 DEF OnPath, Apart, LookedAt, NodesOf
  <2>4. visited' \ recStack' = {}
    BY <1>10
  <2>5. QED
    BY <1>10, <2>1, <2>2, <2>3, <2>4 DEF SearchInv
<1>13. QED
  BY <1>4, <1>7, <1>9, <1>10, <1>11, <1>12 DEF GraphInv

\* The invariant by its parts.
LEMMA GraphInvParts ==
  ASSUME GraphInv
  PROVE  /\ Imported \in Importers /\ nodes \subseteq GraphNode /\ visited \subseteq nodes
         /\ SearchInv(Imported, stack, visited, recStack)
         /\ \A n \in GraphNode : Imported[n] = Graph!Neighbours(n)
BY ImportedNodes DEF GraphInv

\* Where the search goes on nothing but its own variables changes.
LEMMA SearchGoesOn ==
  ASSUME GraphInv, Graph!Searching, UNCHANGED <<input, nodes, edges, hasCycles>>,
         visited' \subseteq nodes, SearchInv(Imported, stack', visited', recStack')
  PROVE  GraphInv'
<1>1. input # None /\ hasCycles = None
  BY DEF Graph!Searching
<1>2. Imported' = Imported
  BY DEF Imported, Graph!Neighbours
<1>3. EdgesJoin' /\ nodes' \subseteq GraphNode /\ Graph!Files \subseteq nodes'
  BY <1>1 DEF GraphInv, EdgesJoin
<1>4. None # TRUE /\ None # FALSE
  BY GraphAssumption
<1>5. SearchInv(Imported', stack', visited', recStack')
  BY <1>2
<1>6. QED
  BY <1>1, <1>3, <1>4, <1>5 DEF GraphInv

\* The steps of the search: the next file,
LEMMA VisitNodeKeeps == ASSUME GraphInv, NEW n \in nodes, Graph!VisitNode(n) PROVE GraphInv'
<1>1. Graph!Searching /\ stack = <<>> /\ n \notin visited
  BY DEF Graph!VisitNode
<1>2. /\ visited' = visited \cup {n} /\ recStack' = recStack \cup {n}
      /\ stack' = Append(stack, [node |-> n, left |-> Graph!Neighbours(n)])
      /\ UNCHANGED <<input, nodes, edges, hasCycles>>
  BY DEF Graph!VisitNode, Graph!Call
<1>3. n \in GraphNode
  BY GraphInvParts
<1>4. stack' = Called(Imported, stack, n)
  BY <1>2, <1>3, GraphInvParts DEF Called
<1>5. SearchInv(Imported, stack', visited', recStack')
  BY <1>1, <1>2, <1>3, <1>4, GraphInvParts, CallKeeps
<1>6. visited' \subseteq nodes
  BY <1>2, GraphInvParts
<1>7. QED
  BY <1>1, <1>2, <1>5, <1>6, SearchGoesOn

\* a file that is imported,
LEMMA VisitNeighbourKeeps == ASSUME GraphInv, NEW m \in nodes, Graph!VisitNeighbour(m) PROVE GraphInv'
<1>1. Graph!Searching /\ stack # <<>> /\ m \in stack[Len(stack)].left
  BY DEF Graph!VisitNeighbour, Graph!Top
<1>2. CASE m \notin visited /\ Graph!Call(m, Graph!Rest(m))
  <2>1. /\ visited' = visited \cup {m} /\ recStack' = recStack \cup {m}
        /\ stack' = Append(Less(stack, m), [node |-> m, left |-> Graph!Neighbours(m)])
        /\ UNCHANGED <<input, nodes, edges, hasCycles>>
    BY <1>2 DEF Graph!Call, Graph!Rest, Less
  <2>2. m \in GraphNode
    BY GraphInvParts
  <2>3. stack' = Called(Imported, Less(stack, m), m)
    BY <2>1, <2>2, GraphInvParts DEF Called
  <2>4. SearchInv(Imported, stack', visited', recStack')
    <3>1. PICK rest : rest = Less(stack, m)
      OBVIOUS
    <3>2. Imported \in Importers /\ SearchInv(Imported, stack, visited, recStack)
      BY GraphInvParts
    <3>3. SearchInv(Imported, Called(Imported, rest, m), visited \cup {m}, recStack \cup {m})
      BY <1>1, <1>2, <2>2, <3>1, <3>2, CallKeeps
    <3>4. QED
      BY <2>1, <2>3, <3>1, <3>3
  <2>5. visited' \subseteq nodes
    BY <2>1, GraphInvParts
  <2>6. QED
    BY <1>1, <2>1, <2>4, <2>5, SearchGoesOn
<1>3. CASE m \in recStack /\ hasCycles' = TRUE /\ UNCHANGED <<input, nodes, edges, stack, visited, recStack>>
  <2>1. \E some \in SUBSET Graph!Files : Circular(some)
    BY <1>1, <1>3, CircleFound
  <2>2. \E some \in SUBSET Graph!Files : Circular(some)'
    BY <1>3, <2>1 DEF Circular
  <2>3. Imported' = Imported
    BY <1>3 DEF Imported, Graph!Neighbours
  <2>4. EdgesJoin'
    BY <1>3 DEF GraphInv, EdgesJoin
  <2>5. SearchInv(Imported', stack', visited', recStack')
    BY <1>3, <2>3, GraphInvParts
  <2>6. input' # None /\ hasCycles' # FALSE
    BY <1>1, <1>3 DEF Graph!Searching
  <2>7. QED
    BY <1>3, <2>2, <2>4, <2>5, <2>6 DEF GraphInv
<1>4. CASE /\ m \in visited \ recStack /\ stack' = Graph!Rest(m)
           /\ UNCHANGED <<input, nodes, edges, visited, recStack, hasCycles>>
  <2>1. stack' = Less(stack, m)
    BY <1>4 DEF Graph!Rest, Less
  <2>2. SearchInv(Imported, stack', visited', recStack')
    BY <1>1, <1>4, <2>1, GraphInvParts, SkipKeeps
  <2>3. visited' \subseteq nodes
    BY <1>4, GraphInvParts
  <2>4. QED
    BY <1>1, <1>4, <2>2, <2>3, SearchGoesOn
<1>5. QED
  BY <1>2, <1>3, <1>4 DEF Graph!VisitNeighbour

\* the way back,
LEMMA ReturnsKeep == ASSUME GraphInv, Graph!Return PROVE GraphInv'
<1>1. /\ Graph!Searching /\ stack # <<>> /\ stack[Len(stack)].left = {}
      /\ recStack' = recStack \ {stack[Len(stack)].node}
      /\ stack' = SubSeq(stack, 1, Len(stack) - 1)
      /\ UNCHANGED <<input, nodes, edges, visited, hasCycles>>
  BY DEF Graph!Return, Graph!Top, Graph!Returned, Graph!Front
<1>2. SearchInv(Imported, stack', visited', recStack')
  BY <1>1, GraphInvParts, ReturnKeeps
<1>3. visited' \subseteq nodes
  BY <1>1, GraphInvParts
<1>4. QED
  BY <1>1, <1>2, <1>3, SearchGoesOn

\* and the end.
LEMMA NoCycleKeeps == ASSUME GraphInv, Graph!NoCycle PROVE GraphInv'
<1>1. /\ Graph!Searching /\ stack = <<>> /\ nodes \subseteq visited /\ hasCycles' = FALSE
      /\ UNCHANGED <<input, nodes, edges, stack, visited, recStack>>
  BY DEF Graph!NoCycle
<1>2. input # None
  BY <1>1 DEF Graph!Searching
<1>3. \A some \in SUBSET Graph!Files : ~Circular(some)
  BY <1>1, <1>2, NoCircleLeft
<1>4. \A some \in SUBSET Graph!Files : ~Circular(some)'
  BY <1>1, <1>3 DEF Circular
<1>5. Imported' = Imported
  BY <1>1 DEF Imported, Graph!Neighbours
<1>6. EdgesJoin'
  BY <1>1 DEF GraphInv, EdgesJoin
<1>7. SearchInv(Imported', stack', visited', recStack')
  BY <1>1, <1>5, GraphInvParts
<1>8. QED
  BY <1>1, <1>2, <1>4, <1>6, <1>7 DEF GraphInv

LEMMA GraphStep == GraphInv /\ [Next]_vars => GraphInv'
<1> SUFFICES ASSUME GraphInv, [Next]_vars PROVE GraphInv'
  OBVIOUS
<1>1. Graph!Next \/ UNCHANGED graphVars
  BY DEF Next, vars
<1>2. CASE UNCHANGED graphVars
  <2>1. UNCHANGED <<input, nodes, edges, stack, visited, recStack, hasCycles>>
    BY <1>2 DEF graphVars
  <2>2. Imported' = Imported
    BY <2>1 DEF Imported, Graph!Neighbours
  <2>3. EdgesJoin'
    BY <2>1 DEF GraphInv, EdgesJoin
  <2>4. \A some \in SUBSET Graph!Files : Circular(some)' <=> Circular(some)
    BY <2>1 DEF Circular
  <2>5. SearchInv(Imported', stack', visited', recStack')
    BY <2>1, <2>2, GraphInvParts
  <2>6. QED
    BY <2>1, <2>3, <2>4, <2>5 DEF GraphInv
<1>3. CASE Graph!Next
  BY <1>3, BuildGraphKeeps, VisitNodeKeeps, VisitNeighbourKeeps, ReturnsKeep, NoCycleKeeps DEF Graph!Next
<1>4. QED
  BY <1>1, <1>2, <1>3

LEMMA GraphPromises == GraphInv => Graph!TypeOK /\ Graph!CycleVerdict
<1> SUFFICES ASSUME GraphInv PROVE Graph!TypeOK /\ Graph!CycleVerdict
  OBVIOUS
<1>1. Graph!TypeOK
  <2>1. recStack = NodesOf(stack) /\ stack \in Seq(Frame)
    BY DEF GraphInv, SearchInv
  <2>2. recStack = {stack[i].node : i \in DOMAIN stack}
    BY <2>1 DEF NodesOf
  <2>3. \A e \in edges : e[1] \in nodes /\ e[3] \in nodes /\ e[1] # e[3]
    BY DEF GraphInv, EdgesJoin
  <2>4. QED
    BY <2>2, <2>3 DEF GraphInv, GraphNode, Graph!TypeOK
<1>2. Graph!CycleVerdict
  <2>1. CASE hasCycles = None
    BY <2>1 DEF Graph!CycleVerdict
  <2>2. CASE hasCycles = TRUE
    BY <2>2 DEF Graph!CycleVerdict, GraphInv, Circular
  <2>3. CASE hasCycles = FALSE
    BY <2>3 DEF Graph!CycleVerdict, GraphInv, Circular
  <2>4. QED
    BY <2>1, <2>2, <2>3 DEF GraphInv
<1>3. QED
  BY <1>1, <1>2

-----------------------------------------------------------------------------
(***************************************************************************)
(* Test studio                                                             *)
(***************************************************************************)
StudioTyped ==
  /\ suites \in [Suite -> Studio!TestSuite \cup {None}]
  /\ running \in [Runner -> Suite \cup {None}]
  /\ \A r \in Runner : running[r] # None => suites[running[r]] # None

\* What CountsMatchCases says of one suite.
Counted(suite) ==
  /\ suite.passed = Cardinality(Studio!With(suite.status, "PASS"))
  /\ suite.failed = Cardinality(Studio!With(suite.status, "FAIL"))
  /\ suite.suggested = Studio!With(suite.status, "FAIL") /\ suite.suggested \subseteq suite.buggy
  /\ suite.overall = IF suite.failed > 0 THEN "FAIL" ELSE IF suite.passed > 0 THEN "PASS" ELSE "UNTESTED"

StudioInv == StudioTyped /\ \A s \in Suite : suites[s] # None => Counted(suites[s])

LEMMA StudioNone == None \notin Suite /\ None \notin Studio!TestSuite
BY StudioAssumption

LEMMA SameStudioCardinality == \A S : Studio!Cardinality(S) = Cardinality(S)
BY DEF Studio!Cardinality, Cardinality

LEMMA CasesCount ==
  ASSUME NEW S \in SUBSET Case
  PROVE  Cardinality(S) \in Nat /\ (Cardinality(S) > 0 <=> S # {})
<1>1. IsFiniteSet(S)
  BY StudioAssumption, FS_Subset
<1>2. Cardinality(S) \in Nat
  BY <1>1, FS_CardinalityType
<1>3. Cardinality(S) = 0 <=> S = {}
  BY <1>1, FS_EmptySet
<1>4. QED
  BY <1>2, <1>3

\* The cases of a status, and the verdict on them: PASS is said of cases one
\* of which has passed.
LEMMA VerdictCounts ==
  ASSUME NEW cases \in [Case -> Studio!Status],
         Studio!With(cases, "FAIL") = {} => Studio!With(cases, "PASS") # {}
  PROVE  /\ Studio!With(cases, "PASS") \in SUBSET Case /\ Studio!With(cases, "FAIL") \in SUBSET Case
         /\ Cardinality(Studio!With(cases, "PASS")) \in Nat /\ Cardinality(Studio!With(cases, "FAIL")) \in Nat
         /\ Studio!Overall(cases) \in {"PASS", "FAIL"}
         /\ Studio!Overall(cases) = IF Cardinality(Studio!With(cases, "FAIL")) > 0 THEN "FAIL"
                                    ELSE IF Cardinality(Studio!With(cases, "PASS")) > 0 THEN "PASS" ELSE "UNTESTED"
<1>1. Studio!With(cases, "PASS") \in SUBSET Case /\ Studio!With(cases, "FAIL") \in SUBSET Case
  BY DEF Studio!With
<1>2. QED
  BY <1>1, CasesCount DEF Studio!Overall

\* A suite whose cases, counts, verdict and suggestions are written together.
LEMMA Recounted ==
  ASSUME NEW old \in Studio!TestSuite, NEW cases \in [Case -> Studio!Status],
         Studio!With(cases, "FAIL") = {} => Studio!With(cases, "PASS") # {},
         Studio!With(cases, "FAIL") \subseteq old.buggy,
         NEW new \in Studio!TestSuite, new.buggy = old.buggy, new.status = cases,
         new.overall = Studio!Overall(cases), new.suggested = Studio!With(cases, "FAIL"),
         new.passed = Cardinality(Studio!With(cases, "PASS")),
         new.failed = Cardinality(Studio!With(cases, "FAIL"))
  PROVE  Counted(new)
BY VerdictCounts DEF Counted

LEMMA SandboxCounts ==
  ASSUME NEW old \in Studio!TestSuite
  PROVE  Studio!SandboxResult(old) \in Studio!TestSuite /\ Counted(Studio!SandboxResult(old))
<1>1. PICK cases : cases = [c \in Case |-> IF c \in old.buggy THEN "FAIL" ELSE "PASS"]
  OBVIOUS
<1>2. cases \in [Case -> Studio!Status] /\ \A c \in Case : cases[c] = IF c \in old.buggy THEN "FAIL" ELSE "PASS"
  BY <1>1 DEF Studio!Status
<1>3. PICK pass, fail : pass = Studio!With(cases, "PASS") /\ fail = Studio!With(cases, "FAIL")
  OBVIOUS
<1>4. (fail = {} => pass # {}) /\ fail \subseteq old.buggy
  BY <1>2, <1>3, StudioAssumption DEF Studio!With
<1>5. PICK p, f, overall : p = Cardinality(pass) /\ f = Cardinality(fail) /\ overall = Studio!Overall(cases)
  OBVIOUS
<1>6. pass \in SUBSET Case /\ fail \in SUBSET Case /\ p \in Nat /\ f \in Nat /\ overall \in Studio!Status
  BY <1>2, <1>3, <1>4, <1>5, VerdictCounts DEF Studio!Status
<1>7. PICK new : new = [old EXCEPT !.status = cases, !.overall = overall, !.passed = p, !.failed = f,
                                   !.suggested = fail]
  OBVIOUS
<1>8. new = Studio!SandboxResult(old)
  BY <1>1, <1>3, <1>5, <1>7, SameStudioCardinality DEF Studio!SandboxResult
<1>9. /\ new \in Studio!TestSuite /\ new.buggy = old.buggy /\ new.status = cases /\ new.overall = overall
      /\ new.passed = p /\ new.failed = f /\ new.suggested = fail
  BY <1>2, <1>6, <1>7 DEF Studio!TestSuite
<1>10. Counted(new)
  BY <1>2, <1>3, <1>4, <1>5, <1>9, Recounted
<1>11. QED
  BY <1>8, <1>9, <1>10

LEMMA FixCounts ==
  ASSUME NEW old \in Studio!TestSuite, Counted(old), NEW case \in Case, NEW target \in {"code", "test"}
  PROVE  Studio!Fixed(old, case, target) \in Studio!TestSuite /\ Counted(Studio!Fixed(old, case, target))
<1>1. PICK cases : cases = [old.status EXCEPT ![case] = "PASS"]
  OBVIOUS
<1>2. old.status \in [Case -> Studio!Status] /\ old.suggested = Studio!With(old.status, "FAIL")
      /\ old.suggested \subseteq old.buggy /\ old.buggy \in SUBSET Case
  BY DEF Studio!TestSuite, Counted
<1>3. cases \in [Case -> Studio!Status] /\ \A c \in Case : cases[c] = IF c = case THEN "PASS" ELSE old.status[c]
  BY <1>1, <1>2 DEF Studio!Status
<1>4. PICK pass, fail : pass = Studio!With(cases, "PASS") /\ fail = Studio!With(cases, "FAIL")
  OBVIOUS
<1>5. pass # {} /\ fail = old.suggested \ {case}
  BY <1>2, <1>3, <1>4 DEF Studio!With
<1>6. PICK p, f, overall : p = Cardinality(pass) /\ f = Cardinality(fail) /\ overall = Studio!Overall(cases)
  OBVIOUS
<1>7. pass \in SUBSET Case /\ fail \in SUBSET Case /\ p \in Nat /\ f \in Nat /\ overall \in Studio!Status
  BY <1>3, <1>4, <1>5, <1>6, VerdictCounts DEF Studio!Status
<1>8. PICK new : new = [old EXCEPT !.status = cases, !.overall = overall, !.passed = p, !.failed = f,
                                   !.suggested = fail, !.patched = old.patched \cup {target}]
  OBVIOUS
<1>9. new = Studio!Fixed(old, case, target)
  BY <1>1, <1>4, <1>5, <1>6, <1>8, SameStudioCardinality DEF Studio!Fixed
<1>10. /\ new \in Studio!TestSuite /\ new.buggy = old.buggy /\ new.status = cases /\ new.overall = overall
       /\ new.passed = p /\ new.failed = f /\ new.suggested = fail
  BY <1>3, <1>7, <1>8 DEF Studio!TestSuite
<1>11. Counted(new)
  BY <1>2, <1>3, <1>4, <1>5, <1>6, <1>10, Recounted
<1>12. QED
  BY <1>9, <1>10, <1>11

\* A suite as it is generated: nothing was run.
LEMMA GeneratedCounts ==
  ASSUME NEW buggy \in SUBSET Case, NEW safe \in BOOLEAN
  PROVE  Studio!Generated(buggy, safe) \in Studio!TestSuite /\ Counted(Studio!Generated(buggy, safe))
<1>1. PICK new, cases : new = Studio!Generated(buggy, safe) /\ cases = [c \in Case |-> "UNTESTED"]
  OBVIOUS
<1>2. /\ new.status = cases /\ new.passed = 0 /\ new.failed = 0 /\ new.suggested = {}
      /\ new.overall = "UNTESTED" /\ new.buggy = buggy /\ new \in Studio!TestSuite
  BY <1>1 DEF Studio!Generated, Studio!TestSuite, Studio!Status
<1>3. Studio!With(cases, "PASS") = {} /\ Studio!With(cases, "FAIL") = {}
  BY <1>1 DEF Studio!With
<1>4. Cardinality({}) = 0
  BY FS_EmptySet
<1>5. Counted(new)
  BY <1>2, <1>3, <1>4 DEF Counted
<1>6. QED
  BY <1>1, <1>2, <1>5

LEMMA StudioInit == Studio!Init => StudioInv
BY DEF Studio!Init, StudioInv, StudioTyped

\* A suite is stored.
LEMMA SuiteStored ==
  ASSUME StudioInv, NEW s \in Suite, NEW new \in Studio!TestSuite, Counted(new),
         suites' = [suites EXCEPT ![s] = new],
         running' \in [Runner -> Suite \cup {None}],
         \A r \in Runner : running'[r] = running[r] \/ running'[r] = None
  PROVE  StudioInv'
<1>1. /\ suites' \in [Suite -> Studio!TestSuite \cup {None}]
      /\ \A z \in Suite : suites'[z] = IF z = s THEN new ELSE suites[z]
  BY DEF StudioInv, StudioTyped
<1>2. new # None
  BY StudioNone
<1>3. \A r \in Runner : running'[r] # None => suites'[running'[r]] # None
  BY <1>1, <1>2 DEF StudioInv, StudioTyped
<1>4. \A z \in Suite : suites'[z] # None => Counted(suites'[z])
  BY <1>1 DEF StudioInv
<1>5. QED
  BY <1>1, <1>3, <1>4 DEF StudioInv, StudioTyped, Counted

LEMMA GenerateKeeps ==
  ASSUME StudioInv, NEW s \in Suite, NEW buggy \in SUBSET Case, NEW safe \in BOOLEAN, NEW autoRun \in BOOLEAN,
         Studio!GenerateTests(s, buggy, safe, autoRun)
  PROVE  StudioInv'
<1>1. suites[s] = None /\ UNCHANGED running /\ running' \in [Runner -> Suite \cup {None}]
  BY DEF Studio!GenerateTests, StudioInv, StudioTyped
<1>2. PICK first : first = Studio!Generated(buggy, safe) /\ first \in Studio!TestSuite /\ Counted(first)
  BY GeneratedCounts
<1>3. PICK ran : ran = Studio!SandboxResult(first) /\ ran \in Studio!TestSuite /\ Counted(ran)
  BY <1>2, SandboxCounts
<1>4. \/ suites' = [suites EXCEPT ![s] = first] \/ suites' = [suites EXCEPT ![s] = ran]
      \/ suites' = [suites EXCEPT ![s] = None]
  BY <1>2, <1>3 DEF Studio!GenerateTests
<1>5. CASE suites' = [suites EXCEPT ![s] = None]
  <2>1. suites' = suites
    BY <1>1, <1>5 DEF StudioInv, StudioTyped
  <2>2. QED
    BY <1>1, <2>1 DEF StudioInv, StudioTyped, Counted
<1>6. QED
  BY <1>1, <1>2, <1>3, <1>4, <1>5, SuiteStored

LEMMA StoreKeeps ==
  ASSUME StudioInv, NEW r \in Runner, Studio!StoreRunResult(r)
  PROVE  StudioInv'
<1>1. PICK s \in Suite : s = running[r] /\ suites[s] # None
  BY DEF Studio!StoreRunResult, StudioInv, StudioTyped
<1>2. suites[s] \in Studio!TestSuite
  BY <1>1 DEF StudioInv, StudioTyped
<1>3. PICK new : new = Studio!SandboxResult(suites[s]) /\ new \in Studio!TestSuite /\ Counted(new)
  BY <1>2, SandboxCounts
<1>4. suites' = [suites EXCEPT ![s] = new] /\ running' = [running EXCEPT ![r] = None]
  BY <1>1, <1>3 DEF Studio!StoreRunResult
<1>5. /\ running' \in [Runner -> Suite \cup {None}]
      /\ \A q \in Runner : running'[q] = running[q] \/ running'[q] = None
  BY <1>4 DEF StudioInv, StudioTyped
<1>6. QED
  BY <1>3, <1>4, <1>5, SuiteStored

LEMMA FixKeeps ==
  ASSUME StudioInv, NEW s \in Suite, NEW case \in Case, NEW target \in {"code", "test"},
         Studio!ApplyTestFix(s, case, target)
  PROVE  StudioInv'
<1>1. suites[s] # None /\ UNCHANGED running /\ running' \in [Runner -> Suite \cup {None}]
  BY DEF Studio!ApplyTestFix, StudioInv, StudioTyped
<1>2. suites[s] \in Studio!TestSuite /\ Counted(suites[s])
  BY <1>1 DEF StudioInv, StudioTyped
<1>3. PICK new : new = Studio!Fixed(suites[s], case, target) /\ new \in Studio!TestSuite /\ Counted(new)
  BY <1>2, FixCounts
<1>4. suites' = [suites EXCEPT ![s] = new]
  BY <1>3 DEF Studio!ApplyTestFix
<1>5. QED
  BY <1>1, <1>3, <1>4, SuiteStored

LEMMA RunKeeps ==
  ASSUME StudioInv, NEW r \in Runner, NEW s \in Suite, Studio!RunGeneratedTests(r, s)
  PROVE  StudioInv'
<1>1. suites[s] # None /\ running' = [running EXCEPT ![r] = s] /\ UNCHANGED suites
  BY DEF Studio!RunGeneratedTests
<1>2. /\ running' \in [Runner -> Suite \cup {None}]
      /\ \A q \in Runner : running'[q] = IF q = r THEN s ELSE running[q]
  BY <1>1 DEF StudioInv, StudioTyped
<1>3. QED
  BY <1>1, <1>2 DEF StudioInv, StudioTyped, Counted

LEMMA StudioStep == StudioInv /\ [Next]_vars => StudioInv'
<1> SUFFICES ASSUME StudioInv, [Next]_vars PROVE StudioInv'
  OBVIOUS
<1>1. Studio!Next \/ UNCHANGED studioVars
  BY DEF Next, vars
<1>2. CASE UNCHANGED studioVars
  BY <1>2 DEF studioVars, StudioInv, StudioTyped, Counted
<1>3. CASE Studio!Next
  BY <1>3, GenerateKeeps, RunKeeps, StoreKeeps, FixKeeps DEF Studio!Next
<1>4. QED
  BY <1>1, <1>2, <1>3

\* However the runs and the fixes of a suite overlap, the counts, the verdict
\* and the suggested fixes that are stored with it are those of its cases.
THEOREM CountsAreThoseOfTheCases == Spec => []CountsMatchCases
<1>1. Init => StudioInv
  BY StudioInit DEF Init
<1>2. StudioInv => CountsMatchCases
  <2> SUFFICES ASSUME StudioInv, NEW s \in Suite, suites[s] # None
               PROVE  LET suite == suites[s] IN
                      /\ suite.passed = Studio!Cardinality(Studio!With(suite.status, "PASS"))
                      /\ suite.failed = Studio!Cardinality(Studio!With(suite.status, "FAIL"))
                      /\ suite.suggested = Studio!With(suite.status, "FAIL") /\ suite.suggested \subseteq suite.buggy
                      /\ suite.overall = IF suite.failed > 0 THEN "FAIL"
                                         ELSE IF suite.passed > 0 THEN "PASS" ELSE "UNTESTED"
    BY DEF CountsMatchCases, Studio!CountsMatchCases
  <2>1. QED
    BY SameStudioCardinality DEF StudioInv, Counted
<1>3. QED
  BY <1>1, <1>2, StudioStep, PTL DEF Spec

-----------------------------------------------------------------------------
(***************************************************************************)
(* Executions of jobs                                                      *)
(***************************************************************************)
\* The milestones of a worker: percents, one hundred not among them.
Percents == {<<25, 60, 90>>, <<30, 70, 90>>, <<35, 75, 95>>, <<35, 80, 95>>, <<30, 75, 95>>}

\* What an execution of an embedding job has embedded: as much as its batches
\* so far, no more than there is.
Embedded ==
  /\ payload.milestones = <<>> /\ payload.batchSize \in Int /\ payload.totalChunks \in Int
  /\ embeddedCount \in Int
  /\ phase # "queued" => payload.batchSize # 0
  /\ phase \in {"timer", "callback"} => payload.totalChunks > 0
  /\ payload.totalChunks > 0 =>
       /\ embeddedCount <= payload.totalChunks
       /\ payload.batchSize > 0 => \/ embeddedCount = payload.totalChunks
                                   \/ embeddedCount = round * payload.batchSize
       /\ phase \in {"returned", "COMPLETED"} => embeddedCount = payload.totalChunks

\* What another one has reached.
Reached ==
  /\ payload.milestones \in Percents
  /\ phase = "timer" => round < 3
  /\ phase \in {"returned", "COMPLETED"} => round = 3
  /\ round <= 3 /\ embeddedCount = 0

\* One hundred is the progress of a completed execution only; the cache is ahead
\* of the callback within a report alone.
ExecutorsInv ==
  /\ phase \in {"queued", "timer", "callback", "returned", "COMPLETED", "CANCELLED"}
  /\ round \in 0 .. MaxRounds /\ jobAborted \in BOOLEAN
  /\ cached \in 0 .. 100 /\ stored \in 0 .. 100
  /\ stored # cached => phase = "callback"
  /\ stored = 100 <=> phase = "COMPLETED"
  /\ cached = 100 <=> phase = "COMPLETED"
  /\ phase = "queued" => round = 0 /\ embeddedCount = 0
  /\ phase = "COMPLETED" => ~jobAborted
  /\ Embedded \/ Reached

\* Progress of the milestones is below one hundred.
LEMMA PercentsDone ==
  ASSUME NEW ms \in Percents
  PROVE  ms # <<>> /\ Len(ms) = 3 /\ \A i \in 1 .. 3 : ms[i] \in 0 .. 99
<1>1. CASE ms = <<25, 60, 90>>
  BY <1>1
<1>2. CASE ms = <<30, 70, 90>>
  BY <1>2
<1>3. CASE ms = <<35, 75, 95>>
  BY <1>3
<1>4. CASE ms = <<35, 80, 95>>
  BY <1>4
<1>5. CASE ms = <<30, 75, 95>>
  BY <1>5
<1>6. QED
  BY <1>1, <1>2, <1>3, <1>4, <1>5 DEF Percents

\* Ninety of a hundred, when everything is embedded.
LEMMA PercentBound ==
  ASSUME NEW embedded \in Int, NEW total \in Nat, 0 < total, embedded <= total
  PROVE  Exec!Percent(embedded, total) \in 0 .. 99
<1>1. CASE embedded <= 0
  BY <1>1 DEF Exec!Percent
<1>2. CASE embedded > 0
  <2>1. PICK m \in Nat, n \in Nat : m = 2 * 90 * embedded + total /\ n = 2 * total /\ 0 < n
    BY <1>2
  <2>2. m < 91 * n
    BY <1>2, <2>1
  <2>3. PICK q \in Int : q = m \div n
    BY <2>1
  <2>4. 0 <= q /\ q < 91
    BY <2>1, <2>2, <2>3
  <2>5. Exec!Percent(embedded, total) = q
    BY <1>2, <2>1, <2>3 DEF Exec!Percent
  <2>6. QED
    BY <2>4, <2>5
<1>3. QED
  BY <1>1, <1>2

LEMMA ExecutorsInit == Exec!Init => ExecutorsInv
<1> SUFFICES ASSUME Exec!Init PROVE ExecutorsInv
  OBVIOUS
<1>1. /\ payload = [milestones |-> <<>>, batchSize |-> 1, totalChunks |-> 0] /\ phase = "queued" /\ round = 0
      /\ embeddedCount = 0 /\ cached = 0 /\ stored = 0 /\ jobAborted = FALSE
  BY DEF Exec!Init, Exec!Job
<1>2. payload.milestones = <<>> /\ payload.batchSize = 1 /\ payload.totalChunks = 0
  BY <1>1
<1>3. Embedded
  BY <1>1, <1>2 DEF Embedded
<1>4. round \in 0 .. MaxRounds /\ cached \in 0 .. 100 /\ stored \in 0 .. 100 /\ cached # 100 /\ stored # 100
  BY <1>1, ExecutorsAssumption
<1>5. phase # "COMPLETED" /\ phase # "callback" /\ jobAborted \in BOOLEAN /\ stored = cached
  BY <1>1
<1>6. QED
  BY <1>1, <1>3, <1>4, <1>5, Zenon DEF ExecutorsInv

\* An execution begins.
LEMMA WorkerExecutes ==
  ASSUME ExecutorsInv, NEW ms \in Exec!Milestones, Exec!Execute(Exec!Job(ms, 0, 0))
  PROVE  ExecutorsInv'
<1>1. ms \in Percents /\ ms # <<>>
  BY PercentsDone DEF Exec!Milestones, Percents, Exec!IndexMilestones, Exec!AnalysisMilestones,
     Exec!DocumentationMilestones, Exec!ReviewMilestones, Exec!TestMilestones
<1>2. PICK p : p = Exec!Job(ms, 0, 0) /\ p.milestones = ms
  BY DEF Exec!Job
<1>3. /\ phase = "queued" /\ payload' = p /\ cached' = 5 /\ stored' = 5 /\ phase' = "timer"
      /\ UNCHANGED <<round, embeddedCount, jobAborted>>
  BY <1>1, <1>2 DEF Exec!Execute, Exec!Embeds
<1>4. round = 0 /\ embeddedCount = 0
  BY <1>3 DEF ExecutorsInv
<1>5. Reached'
  BY <1>1, <1>2, <1>3, <1>4 DEF Reached
<1>6. QED
  BY <1>3, <1>4, <1>5 DEF ExecutorsInv

\* An execution of a job that embeds starts with nothing embedded.
LEMMA EmbeddingExecutes ==
  ASSUME ExecutorsInv, NEW b \in BatchSize, NEW t \in TotalChunks, Exec!Execute(Exec!EmbeddingJob(b, t))
  PROVE  ExecutorsInv'
<1>1. b \in Int /\ t \in Int
  BY ExecutorsAssumption
<1>2. PICK batch, total \in Int : batch = (IF b = 0 THEN 20 ELSE b) /\ total = (IF t = 0 THEN 80 ELSE t) /\ batch # 0
  BY <1>1
<1>3. PICK p : p = [milestones |-> <<>>, batchSize |-> batch, totalChunks |-> total]
  OBVIOUS
<1>4. p.milestones = <<>> /\ p.batchSize = batch /\ p.totalChunks = total
  BY <1>3
<1>5. p = Exec!EmbeddingJob(b, t)
  BY <1>2, <1>3, Zenon DEF Exec!EmbeddingJob, Exec!Job
<1>6. /\ phase = "queued" /\ payload' = p /\ cached' = 5 /\ stored' = 5
      /\ phase' = IF total <= 0 THEN "returned" ELSE "timer"
      /\ UNCHANGED <<round, embeddedCount, jobAborted>>
  BY <1>4, <1>5 DEF Exec!Execute, Exec!Embeds
<1>7. round = 0 /\ embeddedCount = 0
  BY <1>6 DEF ExecutorsInv
<1>8. Embedded'
  BY <1>2, <1>4, <1>6, <1>7 DEF Embedded
<1>9. QED
  BY <1>6, <1>7, <1>8 DEF ExecutorsInv

\* An abort, a throw and a settlement change neither what is embedded nor
\* what is reached.
LEMMA AbortKeeps == ASSUME ExecutorsInv, Exec!Abort PROVE ExecutorsInv'
<1>1. /\ phase \notin {"COMPLETED", "CANCELLED", "queued"} /\ jobAborted' = TRUE
      /\ UNCHANGED <<payload, phase, round, embeddedCount, cached, stored>>
  BY DEF Exec!Abort, Exec!Ended
<1>2. (Embedded \/ Reached) => (Embedded \/ Reached)'
  BY <1>1 DEF Embedded, Reached
<1>3. QED
  BY <1>1, <1>2 DEF ExecutorsInv

\* An executor that throws.
LEMMA ThrowKeeps == ASSUME ExecutorsInv, Exec!Throw PROVE ExecutorsInv'
<1>1. /\ phase = "timer" /\ phase' = "CANCELLED"
      /\ UNCHANGED <<payload, round, embeddedCount, cached, stored, jobAborted>>
  BY DEF Exec!Throw
<1>2. (Embedded \/ Reached) => (Embedded \/ Reached)'
  BY <1>1 DEF Embedded, Reached
<1>3. QED
  BY <1>1, <1>2 DEF ExecutorsInv

\* A promise that settles.
LEMMA SettleKeeps == ASSUME ExecutorsInv, Exec!Settle PROVE ExecutorsInv'
<1>1. phase = "returned" /\ UNCHANGED <<payload, round, embeddedCount, jobAborted>>
  BY DEF Exec!Settle
<1>2. CASE jobAborted
  <2>1. phase' = "CANCELLED" /\ UNCHANGED <<cached, stored>>
    BY <1>2 DEF Exec!Settle
  <2>2. (Embedded \/ Reached) => (Embedded \/ Reached)'
    BY <1>1, <2>1 DEF Embedded, Reached
  <2>3. QED
    BY <1>1, <2>1, <2>2 DEF ExecutorsInv
<1>3. CASE ~jobAborted
  <2>1. phase' = "COMPLETED" /\ cached' = 100 /\ stored' = 100
    BY <1>3 DEF Exec!Settle
  <2>2. (Embedded \/ Reached) => (Embedded \/ Reached)'
    BY <1>1, <2>1 DEF Embedded, Reached
  <2>3. QED
    BY <1>1, <1>3, <2>1, <2>2 DEF ExecutorsInv
<1>4. QED
  BY <1>2, <1>3

\* A report reaches the callback, and the execution goes on or returns.
LEMMA UpdateKeeps == ASSUME ExecutorsInv, Exec!UpdateJobState PROVE ExecutorsInv'
<1>1. /\ phase = "callback" /\ stored' = cached /\ phase' \in {"timer", "returned"}
      /\ phase' = "timer" <=> Exec!GoesOn
      /\ UNCHANGED <<payload, round, embeddedCount, cached, jobAborted>>
  BY DEF Exec!UpdateJobState
<1>2. round \in Nat
  BY DEF ExecutorsInv
<1>3. ASSUME Embedded PROVE Embedded'
  <2>1. PICK b, t, e, r \in Int : /\ b = payload.batchSize /\ t = payload.totalChunks /\ e = embeddedCount
                                  /\ r = round /\ 0 <= r
    BY <1>2, <1>3 DEF Embedded
  <2>2. /\ payload.milestones = <<>> /\ b # 0 /\ t > 0 /\ e <= t
        /\ b > 0 => e = t \/ e = r * b
    BY <1>1, <1>3, <2>1 DEF Embedded
  <2>3. phase' = "timer" <=> r * b < t
    BY <1>1, <2>1, <2>2 DEF Exec!GoesOn, Exec!Embeds
  <2>4. ASSUME phase' = "returned" PROVE e = t
    <3>1. ~(r * b < t)
      BY <2>3, <2>4
    <3>2. b > 0
      <4>1. b < 0 => r * b <= 0
        BY <2>1
      <4>2. QED
        BY <2>1, <2>2, <3>1, <4>1
    <3>3. QED
      BY <2>1, <2>2, <3>1, <3>2
  <2>5. QED
    BY <1>1, <2>1, <2>2, <2>4 DEF Embedded
<1>4. ASSUME Reached PROVE Reached'
  <2>1. payload.milestones # <<>> /\ Len(payload.milestones) = 3 /\ round <= 3
    BY <1>4, PercentsDone DEF Reached
  <2>2. phase' = "timer" <=> round < 3
    BY <1>1, <2>1 DEF Exec!GoesOn, Exec!Embeds
  <2>3. QED
    BY <1>1, <1>2, <1>4, <2>1, <2>2 DEF Reached
<1>5. cached \in 0 .. 100 /\ cached # 100
  BY <1>1 DEF ExecutorsInv
<1>6. QED
  BY <1>1, <1>3, <1>4, <1>5 DEF ExecutorsInv

\* A timer ends.
LEMMA MilestoneKeeps == ASSUME ExecutorsInv, Exec!Milestone PROVE ExecutorsInv'
<1>1. /\ phase = "timer" /\ phase' = "callback" /\ round < MaxRounds /\ round' = round + 1
      /\ UNCHANGED <<payload, stored, jobAborted>>
  BY DEF Exec!Milestone
<1>2. round \in Nat /\ round' \in 0 .. MaxRounds
  BY <1>1, ExecutorsAssumption DEF ExecutorsInv
<1>3. ASSUME Embedded PROVE Embedded' /\ cached' \in 0 .. 99
  <2>1. PICK b, t, e, r \in Int : /\ b = payload.batchSize /\ t = payload.totalChunks /\ e = embeddedCount
                                  /\ r = round /\ 0 <= r
    BY <1>2, <1>3 DEF Embedded
  <2>2. /\ payload.milestones = <<>> /\ b # 0 /\ t > 0 /\ e <= t
        /\ b > 0 => e = t \/ e = r * b
    BY <1>1, <1>3, <2>1 DEF Embedded
  <2>3. PICK f \in Int : f = Exec!LesserOf(t, e + b)
    BY DEF Exec!LesserOf
  <2>4. f <= t /\ (b > 0 => f = t \/ f = (r + 1) * b)
    <3>1. f <= t
      BY <2>3 DEF Exec!LesserOf
    <3>2. b > 0 /\ e = t => f = t
      BY <2>3 DEF Exec!LesserOf
    <3>3. (r + 1) * b = r * b + b
      OBVIOUS
    <3>4. e = r * b => f = t \/ f = (r + 1) * b
      BY <2>3, <3>3 DEF Exec!LesserOf
    <3>5. QED
      BY <2>2, <3>1, <3>2, <3>4
  <2>5. embeddedCount' = f
    BY <2>1, <2>2, <2>3 DEF Exec!Milestone, Exec!Embeds
  <2>6. cached' = Exec!Percent(f, t)
    BY <2>1, <2>2, <2>5 DEF Exec!Milestone, Exec!Embeds
  <2>7. cached' \in 0 .. 99
    <3>1. t \in Nat
      BY <2>2
    <3>2. QED
      BY <2>2, <2>4, <2>6, <3>1, PercentBound
  <2>8. Embedded'
    BY <1>1, <2>1, <2>2, <2>4, <2>5 DEF Embedded
  <2>9. QED
    BY <2>7, <2>8
<1>4. ASSUME Reached PROVE Reached' /\ cached' \in 0 .. 99
  <2>1. PICK ms \in Percents : ms = payload.milestones /\ ms # <<>> /\ \A i \in 1 .. 3 : ms[i] \in 0 .. 99
    BY <1>4, PercentsDone DEF Reached
  <2>2. round < 3 /\ embeddedCount' = embeddedCount /\ cached' = ms[round']
    BY <1>1, <1>4, <2>1 DEF Reached, Exec!Milestone, Exec!Embeds
  <2>3. round' \in 1 .. 3 /\ round' <= 3
    BY <1>1, <1>2, <2>2
  <2>4. cached' \in 0 .. 99
    BY <2>1, <2>2, <2>3, Zenon
  <2>5. payload'.milestones \in Percents /\ embeddedCount' = 0 /\ phase' = "callback"
    BY <1>1, <1>4, <2>2 DEF Reached
  <2>6. Reached'
    BY <2>3, <2>5 DEF Reached
  <2>7. QED
    BY <2>4, <2>6
<1>5. (Embedded \/ Reached)' /\ cached' \in 0 .. 99
  BY <1>3, <1>4 DEF ExecutorsInv
<1>6. stored # 100 /\ stored \in 0 .. 100 /\ jobAborted \in BOOLEAN
  BY <1>1 DEF ExecutorsInv
<1>7. cached' \in 0 .. 100 /\ cached' # 100
  BY <1>5
<1>8. QED
  BY <1>1, <1>2, <1>5, <1>6, <1>7 DEF ExecutorsInv

LEMMA ExecutorsStep == ExecutorsInv /\ [Next]_vars => ExecutorsInv'
<1> SUFFICES ASSUME ExecutorsInv, [Next]_vars PROVE ExecutorsInv'
  OBVIOUS
<1>1. Exec!Next \/ UNCHANGED executorsVars
  BY DEF Next, vars
<1>2. CASE UNCHANGED executorsVars
  BY <1>2 DEF executorsVars, ExecutorsInv, Embedded, Reached
<1>3. CASE Exec!Next
  BY <1>3, WorkerExecutes, EmbeddingExecutes, AbortKeeps, ThrowKeeps, SettleKeeps, UpdateKeeps, MilestoneKeeps
     DEF Exec!Next, Exec!Step
<1>4. QED
  BY <1>1, <1>2, <1>3

LEMMA ExecutorsPromises == ExecutorsInv => Exec!TypeOK /\ Exec!ProgressIsTrue
<1> SUFFICES ASSUME ExecutorsInv PROVE Exec!TypeOK /\ Exec!ProgressIsTrue
  OBVIOUS
<1>1. Exec!TypeOK
  BY DEF ExecutorsInv, Embedded, Reached, Exec!TypeOK, Exec!Ended
<1>2. ASSUME phase = "COMPLETED"
      PROVE  IF payload.milestones = <<>> THEN payload.totalChunks > 0 => embeddedCount = payload.totalChunks
             ELSE round = Len(payload.milestones)
  <2>1. CASE Embedded
    BY <1>2, <2>1 DEF Embedded
  <2>2. CASE Reached
    BY <1>2, <2>2, PercentsDone DEF Reached
  <2>3. QED
    BY <2>1, <2>2 DEF ExecutorsInv
<1>3. Exec!ProgressIsTrue
  BY <1>2 DEF ExecutorsInv, Exec!ProgressIsTrue, Exec!Embeds
<1>4. QED
  BY <1>1, <1>3

-----------------------------------------------------------------------------
(***************************************************************************)
(* The theorems                                                            *)
(***************************************************************************)
\* Chunks, symbols, graph and payloads have the shapes the code stores.
THEOREM CodeTypes == Spec => [](Chunker!TypeOK /\ Parse!TypeOK /\ Graph!TypeOK /\ Exec!TypeOK)
<1>1. Init => ChunkerInv /\ ParsedInv /\ GraphInv /\ ExecutorsInv
  BY ChunkerInit, ParsersInit, GraphInit, ExecutorsInit DEF Init
<1>2. QED
  BY <1>1, ChunkerPromises, ChunkerStep, ParsersPromises, ParsersStep, GraphPromises, GraphStep,
     ExecutorsPromises, ExecutorsStep, PTL DEF Spec

\* For every size of file, block, window and overlap no line is lost by the
\* chunkers and none is indexed more often than the overlap says; and for any
\* braces, semicolons and indentation what the parsers extract lies in the
\* file, blocks in blocks and methods in the lines of their class.
THEOREM FilesAreCovered == Spec => []ChunksCoverTheFile
<1>1. Init => ChunkerInv /\ ParsedInv
  BY ChunkerInit, ParsersInit DEF Init
<1>2. ChunkerInv /\ ParsedInv => ChunksCoverTheFile
  BY ChunkerPromises, ParsersPromises DEF ChunksCoverTheFile
<1>3. QED
  BY <1>1, <1>2, ChunkerStep, ParsersStep, PTL DEF Spec

\* The search for circular imports ends with the right verdict whatever files
\* there are, whatever they import and in whatever order it takes them.
THEOREM CircularImportsAreFound == Spec => []Graph!CycleVerdict
<1>1. Init => GraphInv
  BY GraphInit DEF Init
<1>2. QED
  BY <1>1, GraphPromises, GraphStep, PTL DEF Spec

\* However an abort falls between the timers and the writes of an execution,
\* one hundred is the progress of a completed one and of no other, and it has
\* embedded all chunks or passed all milestones.
THEOREM ProgressIsThatOfTheWork == Spec => []Exec!ProgressIsTrue
<1>1. Init => ExecutorsInv
  BY ExecutorsInit DEF Init
<1>2. QED
  BY <1>1, ExecutorsPromises, ExecutorsStep, PTL DEF Spec
=============================================================================
