------------------------------ MODULE Chunking ------------------------------
(***************************************************************************)
(* The two chunkers: CodeChunkerService.processChunks on one extracted     *)
(* block, and SemanticContextChunkerService.chunkFile on a file.  A chunk  *)
(* is its first and last line.  One action per turn of a window loop.      *)
(***************************************************************************)
EXTENDS Integers, SequencesExt

CONSTANTS MaxLines,  \* bound: lines of a file or block
          Starts,    \* first lines of a block
          MaxChunkLines, WindowSize, Overlap, \* of CodeChunkerService
          BlockSize,                          \* of SemanticContextChunkerService
          None

VARIABLES task,   \* what is chunked: None, or how, its first line and length
          at,     \* i of the loop, None when it is over
          pieces  \* the chunks so far

vars == <<task, at, pieces>>

Init == task = None /\ at = None /\ pieces = <<>>

-----------------------------------------------------------------------------
Min2(a, b) == IF a < b THEN a ELSE b
Max2(a, b) == IF a < b THEN b ELSE a

\* processChunks: a block of moderate size is one chunk, another is split.
ProcessChunk(start, lines, long) ==
  /\ task = None
  /\ task' = [how |-> "split", start |-> start, lines |-> lines]
  /\ IF lines <= MaxChunkLines /\ ~long
     THEN at' = None /\ pieces' = <<[from |-> start, to |-> start + lines - 1]>>
     ELSE at' = 0 /\ pieces' = <<>>

\* chunkFile of a file that is not blank and in which no symbol was found.
ChunkFile(lines) ==
  /\ task = None
  /\ task' = [how |-> "blocks", start |-> 1, lines |-> lines]
  /\ at' = 0 /\ pieces' = <<>>

\* chunkFile with symbols: one chunk for each, within the file.
ChunkSymbols(lines, from, to) ==
  /\ task = None
  /\ task' = [how |-> "symbol", start |-> 1, lines |-> lines]
  /\ at' = None /\ pieces' = <<[from |-> Max2(1, from), to |-> Min2(lines, to)]>>

\* Fault variant of Window: the last line is one too far.
WindowOffByOne(i) ==
  [from |-> task.start + i, to |-> task.start + Min2(i + WindowSize, task.lines)]

\* splitLargeBlock.
Window(i) ==
  LET first == task.start + i
      last == task.start + Min2(i + WindowSize, task.lines) - 1
  IN [from |-> first, to |-> Max2(first, last)]

SplitLargeBlock ==
  /\ task # None /\ task.how = "split" /\ at # None
  /\ pieces' = Append(pieces, Window(at))
  /\ at' = IF at + WindowSize >= task.lines THEN None ELSE at + WindowSize - Overlap
  /\ UNCHANGED task

\* The loop of chunkFile.
NextBlock ==
  /\ task # None /\ task.how = "blocks" /\ at # None
  /\ pieces' = Append(pieces, [from |-> at + 1, to |-> Min2(task.lines, at + BlockSize)])
  /\ at' = IF at + BlockSize < task.lines THEN at + BlockSize ELSE None
  /\ UNCHANGED task

Next ==
  \/ \E lines \in 1 .. MaxLines, start \in Starts, long \in BOOLEAN : ProcessChunk(start, lines, long)
  \/ \E lines \in 1 .. MaxLines : ChunkFile(lines)
  \/ \E lines \in {1, MaxLines} : \E from \in 0 .. lines : \E to \in {Max2(1, from), lines + 1} : ChunkSymbols(lines, from, to)
  \/ SplitLargeBlock \/ NextBlock

Spec == Init /\ [][Next]_vars

-----------------------------------------------------------------------------
(***************************************************************************)
(* Properties                                                              *)
(***************************************************************************)
\* Types; every chunk has a line and lies within what is chunked.
TypeOK ==
  /\ at \in Nat \cup {None}
  /\ \A i \in DOMAIN pieces : /\ task.start <= pieces[i].from /\ pieces[i].from <= pieces[i].to
                              /\ pieces[i].to <= task.start + task.lines - 1

\* No line is lost and none is indexed more often than the overlap says: the
\* chunks of a block or of a file without symbols go from its first line to
\* its last, none longer than it may be, each beginning exactly the overlap
\* before the end of the one before, and the last adding lines to it.
EveryLineOnce == task # None /\ task.how # "symbol" =>
  LET overlap == IF task.how = "split" THEN Overlap ELSE 0
      longest == IF task.how = "split" THEN Max2(MaxChunkLines, WindowSize) ELSE BlockSize
  IN /\ pieces # <<>> => pieces[1].from = task.start
     /\ \A i \in DOMAIN pieces : pieces[i].to - pieces[i].from + 1 <= longest
     /\ \A i \in 1 .. Len(pieces) - 1 : /\ pieces[i + 1].from = pieces[i].to + 1 - overlap
                                        /\ pieces[i + 1].to > pieces[i].to
     /\ at = None => pieces # <<>> /\ Last(pieces).to = task.start + task.lines - 1
=============================================================================
