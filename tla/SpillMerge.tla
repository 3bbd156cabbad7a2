----------------------------- MODULE SpillMerge -----------------------------
(***************************************************************************)
(* Findings are spilled to a file in blocks, sorted by merging runs of     *)
(* blocks, numbered, and read back by their number (findings_store.py,     *)
(* _FindingStream in engine.py).  A row is its sort key, which is unique:  *)
(* the last part of it is the order of production.                         *)
(***************************************************************************)
EXTENDS Naturals, Sequences, FiniteSets, SequencesExt, FiniteSetsExt

CONSTANTS
  Spills,      \* what a run may append: sequences of rows, no row twice
  BlockRows,   \* BLOCK_FINDINGS
  FanIn,       \* _MERGE_FAN_IN
  None

VARIABLES
  todo,     \* rows still to append
  buffer,   \* rows of the block that is not full yet
  blocks,   \* the spill file
  runs,     \* sorted runs, each a sequence of blocks; None while spilling
  passes,   \* merge passes so far
  stored    \* blocks of the findings file; None before the last merge

spillVars == <<todo, buffer, blocks, runs, passes, stored>>

SpillInit ==
  /\ todo \in Spills
  /\ buffer = <<>> /\ blocks = <<>> /\ runs = None /\ passes = 0 /\ stored = None

(* The row at a place is the one that so many are less than. *)
Sorted(s) ==
  [k \in 1..Len(s) |-> CHOOSE x \in ToSet(s) : Cardinality({y \in ToSet(s) : y < x}) = k - 1]

(* Rows in blocks of n, the last one perhaps shorter. *)
Chunks(s, n) ==
  [i \in 1..((Len(s) + n - 1) \div n) |-> SubSeq(s, (i - 1) * n + 1, Min({i * n, Len(s)}))]
-----------------------------------------------------------------------------
(* SpillWriter. *)

(* Mutant: the block is written as it was filled. *)
FlushedAsIs(rows) == IF rows = <<>> THEN blocks ELSE Append(blocks, rows)
Flushed(rows) == IF rows = <<>> THEN blocks ELSE Append(blocks, Sorted(rows))

Spill ==
  /\ todo # <<>> /\ todo' = Tail(todo)
  /\ LET filled == Append(buffer, Head(todo))
     IN IF Len(filled) >= BlockRows
        THEN buffer' = <<>> /\ blocks' = Flushed(filled)
        ELSE buffer' = filled /\ UNCHANGED blocks
  /\ UNCHANGED <<runs, passes, stored>>

(* The file is closed and opened again: every block is a run. *)
Close ==
  /\ todo = <<>> /\ runs = None
  /\ blocks' = Flushed(buffer) /\ buffer' = <<>>
  /\ runs' = [i \in DOMAIN blocks' |-> <<blocks'[i]>>]
  /\ UNCHANGED <<todo, passes, stored>>
-----------------------------------------------------------------------------
(* merge_spill. *)

(* heapq.merge: the least of the first rows, again and again. *)
Foremost(streams) ==
  CHOOSE i \in DOMAIN streams : /\ streams[i] # <<>>
    /\ \A j \in DOMAIN streams : streams[j] # <<>> => Head(streams[i]) <= Head(streams[j])

Merged(group) ==
  LET streams == [i \in DOMAIN group |-> FlattenSeq(group[i])]
      total == Len(FlattenSeq(streams))
      rest[n \in 0..total] ==
        IF n = 0 THEN streams
        ELSE LET left == rest[n - 1] IN [left EXCEPT ![Foremost(left)] = Tail(@)]
  IN  [n \in 1..total |-> LET left == rest[n - 1] IN Head(left[Foremost(left)])]

(* One pass fuses each FanIn runs into one that spans many blocks. *)
Pass ==
  /\ runs # None /\ Len(runs) > FanIn
  /\ runs' = [g \in 1..Len(Chunks(runs, FanIn)) |-> Chunks(Merged(Chunks(runs, FanIn)[g]), BlockRows)]
  /\ passes' = passes + 1
  /\ UNCHANGED <<todo, buffer, blocks, stored>>

(* The last merge numbers the findings and writes them in their order. *)
Store ==
  /\ runs # None /\ Len(runs) <= FanIn /\ stored = None
  /\ stored' = Chunks(Merged(runs), BlockRows)
  /\ UNCHANGED <<todo, buffer, blocks, runs, passes>>

SpillNext == Spill \/ Close \/ Pass \/ Store
SpillSpec == SpillInit /\ [][SpillNext]_spillVars
-----------------------------------------------------------------------------
(* FindingSequence: starts of the blocks, and the binary search in them;   *)
(* rows and blocks are counted from 1.                                     *)
Starts == [b \in DOMAIN stored |-> Len(FlattenSeq(SubSeq(stored, 1, b - 1)))]

(* The half that has the number, until one block is left. *)
Halved(between, index) ==
  LET mid == (between.low + between.high + 1) \div 2
  IN  IF between.low = between.high THEN between
      ELSE IF Starts[mid] < index THEN [between EXCEPT !.low = mid]
      ELSE [between EXCEPT !.high = mid - 1]

Locate(index) ==
  LET search[n \in 0..Len(stored)] ==
        IF n = 0 THEN [low |-> 1, high |-> Len(stored)] ELSE Halved(search[n - 1], index)
  IN  search[Len(stored)].low

FindingAt(index) == stored[Locate(index)][index - Starts[Locate(index)]]
-----------------------------------------------------------------------------
(* Whatever the order of production and the number of blocks, the passes   *)
(* come to an end, and finding n, read through the block its number leads  *)
(* to, is the nth of what was spilled: none is lost or twice, and the      *)
(* number of a finding is its position (merge_spill, finding_by_id).       *)
NumberedInOrder ==
  /\ passes <= Len(blocks)
  /\ stored # None =>
       LET spilled == Sorted(FlattenSeq(blocks))
       IN /\ Len(FlattenSeq(stored)) = Len(spilled)
          /\ \A n \in DOMAIN spilled : FindingAt(n) = spilled[n]
=============================================================================
