---------------------------- MODULE SplitScalar -----------------------------
(***************************************************************************)
(* word_ends over the split without std::simd (index.hpp:107-148): the     *)
(* data is scanned in blocks, the separators of a block are compacted into *)
(* a buffer by writing every index and advancing only past a separator.    *)
(***************************************************************************)
EXTENDS SplitData

VARIABLES
  data,            \* the characters
  pc,              \* "blocks": at the head of the outer loop, "scan": of the inner
  i,               \* the block's first index
  j,               \* the index scanned next
  separatorC,      \* separators found in this block
  buffer,          \* blockSeparatorIdxs; keeps what earlier blocks wrote
  separatorIdxs,   \* the separators of the blocks before
  wordEnds         \* the result

vars == <<data, pc, i, j, separatorC, buffer, separatorIdxs, wordEnds>>

BlockEnd == IF i + BlockSize < Len(data) THEN i + BlockSize ELSE Len(data)

Init ==
  /\ data \in Data
  /\ pc = "blocks"
  /\ i = 0 /\ j = 0 /\ separatorC = 0
  /\ buffer = [k \in 0 .. BlockSize - 1 |-> 0]
  /\ separatorIdxs = <<>> /\ wordEnds = <<>>

BeginBlock_KeepsCount ==   \* mutant: the count is not reset
  /\ pc = "blocks" /\ i < Len(data)
  /\ pc' = "scan"
  /\ j' = i
  /\ UNCHANGED <<data, i, separatorC, buffer, separatorIdxs, wordEnds>>

BeginBlock ==
  /\ pc = "blocks" /\ i < Len(data)
  /\ pc' = "scan"
  /\ separatorC' = 0 /\ j' = i
  /\ UNCHANGED <<data, i, buffer, separatorIdxs, wordEnds>>

\* The index is written whether it is one of a separator or not.
Scan ==
  /\ pc = "scan" /\ j < BlockEnd
  /\ buffer' = [buffer EXCEPT ![separatorC] = j]
  /\ separatorC' = IF data[j + 1] = Separator THEN separatorC + 1 ELSE separatorC
  /\ j' = j + 1
  /\ UNCHANGED <<data, pc, i, separatorIdxs, wordEnds>>

\* append_range of the first separatorC entries.
EndBlock ==
  /\ pc = "scan" /\ j = BlockEnd
  /\ separatorIdxs' = separatorIdxs \o [k \in 1 .. separatorC |-> buffer[k - 1]]
  /\ i' = i + BlockSize
  /\ pc' = "blocks"
  /\ UNCHANGED <<data, j, separatorC, buffer, wordEnds>>

WordEnds ==
  /\ pc = "blocks" /\ i >= Len(data)
  /\ wordEnds' = WithDataEnd(separatorIdxs, Len(data))
  /\ pc' = "done"
  /\ UNCHANGED <<data, i, j, separatorC, buffer, separatorIdxs>>

Returned == pc = "done" /\ UNCHANGED vars

Next == BeginBlock \/ Scan \/ EndBlock \/ WordEnds \/ Returned

Spec == Init /\ [][Next]_vars

-----------------------------------------------------------------------------
\* The counters stay in their ranges: the buffer is written within its bounds
\* even in a block of separators only, and read within the part written.
TypeOK ==
  /\ data \in Data
  /\ pc \in {"blocks", "scan", "done"}
  /\ i \in Nat /\ j \in Nat
  /\ separatorC \in 0 .. BlockSize
  /\ buffer \in [0 .. BlockSize - 1 -> Nat]
  /\ separatorIdxs \in Seq(Nat)
  /\ wordEnds \in Seq(Nat)

\* Before an index is written there is room for it: the separators of a block
\* never fill the buffer before its last character is scanned.
RoomInBuffer == (pc = "scan" /\ j < BlockEnd) => separatorC < BlockSize

(***************************************************************************)
(* The compaction loses and invents nothing: what is flushed are the       *)
(* separators of the blocks before, the first separatorC entries of the    *)
(* buffer are those of this block, whatever an earlier block or a          *)
(* character that is no separator has left behind in it.                   *)
(***************************************************************************)
Compacted ==
  /\ pc = "blocks" => Lists(separatorIdxs, SeparatorsIn(data, 0, IF i < Len(data) THEN i ELSE Len(data)))
  /\ pc = "scan" =>
       /\ Lists(separatorIdxs, SeparatorsIn(data, 0, i))
       /\ Lists([k \in 1 .. separatorC |-> buffer[k - 1]], SeparatorsIn(data, i, j))

\* The documented result: the end of every word, the last one the data's end.
EndsExact == pc = "done" => IsWordEnds(wordEnds, data)

=============================================================================
