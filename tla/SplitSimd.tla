----------------------------- MODULE SplitSimd ------------------------------
(***************************************************************************)
(* word_ends over the split with std::simd (index.hpp:61-103, 138-147): a  *)
(* block is compared with the separator at once and the bits of the result *)
(* are extracted one by one; the tail is compared as a block filled up     *)
(* with zero characters.                                                   *)
(*                                                                         *)
(* The uint64_t of a comparison is the set of its one bits.                *)
(***************************************************************************)
EXTENDS SplitData

CONSTANT Nul     \* the character the last block is filled up with

VARIABLES
  data,            \* the characters
  pc,              \* "blocks", "extract", "tail" (extracting the last block), "done"
  i,               \* the index of the block
  mask,            \* bits of the running extraction
  separatorIdxs,   \* indices extracted
  wordEnds         \* the result

vars == <<data, pc, i, mask, separatorIdxs, wordEnds>>

Bit == 0 .. BlockSize - 1

UncheckedEnd == BlockSize * (Len(data) \div BlockSize)

LastChars_Separators(b) ==   \* mutant: filled up with separators
  IF UncheckedEnd + b < Len(data) THEN data[UncheckedEnd + b + 1] ELSE Separator

\* lastChars: the rest of the data, then zero characters.
LastChars(b) ==
  IF UncheckedEnd + b < Len(data) THEN data[UncheckedEnd + b + 1] ELSE Nul

\* std::countr_zero
LowestBit(m) == CHOOSE b \in m : \A c \in m : b <= c

Init ==
  /\ data \in Data
  /\ pc = "blocks"
  /\ i = 0
  /\ mask = {}
  /\ separatorIdxs = <<>> /\ wordEnds = <<>>

LoadBlock ==
  /\ pc = "blocks" /\ i < UncheckedEnd
  /\ mask' = { b \in Bit : data[i + b + 1] = Separator }
  /\ pc' = "extract"
  /\ UNCHANGED <<data, i, separatorIdxs, wordEnds>>

LoadTail ==
  /\ pc = "blocks" /\ i >= UncheckedEnd
  /\ mask' = { b \in Bit : LastChars(b) = Separator }
  /\ pc' = "tail"
  /\ UNCHANGED <<data, i, separatorIdxs, wordEnds>>

\* Push the lowest bit's index and clear it (mask &= mask - 1).
ExtractBit ==
  /\ pc \in {"extract", "tail"} /\ mask # {}
  /\ separatorIdxs' = Append(separatorIdxs, i + LowestBit(mask))
  /\ mask' = mask \ {LowestBit(mask)}
  /\ UNCHANGED <<data, pc, i, wordEnds>>

EndBlock ==
  /\ pc = "extract" /\ mask = {}
  /\ i' = i + BlockSize
  /\ pc' = "blocks"
  /\ UNCHANGED <<data, mask, separatorIdxs, wordEnds>>

WordEnds ==
  /\ pc = "tail" /\ mask = {}
  /\ wordEnds' = WithDataEnd(separatorIdxs, Len(data))
  /\ pc' = "done"
  /\ UNCHANGED <<data, i, mask, separatorIdxs>>

Returned == pc = "done" /\ UNCHANGED vars

Next == LoadBlock \/ LoadTail \/ ExtractBit \/ EndBlock \/ WordEnds \/ Returned

Spec == Init /\ [][Next]_vars

-----------------------------------------------------------------------------
\* The documented result (index.hpp:28-30): the end index of every word, the
\* last one the size of the data.
EndsExact == pc = "done" => IsWordEnds(wordEnds, data)

=============================================================================
