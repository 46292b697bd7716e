------------------------------ MODULE WordEnds ------------------------------
(***************************************************************************)
(* The two builds of word_ends (lbs_solver/incl/solver/index.hpp:60-148)   *)
(* on the same text: with std::simd (SplitSimd) and without (SplitScalar). *)
(* A program has one of them; one after the other they show that it makes  *)
(* no difference which.                                                    *)
(***************************************************************************)
EXTENDS SplitData

CONSTANTS
  SimdBlockSize,     \* the BlockSize of the build with std::simd
  Nul                \* what its last block is filled up with

ASSUME SimdBlockSizeAssumption == SimdBlockSize \in Nat \ {0}

VARIABLES
  data,                                                      \* the argument
  pc, i, j, separatorC, buffer, separatorIdxs, wordEnds,     \* SplitScalar
  simdPc, simdI, mask, simdSeparatorIdxs, simdWordEnds       \* SplitSimd

scalarVars == <<pc, i, j, separatorC, buffer, separatorIdxs, wordEnds>>
simdVars   == <<simdPc, simdI, mask, simdSeparatorIdxs, simdWordEnds>>

Scalar == INSTANCE SplitScalar

Simd == INSTANCE SplitSimd WITH
  BlockSize <- SimdBlockSize, pc <- simdPc, i <- simdI,
  separatorIdxs <- simdSeparatorIdxs, wordEnds <- simdWordEnds

Init == Scalar!Init /\ Simd!Init

SplitWithoutSimd ==
  /\ pc # "done"
  /\ Scalar!Next
  /\ UNCHANGED simdVars

SplitWithSimd ==
  /\ pc = "done" /\ simdPc # "done"
  /\ Simd!Next
  /\ UNCHANGED scalarVars

Returned == pc = "done" /\ simdPc = "done" /\ UNCHANGED <<data, scalarVars, simdVars>>

Next == SplitWithoutSimd \/ SplitWithSimd \/ Returned

Spec == Init /\ [][Next]_<<data, scalarVars, simdVars>>

-----------------------------------------------------------------------------
\* An index is written before it is known to be a separator's (index.hpp:124);
\* even a block of separators only leaves room for it.
RoomInBuffer == Scalar!RoomInBuffer

\* Both builds answer what word_ends documents (index.hpp:28-30): the end of
\* every word, the last one the size of the data.
EndsExact == Scalar!EndsExact /\ Simd!EndsExact

=============================================================================
