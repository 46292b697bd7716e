----------------------------- MODULE SplitData ------------------------------
(***************************************************************************)
(* The texts word_ends is run on, and the characters a block of split has. *)
(***************************************************************************)
EXTENDS Splitting

CONSTANTS
  Char,            \* the characters of the data
  Data,            \* the inputs
  BlockSize        \* 256 in the scalar split, 64 in the one with std::simd

ASSUME DataAssumption == Data \subseteq Seq(Char)

ASSUME BlockSizeAssumption == BlockSize \in Nat \ {0}

=============================================================================
