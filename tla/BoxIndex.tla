------------------------------ MODULE BoxIndex ------------------------------
(***************************************************************************)
(* The letters of a box, their compressed indices and the masks words are  *)
(* filtered with (lbs_solver/incl/solver/index.hpp:157-215, util.hpp).     *)
(*                                                                         *)
(* A letter stands for itself, idx(c) is left out; a char_mask_t is the    *)
(* set of its one bits.                                                    *)
(***************************************************************************)
EXTENDS BoxGraph

CONSTANTS
  Letter,             \* the alphabet
  CharsPerSide,       \* letters on a side (3)
  InvalidCharFlag,    \* the index of a letter outside of the box (4095)
  MaskBits            \* the width of a char_mask_t (32)

\* The static_assert of gen_compression_index and the value of the flag.
ASSUME IndexAssumption ==
  /\ CharsPerSide \in Nat \ {0}
  /\ MaskBits \in Nat /\ BoxChars < MaskBits
  /\ InvalidCharFlag \in Nat /\ InvalidCharFlag >= MaskBits

\* The letters of the sides one after the other; nothing keeps a letter from
\* being typed twice.
BoxCharsView == [1 .. BoxChars -> Letter]

\* The indices the letter is written for; the last one stays.
PlacesOf(characters, c) == { k \in Node : characters[k + 1] = c }

CompressionIndex_NoFill(characters) ==   \* mutant: a foreign letter has index 0
  [c \in Letter |->
     IF PlacesOf(characters, c) = {} THEN 0
     ELSE CHOOSE k \in PlacesOf(characters, c) : \A l \in PlacesOf(characters, c) : l <= k]

\* gen_compression_index
CompressionIndex(characters) ==
  [c \in Letter |->
     IF PlacesOf(characters, c) = {} THEN InvalidCharFlag
     ELSE CHOOSE k \in PlacesOf(characters, c) : \A l \in PlacesOf(characters, c) : l <= k]

Side(k) == { l \in Node : l \div CharsPerSide = k \div CharsPerSide }

CharFilterMasks_NoInvalid(index) ==   \* mutant: an invalid letter has no bits
  [c \in Letter |-> IF index[c] = InvalidCharFlag THEN {} ELSE Side(index[c])]

\* gen_char_filter_masks: the side of a letter of the box, else every bit.
CharFilterMasks(index) ==
  [c \in Letter |-> IF index[c] = InvalidCharFlag THEN Node ELSE Side(index[c])]

(***************************************************************************)
(* bit_flag: 1 << index.  Shifting by the width or more is undefined: the  *)
(* processor shifts by the index modulo the width, a compiler that knows   *)
(* the index may as well fold the shift to zero.                           *)
(***************************************************************************)
BitFlags(k) == IF k < MaskBits THEN {{k}} ELSE { {k % MaskBits}, {} }

=============================================================================
