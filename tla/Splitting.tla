----------------------------- MODULE Splitting ------------------------------
(***************************************************************************)
(* What word_ends (lbs_solver/incl/solver/index.hpp:28-35) answers,        *)
(* whichever of the two implementations of split it is built with.         *)
(*                                                                         *)
(* `data' is a sequence; its indices start at 0 as in the code, so the     *)
(* character at index i is data[i + 1].                                    *)
(***************************************************************************)
EXTENDS Integers, Sequences

CONSTANT Separator       \* the character that ends a word

\* The indices of the separators in data from a on and before b.
SeparatorsIn(data, a, b) == { i \in a .. b - 1 : data[i + 1] = Separator }

Increasing(s) == \A i, j \in 1 .. Len(s) : i < j => s[i] < s[j]

\* s lists the elements of S in increasing order.
Lists(s, S) ==
  /\ Increasing(s)
  /\ \A i \in 1 .. Len(s) : s[i] \in S
  /\ \A x \in S : \E i \in 1 .. Len(s) : s[i] = x

\* The ends of all words of data: every separator, then the end of the data.
IsWordEnds(ends, data) ==
  Lists(ends, SeparatorsIn(data, 0, Len(data)) \cup {Len(data)})

WithDataEnd_OnlyAlone(idxs, size) ==   \* mutant: only a text without separators ends
  IF idxs = <<>> THEN Append(idxs, size) ELSE idxs

\* word_ends: the end of the data is added unless split has it already.
WithDataEnd(idxs, size) ==
  IF idxs = <<>> \/ idxs[Len(idxs)] # size THEN Append(idxs, size) ELSE idxs

=============================================================================
