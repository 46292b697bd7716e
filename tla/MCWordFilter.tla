---------------------------- MODULE MCWordFilter ----------------------------
(***************************************************************************)
(* Every text of up to MaxLen characters over the letters of a box, a      *)
(* letter that is not in it and the separator; a box of four different     *)
(* letters and one with a letter on two sides.                             *)
(***************************************************************************)
EXTENDS WordFilter, FiniteSets

CONSTANTS A, B, C, D, X, Comma, MaxLen

EndsOf(csv) ==
  LET ends == SeparatorsIn(csv, 0, Len(csv)) \cup {Len(csv)}
  IN [k \in 1 .. Cardinality(ends) |->
        CHOOSE x \in ends : Cardinality({ y \in ends : y < x }) = k - 1]

Texts == UNION { [1 .. n -> Letter \cup {Comma}] : n \in 0 .. MaxLen }

Problems ==
  { [characters |-> box, csv |-> csv, wordEnds |-> EndsOf(csv)] :
      box \in {<<A, B, C, D>>, <<A, B, C, A>>}, csv \in Texts }

=============================================================================
