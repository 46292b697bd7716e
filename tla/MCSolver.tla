------------------------------ MODULE MCSolver ------------------------------
(***************************************************************************)
(* A box of four letters on two sides, and one with a letter on both; the  *)
(* word lists are all sub-lists of a pool with equivalent words, one of    *)
(* the same letters that ends elsewhere, a word that wins alone, three     *)
(* that win together and words the filter drops.                           *)
(***************************************************************************)
EXTENDS Bench

LOCAL INSTANCE SequencesExt

CONSTANTS A, B, C, D, X, Comma

Pool ==
  << <<A, C>>, <<A, C, A>>, <<A, B, D>>, <<C, B>>, <<B, D>>,
     <<A, C, A, C>>, <<B, C, X>>, <<D, A>>, <<D, B, C, A>>, <<B>> >>

\* Words of three letters and more, for the comparison with the second solver.
LongPool ==
  << <<A, C, A>>, <<C, B, C>>, <<A, D, B>>, <<A, C, A, C>>, <<B, D, B>>,
     <<B, C, B, A>>, <<C, A, D>>, <<B, C, A, D>> >>

Csv(list) ==
  FoldLeft(LAMBDA csv, word : IF csv = <<>> THEN word ELSE csv \o <<Comma>> \o word,
           <<>>, list)

EndsOf(csv) ==
  LET ends == { k \in 0 .. Len(csv) - 1 : csv[k + 1] = Comma } \cup {Len(csv)}
  IN [k \in 1 .. Cardinality(ends) |->
        CHOOSE x \in ends : Cardinality({ y \in ends : y < x }) = k - 1]

Puzzles ==
  { [characters |-> box, csv |-> Csv(list), wordEnds |-> EndsOf(Csv(list))] :
      box \in {<<A, B, C, D>>, <<A, B, C, A>>},
      list \in AllSubSeqs(Pool) \cup AllSubSeqs(LongPool) }

=============================================================================
