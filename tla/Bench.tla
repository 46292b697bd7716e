-------------------------------- MODULE Bench --------------------------------
(***************************************************************************)
(* The comparison that the benchmarks begin with (runner/bench/main.cpp):  *)
(* every puzzle is solved by both solvers, and a disagreement on whether   *)
(* it can be solved ends the program.                                      *)
(***************************************************************************)
EXTENDS Solver, FiniteSets

Gpt == INSTANCE GptRunner WITH MaxDepth <- 3

GptSolution == Gpt!GptRun(input.characters, input.csv)

Solvable == chains # <<>>

\* disagreements is raised by this.
Disagree == Solvable = (GptSolution = <<>>)

(***************************************************************************)
(* Two solvers that share no code agree on whether a box can be solved,    *)
(* and on the least number of words, in a box of different letters when    *)
(* no word of the list that can be played has less than three letters: the *)
(* second solver drops those, and counts a doubled letter once.            *)
(***************************************************************************)
SolversAgree ==
  Answered /\ AllDifferent /\ (\A s \in ListedWords : IsPlayable(s) => Len(s) >= 3) =>
    /\ ~Disagree
    /\ Solvable =>
         /\ \A c \in DOMAIN chains : Len(chains[c]) >= Len(GptSolution)
         /\ \E c \in DOMAIN chains : Len(chains[c]) = Len(GptSolution)
=============================================================================
