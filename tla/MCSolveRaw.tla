----------------------------- MODULE MCSolveRaw -----------------------------
(***************************************************************************)
(* Instances of SolveRaw: every graph whose nodes own a sub-vector of the  *)
(* edges pooled for them.                                                  *)
(***************************************************************************)
EXTENDS SolveRaw, TLC

LOCAL INSTANCE SequencesExt

E(hash, to) == [wordHash |-> hash, to |-> to]

GraphsOver(pool) ==
  { g \in [Node -> UNION { AllSubSeqs(pool[n]) : n \in Node }] :
      \A n \in Node : g[n] \in AllSubSeqs(pool[n]) }

\* Three letters: cycles, loops, parallel edges with equal and with growing
\* masks, the word that covers the box alone.
ThreeLetters == GraphsOver(
  (0 :> << E({0, 1}, 1), E({0, 1, 2}, 1), E({0}, 0) >>) @@
  (1 :> << E({0, 1}, 0), E({1, 2}, 2), E({0, 1}, 1) >>) @@
  (2 :> << E({0, 2}, 0), E({0, 1, 2}, 1), E({1, 2}, 1) >>))

\* Four letters: solutions of three words, states met along several paths of
\* equal and of different length.
FourLetters == GraphsOver(
  (0 :> << E({0, 1}, 1), E({0, 2}, 2), E({0, 1, 2}, 1) >>) @@
  (1 :> << E({0, 1}, 1), E({1, 2}, 2), E({0, 1}, 0) >>) @@
  (2 :> << E({1, 2}, 2), E({2, 3}, 3), E({0, 2, 3}, 0) >>) @@
  (3 :> << E({1, 3}, 1) >>))

=============================================================================
