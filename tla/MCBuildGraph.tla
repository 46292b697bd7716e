---------------------------- MODULE MCBuildGraph ----------------------------
(***************************************************************************)
(* Every list of up to MaxWords words over the letters of the box.         *)
(***************************************************************************)
EXTENDS BuildGraph

CONSTANT MaxWords

ProperWord == { word \in Word : {word.front, word.back} \subseteq word.hash }

ProperLists == UNION { [1 .. n -> ProperWord] : n \in 0 .. MaxWords }

=============================================================================
