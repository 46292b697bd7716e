----------------------------- MODULE MCWordEnds -----------------------------
(***************************************************************************)
(* Every text of up to nine characters: up to three blocks of three, the   *)
(* last one partial or full, and of four with a tail of none to three      *)
(* characters; empty words and separators at both ends.                    *)
(***************************************************************************)
EXTENDS WordEnds

CONSTANTS Comma, Letter

Texts == UNION { [1 .. n -> {Comma, Letter}] : n \in 0 .. 9 }

=============================================================================
