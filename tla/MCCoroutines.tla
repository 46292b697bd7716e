---------------------------- MODULE MCCoroutines ----------------------------
(***************************************************************************)
(* Coroutines alone, with programs that throw on a foreign scheduler.      *)
(***************************************************************************)
EXTENDS Coroutines

CONSTANTS a1, a2, b1

Example == INSTANCE CoroutinePrograms

MCPrograms == Example!MCThrowing
MCHome == Example!MCHome
=============================================================================
