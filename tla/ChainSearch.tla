----------------------------- MODULE ChainSearch -----------------------------
(***************************************************************************)
(* What a search for letter-boxed solutions promises its caller, without   *)
(* the depth-first search, its stack and its cache:                        *)
(*   - it answers with distinct chains of words that use every letter,     *)
(*     shortest chains first and at most MaxSolutions of them;             *)
(*   - the first answer is as short as a solution can be;                  *)
(*   - it gives up without an answer only when there is no solution of at  *)
(*     most MaxWords words;                                                *)
(*   - it ends.                                                            *)
(***************************************************************************)
EXTENDS BoxGraph

CONSTANTS MinWords, MaxWords, MaxSolutions, Graphs

VARIABLES
  graph,       \* the instance
  found,       \* the chains reported so far
  finished     \* the search has returned

vars == <<graph, found, finished>>

Init ==
  /\ graph \in Graphs
  /\ found = <<>>
  /\ finished = FALSE

Shorter(k) == \E j \in MinWords .. k - 1 : CoveringChains(graph, j) # {}

Report ==
  /\ ~finished
  /\ Len(found) < MaxSolutions
  /\ \E k \in MinWords .. MaxWords :
       /\ IF found = <<>> THEN ~Shorter(k) ELSE Len(found[Len(found)]) <= k
       /\ \E c \in CoveringChains(graph, k) :
            /\ \A i \in 1 .. Len(found) : found[i] # c
            /\ found' = Append(found, c)
  /\ UNCHANGED <<graph, finished>>

Finish ==
  /\ ~finished
  /\ found = <<>> => ~Shorter(MaxWords + 1)
  /\ finished' = TRUE
  /\ UNCHANGED <<graph, found>>

Next == Report \/ Finish

Spec == Init /\ [][Next]_vars /\ WF_vars(Next)

=============================================================================
