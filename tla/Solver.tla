------------------------------- MODULE Solver -------------------------------
(***************************************************************************)
(* A puzzle from the typed letters to the printed chains: print_solutions  *)
(* (lbs_solver/runner/src/main.cpp:25-40) and solve (solver.hpp:229-247).  *)
(* The filter, the graph builder and the search are those of WordFilter,   *)
(* BuildGraph and SolveRaw, one after the other on what the one before has *)
(* left; trace_solutions turns paths of edges back into words.             *)
(***************************************************************************)
EXTENDS BoxIndex

CONSTANTS
  Separator, Inputs,                            \* see WordFilter
  MinSolutionSize, MaxSearchSize, MaxSolutions, \* see SolveRaw
  StateCacheMinDepth

VARIABLES
  input, filtering, w, begin, i, wordHash, words, wordHashes,  \* filter_and_hash
  next, nodes,                                                 \* build_graph
  pc, depth, stack, states, path, cache, solutions,            \* solve_raw
  chains                                                       \* what solve returns

filterVars == <<input, filtering, w, begin, i, wordHash, words, wordHashes>>
buildVars  == <<next, nodes>>
searchVars == <<pc, depth, stack, states, path, cache, solutions>>

vars == <<filterVars, buildVars, searchVars, chains>>

Index == CompressionIndex(input.characters)

Letters(view) == [k \in 1 .. view.size |-> input.csv[view.begin + k]]

LastOf(s) == s[Len(s)]

\* words and word_hashes as the builder reads them: node_at(w.front()),
\* node_at(w.back()).
WordList ==
  [k \in 1 .. Len(words) |->
     [front |-> Index[Letters(words[k])[1]],
      back  |-> Index[LastOf(Letters(words[k]))],
      hash  |-> wordHashes[k]]]

Filter == INSTANCE WordFilter

Builder == INSTANCE BuildGraph WITH list <- WordList, WordLists <- {}

Graph == [n \in Node |-> Builder!Searchable(n)]

Search == INSTANCE SolveRaw WITH outgoing <- Graph, Graphs <- {}

\* What the three parts assume of the settings (word_ends has found the ends).
ASSUME SolverAssumption ==
  /\ Separator \notin Letter
  /\ \A in \in Inputs :
       /\ in.characters \in BoxCharsView
       /\ in.csv \in Seq(Letter \cup {Separator})
       /\ in.wordEnds \in Seq(Nat)
       /\ Filter!IsWordEnds(in.wordEnds, in.csv)
  /\ MinSolutionSize \in Nat \ {0}
  /\ MaxSearchSize \in Nat /\ MinSolutionSize <= MaxSearchSize
  /\ MaxSearchSize + 1 < Search!NotReached
  /\ MaxSolutions \in Nat \ {0}
  /\ StateCacheMinDepth \in Nat

Init ==
  /\ input \in Inputs
  /\ Filter!InitFilter
  /\ Builder!InitBuild
  /\ Search!InitSearch
  /\ chains = <<>>

FilterWords ==
  /\ UNCHANGED <<buildVars, searchVars, chains>>
  /\ Filter!Filter

BuildGraph ==
  /\ Filter!Filtered
  /\ UNCHANGED <<filterVars, searchVars, chains>>
  /\ Builder!Build

SearchGraph ==
  /\ Filter!Filtered /\ Builder!Built
  /\ pc # "done"
  /\ UNCHANGED <<filterVars, buildVars, chains>>
  /\ Search!Next

\* The variants of every edge but the router's.
TraceSolution(p) ==
  [k \in 1 .. Len(p) - 1 |->
     LET edge == nodes[p[k + 1].node][p[k + 1].pos]
     IN [v \in 1 .. Len(edge.variants) |-> words[edge.variants[v]]]]

Trace ==
  /\ pc = "done" /\ Len(chains) < Len(solutions)
  /\ chains' = Append(chains, TraceSolution(solutions[Len(chains) + 1]))
  /\ UNCHANGED <<filterVars, buildVars, searchVars>>

Answered == pc = "done" /\ Len(chains) = Len(solutions)

Next ==
  \/ FilterWords \/ BuildGraph \/ SearchGraph \/ Trace
  \/ (Answered /\ UNCHANGED vars)

Spec == Init /\ [][Next]_vars /\ WF_vars(Next)

-----------------------------------------------------------------------------
(***************************************************************************)
(* The game itself, on letters: no index, mask, node or edge.              *)
(***************************************************************************)
BoxLetters == { input.characters[k] : k \in 1 .. BoxChars }

AllDifferent == \A k, l \in 1 .. BoxChars : k # l => input.characters[k] # input.characters[l]

\* Letters on one side of the box; a letter is beside itself.
Beside(a, b) ==
  \E k, l \in Node : /\ k \div CharsPerSide = l \div CharsPerSide
                     /\ input.characters[k + 1] = a /\ input.characters[l + 1] = b

IsPlayable(s) ==
  /\ \A k \in 1 .. Len(s) : s[k] \in BoxLetters
  /\ \A k \in 1 .. Len(s) - 1 : ~Beside(s[k], s[k + 1])

ListedWords ==
  LET views == [begin : 0 .. Len(input.csv), size : 1 .. Len(input.csv)]
  IN { Letters(v) : v \in { u \in views : Filter!IsWord(input.csv, u.begin, u.size) } }

LettersOf(s) == { s[k] : k \in 1 .. Len(s) }

\* A sequence of words that wins the game.
Wins(game) ==
  /\ \A k \in 1 .. Len(game) : game[k] \in ListedWords /\ IsPlayable(game[k])
  /\ \A k \in 1 .. Len(game) - 1 : LastOf(game[k]) = game[k + 1][1]
  /\ UNION { LettersOf(game[k]) : k \in 1 .. Len(game) } = BoxLetters

\* The games a printed chain stands for: one variant for each of its words.
GamesOf(chain) ==
  { [k \in 1 .. Len(chain) |-> Letters(chain[k][pick[k]])] :
      pick \in { f \in [1 .. Len(chain) -> 1 .. Len(words)] :
                   \A k \in 1 .. Len(chain) : f[k] <= Len(chain[k]) } }

-----------------------------------------------------------------------------
\* Whatever variant is chosen for each word of a printed chain, the words can
\* be played in this box and win, within the number of words searched.
ChainsWin ==
  \A c \in 1 .. Len(chains) :
    /\ Len(chains[c]) \in MinSolutionSize .. MaxSearchSize
    /\ \A k \in 1 .. Len(chains[c]) : chains[c][k] # <<>>
    /\ \A game \in GamesOf(chains[c]) : Wins(game)

\* "no solution" (main.cpp:34-35) is printed only if no game of the list wins
\* within the words searched, in a box of different letters.
NoSolutionHonest ==
  (Answered /\ chains = <<>> /\ AllDifferent) =>
    \A k \in MinSolutionSize .. MaxSearchSize :
      \A game \in [1 .. k -> { s \in ListedWords : IsPlayable(s) }] : ~Wins(game)

\* A box with a letter typed twice has no answer: the index of one of the two
\* places is in no word's mask.
DoubleLetterUnsolved == ~AllDifferent => chains = <<>>

\* The graph the builder leaves is one the search is checked and proved for.
GraphIsWordGraph ==
  (Filter!Filtered /\ Builder!Built) => Builder!BuildsWordGraph

\* Every puzzle is answered.
Answers == <>Answered

=============================================================================
