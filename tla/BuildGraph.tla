----------------------------- MODULE BuildGraph -----------------------------
(***************************************************************************)
(* init_nodes and build_graph (lbs_solver/incl/solver/solver.hpp:185-221): *)
(* one node per letter, one edge per class of words with the same ends and *)
(* the same letters.                                                       *)
(*                                                                         *)
(* A word is what the builder reads of it: the indices of its first and of *)
(* its last letter and its mask.                                           *)
(***************************************************************************)
EXTENDS BoxGraph

CONSTANT WordLists       \* the filtered words

Word == [front : Node, back : Node, hash : SUBSET Node]

\* filter_and_hash sets the bits of the first and of the last letter.
ASSUME WordListsAssumption ==
  \A list \in WordLists :
    /\ list \in Seq(Word)
    /\ \A k \in 1 .. Len(list) : {list[k].front, list[k].back} \subseteq list[k].hash

VARIABLES
  list,      \* words and word_hashes; never modified
  next,      \* the word added next
  nodes      \* the `outgoing' vector of every node

buildVars == <<list, next, nodes>>

Edge == [wordHash : SUBSET Node, to : Node, variants : Seq(Nat)]

TheWord == list[next]

PrevOutgoing == nodes[TheWord.front]

Equivalent_AnyEnd(e) == e.wordHash = TheWord.hash   \* mutant: the ends differ

\* The edges find_if stops at.
Equivalent(e) == e.wordHash = TheWord.hash /\ e.to = TheWord.back

Found_LastOnly ==   \* mutant: only the last edge is compared
  PrevOutgoing # <<>> /\ Equivalent(PrevOutgoing[Len(PrevOutgoing)])

Found == \E k \in 1 .. Len(PrevOutgoing) : Equivalent(PrevOutgoing[k])

FirstFound ==
  CHOOSE k \in 1 .. Len(PrevOutgoing) :
    /\ Equivalent(PrevOutgoing[k])
    /\ \A l \in 1 .. k - 1 : ~Equivalent(PrevOutgoing[l])

InitBuild ==
  /\ next = 1
  /\ nodes = [n \in Node |-> <<>>]

Init == list \in WordLists /\ InitBuild

MoreWords == next <= Len(list)

\* The variants keep the positions of the words in the list, from 1 here.
NewEdge_StaleTarget ==   \* mutant: the target is that of the first word
  /\ MoreWords /\ ~Found
  /\ nodes' = [nodes EXCEPT ![TheWord.front] =
       Append(@, [wordHash |-> TheWord.hash, to |-> list[1].back, variants |-> <<next>>])]
  /\ next' = next + 1
  /\ UNCHANGED list

NewEdge ==
  /\ MoreWords /\ ~Found
  /\ nodes' = [nodes EXCEPT ![TheWord.front] =
       Append(@, [wordHash |-> TheWord.hash, to |-> TheWord.back, variants |-> <<next>>])]
  /\ next' = next + 1
  /\ UNCHANGED list

AddVariant_Dropped ==   \* mutant: an equivalent word is forgotten
  /\ MoreWords /\ Found
  /\ next' = next + 1
  /\ UNCHANGED <<list, nodes>>

AddVariant ==
  /\ MoreWords /\ Found
  /\ nodes' = [nodes EXCEPT ![TheWord.front][FirstFound].variants = Append(@, next)]
  /\ next' = next + 1
  /\ UNCHANGED list

Built == ~MoreWords

Build == NewEdge \/ AddVariant

Next == Build \/ (Built /\ UNCHANGED buildVars)

Spec == Init /\ [][Next]_buildVars

-----------------------------------------------------------------------------
\* Nodes, targets and masks are those of the box; the list is not overrun.
TypeOK ==
  /\ list \in Seq(Word)
  /\ next \in 1 .. Len(list) + 1
  /\ nodes \in [Node -> Seq(Edge)]

\* The graph as the search reads it, without the words behind an edge.
Searchable(n) ==
  [k \in 1 .. Len(nodes[n]) |-> [wordHash |-> nodes[n][k].wordHash, to |-> nodes[n][k].to]]

\* What SolveRaw relies on (GraphsAssumption): the mask of an edge has the
\* bits of both of its nodes, for each state the builder leaves behind.
BuildsWordGraph == WordGraph([n \in Node |-> Searchable(n)])

VariantsOf(e) == { e.variants[v] : v \in 1 .. Len(e.variants) }

(***************************************************************************)
(* Deduplication merges no two words that differ: the variants of an edge  *)
(* are exactly the words of the list so far with its ends and its letters. *)
(***************************************************************************)
VariantsExact ==
  \A n \in Node : \A k \in 1 .. Len(nodes[n]) :
    VariantsOf(nodes[n][k]) =
      { p \in 1 .. next - 1 : /\ list[p].front = n
                              /\ list[p].back = nodes[n][k].to
                              /\ list[p].hash = nodes[n][k].wordHash }

\* Every word of the list so far is behind some edge of its first letter.
WordsPlaced ==
  \A p \in 1 .. next - 1 :
    \E k \in 1 .. Len(nodes[list[p].front]) : p \in VariantsOf(nodes[list[p].front][k])

\* No two edges of a node are equivalent, so the search meets a class once.
EdgesDiffer ==
  \A n \in Node : \A k, l \in 1 .. Len(nodes[n]) :
    k # l => \/ nodes[n][k].to # nodes[n][l].to
             \/ nodes[n][k].wordHash # nodes[n][l].wordHash

=============================================================================
