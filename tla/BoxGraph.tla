------------------------------ MODULE BoxGraph ------------------------------
(***************************************************************************)
(* The graph the solver searches (lbs_solver/incl/solver/solver.hpp): one  *)
(* node per letter of the box, one edge per class of equivalent words.     *)
(*                                                                         *)
(* A character mask (char_mask_t, one bit per box letter) is the set of    *)
(* the letters whose bit is set: `|' is \cup, `solution_mask' is Node.     *)
(* A pointer to an edge is the pair of the node that owns the edge and the *)
(* position of the edge in that node's `outgoing' vector.                  *)
(***************************************************************************)
EXTENDS Integers, Sequences

CONSTANT BoxChars            \* number of letters of the box (12 in the game)

ASSUME BoxCharsAssumption == BoxChars \in Nat \ {0}

\* The compressed indices of the box letters: nodes[i].compressedIdx = i.
Node == 0 .. BoxChars - 1

\* The router is a node outside of `nodes' with one edge to each of them.
Router == BoxChars

Place == Node \cup {Router}

\* All bits set: every letter of the box is used.
SolutionMask == Node

WordEdge == [wordHash : SUBSET Node, to : Node]

EdgeRef == [node : Place, pos : Nat \ {0}]

\* router_node: an edge with an empty mask to every node, in index order.
RouterEdges == [i \in 1 .. BoxChars |-> [wordHash |-> {}, to |-> i - 1]]

\* node.outgoing, for the letters (in graph g) and for the router.
Outgoing(g, n) == IF n = Router THEN RouterEdges ELSE g[n]

EdgeAt(g, ref) == Outgoing(g, ref.node)[ref.pos]

\* The positions a subrange over node.outgoing can stand at, end included.
Positions(g, n) == 1 .. Len(Outgoing(g, n)) + 1

(***************************************************************************)
(* What build_graph guarantees of every graph: the mask of a word has the  *)
(* bit of its first letter (the node the edge leaves) and the bit of its   *)
(* last letter (the node the edge enters).                                 *)
(***************************************************************************)
WordGraph(g) ==
  /\ g \in [Node -> Seq(WordEdge)]
  /\ \A n \in Node : \A i \in 1 .. Len(g[n]) : {n, g[n][i].to} \subseteq g[n][i].wordHash

-----------------------------------------------------------------------------
(***************************************************************************)
(* Chains: sequences of edge references in which every edge leaves the     *)
(* node its predecessor enters.                                            *)
(***************************************************************************)
Refers(g, ref) == ref \in EdgeRef /\ ref.pos <= Len(Outgoing(g, ref.node))

Linked(g, p, k) == \A i \in 1 .. k - 1 : EdgeAt(g, p[i]).to = p[i + 1].node

\* The letters used by the first k edges of p.
PathHash(g, p, k) == UNION { EdgeAt(g, p[i]).wordHash : i \in 1 .. k }

WordRefs(g) == UNION { { [node |-> n, pos |-> i] : i \in 1 .. Len(g[n]) } : n \in Node }

\* Every chain of exactly k words that uses all letters of the box.
CoveringChains(g, k) ==
  { c \in [1 .. k -> WordRefs(g)] :
      Linked(g, c, k) /\ PathHash(g, c, k) = SolutionMask }

=============================================================================
