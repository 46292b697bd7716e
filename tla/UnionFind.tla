----------------------------- MODULE UnionFind -----------------------------
(***************************************************************************)
(* union_find: a forest over 0..Size-1.  find halves the paths it walks,   *)
(* although it is const; merge of two makes the larger root the parent,    *)
(* merge of a group hangs every root below that of its first member.       *)
(***************************************************************************)
EXTENDS Integers, FiniteSets, Sequences

CONSTANTS
  Size,    \* of the constructor
  Groups   \* groups that may be merged

Index == 0 .. Size - 1

UnionFindAssumption == Size \in Nat /\ Groups \subseteq Seq(Index)

VARIABLES
  forest,   \* _data: the parent and, for a root, the size of each index
  classes,  \* the partition that the merges ask for
  grouped   \* a group was merged

vars == <<forest, classes, grouped>>

IsRoot(f, x) == f[x].parent = x

\* One turn of find: x points to its grandparent, and that is the next x.
Halve(walk) ==
  LET grandparent == walk.forest[walk.forest[walk.at].parent].parent
  IN [forest |-> [walk.forest EXCEPT ![walk.at].parent = grandparent], at |-> grandparent]

\* Mutant: the walk ends after its first turn.
Find_OneTurn(f, x) == Halve([forest |-> f, at |-> x])

\* The loop body runs before the test, so at least once.
Find(f, x) ==
  LET walk[n \in 0 .. Size] ==
        IF n = 0 THEN Halve([forest |-> f, at |-> x])
        ELSE IF IsRoot(walk[n - 1].forest, walk[n - 1].at) THEN walk[n - 1]
        ELSE Halve(walk[n - 1])
  IN walk[Size]

Attach(f, child, parent) ==
  [f EXCEPT ![child].parent = parent, ![parent].size = @ + f[child].size]

\* The larger root is the parent.
Merge(f, lhs, rhs) ==
  LET left == Find(f, lhs)
      right == Find(left.forest, rhs)
  IN IF left.at = right.at THEN right.forest
     ELSE IF left.at < right.at THEN Attach(right.forest, left.at, right.at)
     ELSE Attach(right.forest, right.at, left.at)

Hang(f, node, root) ==
  LET found == Find(f, node)
  IN IF found.at = root THEN found.forest ELSE Attach(found.forest, found.at, root)

MergeGroup(f, group) ==
  LET first == Find(f, group[1])
      merged[k \in 0 .. Len(group)] ==
        IF k = 0 THEN first.forest ELSE Hang(merged[k - 1], group[k], first.at)
  IN IF group = <<>> THEN f ELSE merged[Len(group)]

AllOf(f, x) == { i \in Index : Find(f, i).at = Find(f, x).at }

\* all: the members of each group, in order.
All(f) == { AllOf(f, x) : x \in Index }

Roots(f) == { x \in Index : IsRoot(f, x) }

-----------------------------------------------------------------------------

Init ==
  /\ forest = [x \in Index |-> [parent |-> x, size |-> 1]]
  /\ classes = { {x} : x \in Index }
  /\ grouped = FALSE

\* The classes that the members lie in become one.
Join(members) ==
  LET met == { c \in classes : c \cap members # {} }
  IN classes' = (classes \ met) \cup (IF met = {} THEN {} ELSE {UNION met})

FindOne(x) ==
  /\ forest' = Find(forest, x).forest
  /\ UNCHANGED <<classes, grouped>>

MergeTwo(lhs, rhs) ==
  /\ forest' = Merge(forest, lhs, rhs)
  /\ Join({lhs, rhs})
  /\ UNCHANGED grouped

MergeAll(group) ==
  /\ forest' = MergeGroup(forest, group)
  /\ Join({ group[k] : k \in DOMAIN group })
  /\ grouped' = TRUE

Next ==
  \/ \E x \in Index : FindOne(x)
  \/ \E lhs, rhs \in Index : MergeTwo(lhs, rhs)
  \/ \E group \in Groups : MergeAll(group)

Spec == Init /\ [][Next]_vars

-----------------------------------------------------------------------------
(* Properties.                                                             *)

(***************************************************************************)
(* The groups are the classes of what was asked to be merged, whatever was *)
(* halved on the way; a group has one root, which knows its size.          *)
(***************************************************************************)
GroupsExact ==
  /\ All(forest) = classes
  /\ \A x \in Index :
       /\ Cardinality(AllOf(forest, x) \cap Roots(forest)) = 1
       /\ forest[Find(forest, x).at].size = Cardinality(AllOf(forest, x))

(***************************************************************************)
(* operator== compares the roots of each index.  As long as only pairs     *)
(* were merged a root is the largest of its group, so equal partitions are *)
(* equal objects in whatever order they came about; merging a group gives  *)
(* that up.                                                                *)
(***************************************************************************)
EqualityCanonical ==
  ~grouped => \A x \in Index : \A y \in AllOf(forest, x) : y <= Find(forest, x).at
=============================================================================
