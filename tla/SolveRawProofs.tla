--------------------------- MODULE SolveRawProofs ---------------------------
(***************************************************************************)
(* Proofs about SolveRaw, for boxes, word graphs and settings of any size. *)
(***************************************************************************)
EXTENDS SolveRaw, TLAPS

\* Every vector of edges, the router's included, holds word edges.
LEMMA OutgoingType ==
  ASSUME NEW g, WordGraph(g), NEW n \in Place
  PROVE  Outgoing(g, n) \in Seq(WordEdge)
<1>1. CASE n = Router
  <2>1. \A i \in 1 .. BoxChars : RouterEdges[i] \in WordEdge
    BY BoxCharsAssumption DEF RouterEdges, WordEdge, Node
  <2>2. RouterEdges \in [1 .. BoxChars -> WordEdge]
    BY <2>1 DEF RouterEdges
  <2>3. RouterEdges \in Seq(WordEdge)
    BY <2>2, BoxCharsAssumption
  <2> QED BY <1>1, <2>3 DEF Outgoing
<1>2. CASE n # Router
  BY <1>2 DEF Outgoing, WordGraph, Place
<1> QED BY <1>1, <1>2

\* An edge that is referred to is a word edge.
LEMMA EdgeAtType ==
  ASSUME NEW g, WordGraph(g), NEW ref, Refers(g, ref)
  PROVE  /\ EdgeAt(g, ref) \in WordEdge
         /\ EdgeAt(g, ref).to \in Node
         /\ EdgeAt(g, ref).wordHash \in SUBSET Node
<1>1. ref \in EdgeRef /\ ref.node \in Place /\ ref.pos \in Nat \ {0}
  BY DEF Refers, EdgeRef
<1>2. Outgoing(g, ref.node) \in Seq(WordEdge)
  BY <1>1, OutgoingType
<1>3. ref.pos \in 1 .. Len(Outgoing(g, ref.node))
  BY <1>1, <1>2 DEF Refers
<1>4. EdgeAt(g, ref) \in WordEdge
  BY <1>2, <1>3 DEF EdgeAt
<1> QED BY <1>4 DEF WordEdge

\* The letters of a longer path: those of its first edges and of its last.
LEMMA PathHashExtends ==
  ASSUME NEW g, NEW p, NEW k \in Nat
  PROVE  PathHash(g, p, k + 1) = PathHash(g, p, k) \cup EdgeAt(g, p[k + 1]).wordHash
<1>1. 1 .. k + 1 = (1 .. k) \cup {k + 1}
  OBVIOUS
<1> QED BY <1>1, Zenon DEF PathHash

\* The letters of the first edges depend on these edges only.
LEMMA PathHashDepends ==
  ASSUME NEW g, NEW p, NEW q, NEW k \in Nat,
         \A i \in 1 .. k : p[i] = q[i]
  PROVE  PathHash(g, p, k) = PathHash(g, q, k)
BY DEF PathHash

LEMMA PathHashEmpty ==
  ASSUME NEW g, NEW p
  PROVE  PathHash(g, p, 0) = {}
<1>1. 1 .. 0 = {}
  OBVIOUS
<1> QED BY <1>1, Zenon DEF PathHash

-----------------------------------------------------------------------------
\* A sequence without its last element, and with its last element advanced.
LEMMA FrontType ==
  ASSUME NEW S, NEW s \in Seq(S), Len(s) > 1
  PROVE  /\ SubSeq(s, 1, Len(s) - 1) \in Seq(S)
         /\ Len(SubSeq(s, 1, Len(s) - 1)) = Len(s) - 1
         /\ \A i \in 1 .. Len(s) - 1 : SubSeq(s, 1, Len(s) - 1)[i] = s[i]
OBVIOUS

LEMMA AppendType ==
  ASSUME NEW S, NEW s \in Seq(S), NEW e \in S
  PROVE  /\ Append(s, e) \in Seq(S)
         /\ Len(Append(s, e)) = Len(s) + 1
         /\ Append(s, e)[Len(s) + 1] = e
         /\ \A i \in 1 .. Len(s) : Append(s, e)[i] = s[i]
OBVIOUS

LEMMA AdvancedType ==
  ASSUME NEW s \in Seq(EdgeRef), Len(s) > 0
  PROVE  /\ Advanced(s) \in Seq(EdgeRef)
         /\ Len(Advanced(s)) = Len(s)
         /\ \A i \in 1 .. Len(s) - 1 : Advanced(s)[i] = s[i]
         /\ Advanced(s)[Len(s)].node = s[Len(s)].node
         /\ Advanced(s)[Len(s)].pos = s[Len(s)].pos + 1
<1>1. s[Len(s)] \in EdgeRef
  OBVIOUS
<1>2. [s[Len(s)] EXCEPT !.pos = @ + 1] = [node |-> s[Len(s)].node, pos |-> s[Len(s)].pos + 1]
  BY <1>1 DEF EdgeRef
<1>3. [s[Len(s)] EXCEPT !.pos = @ + 1] \in EdgeRef
  BY <1>1, <1>2 DEF EdgeRef
<1>4. Advanced(s) = [s EXCEPT ![Len(s)] = [s[Len(s)] EXCEPT !.pos = @ + 1]]
  BY DEF Advanced
<1>5. Advanced(s) \in Seq(EdgeRef) /\ Len(Advanced(s)) = Len(s)
  BY <1>3, <1>4
<1>6. \A i \in 1 .. Len(s) - 1 : Advanced(s)[i] = s[i]
  BY <1>4
<1>7. Advanced(s)[Len(s)] = [node |-> s[Len(s)].node, pos |-> s[Len(s)].pos + 1]
  BY <1>2, <1>4
<1> QED BY <1>5, <1>6, <1>7

-----------------------------------------------------------------------------
\* What a turn of the loop can rely on: the top of the stack is a position in
\* an existing vector and, unless it is the end, an edge.
LEMMA TopFacts ==
  ASSUME TypeOK, StacksAgree, pc = "dfs"
  PROVE  /\ WordGraph(outgoing)
         /\ Len(stack) \in Nat \ {0} /\ Len(states) = Len(stack)
         /\ depth \in Nat
         /\ Top \in EdgeRef /\ Top = stack[Len(stack)]
         /\ Outgoing(outgoing, Top.node) \in Seq(WordEdge)
         /\ states[Len(states)] \in SUBSET Node
         /\ states[Len(states)] = PathHash(outgoing, stack, Len(stack) - 1)
         /\ ~AtEnd => /\ Refers(outgoing, Top)
                      /\ NextEdge \in WordEdge
                      /\ NextEdge.to \in Node /\ NextEdge.wordHash \in SUBSET Node
                      /\ ExtendedHash \in SUBSET Node
                      /\ ExtendedHash = PathHash(outgoing, stack, Len(stack))
<1>1. WordGraph(outgoing)
  BY GraphsAssumption DEF TypeOK
<1>2. Len(stack) \in Nat \ {0} /\ Len(states) = Len(stack) /\ depth \in Nat
  BY SettingsAssumption DEF StacksAgree, FirstDepth, TypeOK
<1>3. Top \in EdgeRef /\ Top = stack[Len(stack)]
  BY <1>2 DEF TypeOK, Top
<1>4. Outgoing(outgoing, Top.node) \in Seq(WordEdge)
  BY <1>1, <1>3, OutgoingType DEF EdgeRef
<1>5. states[Len(states)] \in SUBSET Node
  BY <1>2 DEF TypeOK
<1>6. states[Len(states)] = PathHash(outgoing, stack, Len(stack) - 1)
  BY <1>2 DEF StacksAgree
<1>7. ASSUME ~AtEnd
      PROVE  /\ Refers(outgoing, Top)
             /\ NextEdge \in WordEdge
             /\ NextEdge.to \in Node /\ NextEdge.wordHash \in SUBSET Node
             /\ ExtendedHash \in SUBSET Node
             /\ ExtendedHash = PathHash(outgoing, stack, Len(stack))
  <2>1. Top.pos \in Nat /\ Len(Outgoing(outgoing, Top.node)) \in Nat
    BY <1>3, <1>4 DEF EdgeRef
  <2>2. Refers(outgoing, Top)
    BY <1>3, <1>7, <2>1 DEF Refers, AtEnd
  <2>3. /\ NextEdge \in WordEdge
        /\ NextEdge.to \in Node /\ NextEdge.wordHash \in SUBSET Node
    BY <1>1, <2>2, EdgeAtType DEF NextEdge
  <2>4. ExtendedHash \in SUBSET Node
    BY <1>5, <2>3 DEF ExtendedHash
  <2>5. PathHash(outgoing, stack, (Len(stack) - 1) + 1)
          = PathHash(outgoing, stack, Len(stack) - 1)
              \cup EdgeAt(outgoing, stack[(Len(stack) - 1) + 1]).wordHash
    <3>1. Len(stack) - 1 \in Nat
      BY <1>2
    <3> QED BY ONLY <3>1, PathHashExtends
  <2>6. (Len(stack) - 1) + 1 = Len(stack)
    BY <1>2
  <2>7. ExtendedHash = PathHash(outgoing, stack, Len(stack))
    BY <1>3, <1>6, <2>5, <2>6 DEF ExtendedHash, NextEdge
  <2> QED BY <2>2, <2>3, <2>4, <2>7
<1> QED BY <1>1, <1>2, <1>3, <1>4, <1>5, <1>6, <1>7

\* Once the next edge is written, the path up to the level of the stack is
\* where the stack stands: the callback and a report see exactly the stack.
LEMMA PathFollowsStack ==
  ASSUME TypeOK, StacksAgree, pc = "dfs"
  PROVE  /\ PathWithTop \in Seq(EdgeRef)
         /\ Len(PathWithTop) >= Len(stack)
         /\ \A i \in 1 .. Len(stack) : PathWithTop[i] = stack[i]
         /\ PathView = stack
<1> DEFINE n == IF Len(path) < Len(stack) THEN Len(path) + 1 ELSE Len(path)
<1>1. /\ Len(path) \in Nat /\ Len(stack) \in Nat \ {0} /\ Len(path) >= Len(stack) - 1
      /\ path \in Seq(EdgeRef) /\ stack \in Seq(EdgeRef)
      /\ \A i \in 1 .. Len(stack) - 1 : path[i] = stack[i]
  BY TopFacts DEF TypeOK, StacksAgree
<1>2. n \in Nat /\ n >= Len(stack)
  BY <1>1
<1>3. \A i \in 1 .. n : i = Len(stack) \/ i \in 1 .. Len(path)
  BY <1>1
<1>4. \A i \in 1 .. n : (IF i = Len(stack) THEN Top ELSE path[i]) \in EdgeRef
  BY <1>1, <1>3, TopFacts
<1>5. PathWithTop \in [1 .. n -> EdgeRef]
  BY <1>4 DEF PathWithTop
<1>6. PathWithTop \in Seq(EdgeRef) /\ Len(PathWithTop) = n
  BY <1>2, <1>5
<1>7. ASSUME NEW i \in 1 .. Len(stack)
      PROVE  PathWithTop[i] = stack[i]
  <2>1. i \in 1 .. n
    BY <1>1, <1>2
  <2>2. PathWithTop[i] = IF i = Len(stack) THEN Top ELSE path[i]
    BY <2>1 DEF PathWithTop
  <2> QED BY <1>1, <2>2, TopFacts
<1>8. PathView \in Seq(EdgeRef) /\ Len(PathView) = Len(stack)
      /\ \A i \in 1 .. Len(stack) : PathView[i] = PathWithTop[i]
  BY <1>1, <1>2, <1>6 DEF PathView
<1>9. PathView = stack
  BY <1>1, <1>7, <1>8
<1> QED BY <1>2, <1>6, <1>7, <1>9

-----------------------------------------------------------------------------
\* The three ways the stacks of dfs move keep them in agreement.
LEMMA PushStep ==
  ASSUME TypeOK, StacksAgree, TakeEdge, Len(stack) < depth,
         NEW hash, hash = PathHash(outgoing, stack, Len(stack)), Push(hash)
  PROVE  /\ StacksAgree'
         /\ stack' \in Seq(EdgeRef) /\ states' \in Seq(SUBSET Node) /\ path' \in Seq(EdgeRef)
<1> DEFINE n == Len(stack)
           new == [node |-> NextEdge.to, pos |-> 1]
<1>1. /\ pc = "dfs" /\ ~AtEnd /\ path' = PathWithTop /\ UNCHANGED <<outgoing, pc, depth>>
      /\ stack' = Append(stack, new) /\ states' = Append(states, hash)
  BY DEF TakeEdge, Push
<1>2. /\ n \in Nat \ {0} /\ Len(states) = n /\ depth \in Nat
      /\ NextEdge.to \in Node /\ Refers(outgoing, Top) /\ Top = stack[n]
      /\ WordGraph(outgoing) /\ NextEdge = EdgeAt(outgoing, stack[n])
      /\ hash = ExtendedHash /\ hash \in SUBSET Node
  BY <1>1, TopFacts DEF NextEdge
<1>3. new \in EdgeRef /\ new.node \in Place
  BY <1>2 DEF EdgeRef, Place
<1>4. /\ stack \in Seq(EdgeRef) /\ states \in Seq(SUBSET Node)
  BY DEF TypeOK
<1>5. /\ stack' \in Seq(EdgeRef) /\ Len(stack') = n + 1
      /\ stack'[n + 1] = new /\ \A i \in 1 .. n : stack'[i] = stack[i]
  BY <1>1, <1>2, <1>3, <1>4
<1>6. /\ states' \in Seq(SUBSET Node) /\ Len(states') = n + 1
      /\ states'[n + 1] = hash /\ \A i \in 1 .. n : states'[i] = states[i]
  BY <1>1, <1>2, <1>4
<1>7. /\ path' \in Seq(EdgeRef) /\ Len(path') >= n
      /\ \A i \in 1 .. n : path'[i] = stack[i]
  BY <1>1, PathFollowsStack
<1>8. Top' = new
  BY <1>2, <1>5 DEF Top
<1>9. Top'.pos \in Positions(outgoing, Top'.node)
  <2>1. Outgoing(outgoing, new.node) \in Seq(WordEdge)
    BY <1>2, <1>3, OutgoingType
  <2>2. 1 \in Positions(outgoing, new.node)
    BY <2>1 DEF Positions
  <2> QED BY <1>8, <2>2
<1>10. \A i \in 1 .. (n + 1) - 1 :
         /\ path'[i] = stack'[i]
         /\ Refers(outgoing, stack'[i])
         /\ stack'[i + 1].node = EdgeAt(outgoing, stack'[i]).to
  <2> SUFFICES ASSUME NEW i \in 1 .. n
               PROVE  /\ path'[i] = stack'[i]
                      /\ Refers(outgoing, stack'[i])
                      /\ stack'[i + 1].node = EdgeAt(outgoing, stack'[i]).to
    BY <1>2
  <2>1. CASE i = n
    BY <1>2, <1>5, <1>7, <2>1
  <2>2. CASE i # n
    <3>1. i \in 1 .. Len(stack) - 1 /\ i + 1 \in 1 .. n
      BY <1>2, <2>2
    <3> QED BY <1>1, <1>5, <1>7, <3>1 DEF StacksAgree
  <2> QED BY <2>1, <2>2
<1>11. ASSUME NEW i \in 1 .. n + 1
       PROVE  states'[i] = PathHash(outgoing, stack', i - 1)
  <2>1. i - 1 \in Nat /\ \A j \in 1 .. i - 1 : stack'[j] = stack[j]
    BY <1>2, <1>5
  <2>2. PathHash(outgoing, stack', i - 1) = PathHash(outgoing, stack, i - 1)
    BY <2>1, PathHashDepends
  <2>3. CASE i = n + 1
    <3>1. i - 1 = n
      BY <1>2, <2>3
    <3> QED BY <1>2, <1>6, <2>2, <2>3, <3>1
  <2>4. CASE i # n + 1
    <3>1. i \in 1 .. n /\ i \in 1 .. Len(states)
      BY <1>2, <2>4
    <3> QED BY <1>1, <1>6, <2>2, <3>1 DEF StacksAgree
  <2> QED BY <2>3, <2>4
<1>12. /\ depth \in FirstDepth .. MaxSearchSize + 1
       /\ Len(stack') \in 1 .. depth
       /\ stack'[1].node = Router
  BY <1>1, <1>2, <1>5 DEF StacksAgree
<1>13. StacksAgree'
  BY <1>1, <1>2, <1>5, <1>6, <1>7, <1>9, <1>10, <1>11, <1>12 DEF StacksAgree, FirstDepth
<1> QED BY <1>5, <1>6, <1>7, <1>13

LEMMA PruneStep ==
  ASSUME TypeOK, StacksAgree, TakeEdge, Prune
  PROVE  /\ StacksAgree'
         /\ stack' \in Seq(EdgeRef) /\ states' \in Seq(SUBSET Node) /\ path' \in Seq(EdgeRef)
<1> DEFINE n == Len(stack)
<1>1. /\ pc = "dfs" /\ ~AtEnd /\ path' = PathWithTop /\ UNCHANGED <<outgoing, pc, depth>>
      /\ stack' = Advanced(stack) /\ states' = states
  BY DEF TakeEdge, Prune
<1>2. /\ n \in Nat \ {0} /\ Len(states) = n /\ Refers(outgoing, Top) /\ Top = stack[n]
      /\ Top \in EdgeRef /\ Outgoing(outgoing, Top.node) \in Seq(WordEdge)
  BY <1>1, TopFacts
<1>3. stack \in Seq(EdgeRef) /\ states \in Seq(SUBSET Node)
  BY DEF TypeOK
<1>4. /\ stack' \in Seq(EdgeRef) /\ Len(stack') = n
      /\ \A i \in 1 .. n - 1 : stack'[i] = stack[i]
      /\ stack'[n].node = Top.node /\ stack'[n].pos = Top.pos + 1
  BY <1>1, <1>2, <1>3, AdvancedType
<1>5. /\ path' \in Seq(EdgeRef) /\ Len(path') >= n
      /\ \A i \in 1 .. n : path'[i] = stack[i]
  BY <1>1, PathFollowsStack
<1>6. Top'.node = Top.node /\ Top'.pos = Top.pos + 1
  BY <1>4 DEF Top
<1>7. Top'.pos \in Positions(outgoing, Top'.node)
  <2>1. Top.pos \in 1 .. Len(Outgoing(outgoing, Top.node))
    BY <1>2 DEF Refers, EdgeRef
  <2> QED BY <1>2, <1>6, <2>1 DEF Positions
<1>8. \A i \in 1 .. n : stack'[i].node = stack[i].node
  <2>1. \A i \in 1 .. n : i = n \/ i \in 1 .. n - 1
    BY <1>2
  <2> QED BY <1>2, <1>4, <2>1
<1>9. \A i \in 1 .. n - 1 :
         /\ path'[i] = stack'[i]
         /\ Refers(outgoing, stack'[i])
         /\ stack'[i + 1].node = EdgeAt(outgoing, stack'[i]).to
  <2> SUFFICES ASSUME NEW i \in 1 .. n - 1
               PROVE  /\ path'[i] = stack'[i]
                      /\ Refers(outgoing, stack'[i])
                      /\ stack'[i + 1].node = EdgeAt(outgoing, stack'[i]).to
    OBVIOUS
  <2>1. i \in 1 .. n /\ i + 1 \in 1 .. n
    BY <1>2
  <2>2. stack[i + 1].node = EdgeAt(outgoing, stack[i]).to /\ Refers(outgoing, stack[i])
    BY <1>1 DEF StacksAgree
  <2> QED BY <1>4, <1>5, <1>8, <2>1, <2>2
<1>10. ASSUME NEW i \in 1 .. n
       PROVE  states'[i] = PathHash(outgoing, stack', i - 1)
  <2>1. i - 1 \in Nat /\ \A j \in 1 .. i - 1 : stack'[j] = stack[j]
    BY <1>2, <1>4
  <2>2. PathHash(outgoing, stack', i - 1) = PathHash(outgoing, stack, i - 1)
    BY <2>1, PathHashDepends
  <2> QED BY <1>1, <1>2, <2>2 DEF StacksAgree
<1>11. /\ depth \in FirstDepth .. MaxSearchSize + 1
       /\ Len(stack') \in 1 .. depth
       /\ stack'[1].node = Router
  BY <1>1, <1>2, <1>4, <1>8 DEF StacksAgree
<1>12. StacksAgree'
  <2>1. Len(states') = Len(stack') /\ Len(path') >= Len(stack') - 1
    BY <1>1, <1>2, <1>4, <1>5
  <2>2. Len(states') = n
    BY <1>1, <1>2
  <2> QED BY <1>1, <1>4, <1>7, <1>9, <1>10, <1>11, <2>1, <2>2 DEF StacksAgree, FirstDepth
<1> QED BY <1>1, <1>3, <1>4, <1>5, <1>12

LEMMA BacktrackStep ==
  ASSUME TypeOK, StacksAgree, Backtrack
  PROVE  /\ StacksAgree'
         /\ stack' \in Seq(EdgeRef) /\ states' \in Seq(SUBSET Node)
<1> DEFINE n == Len(stack) - 1
           front == SubSeq(stack, 1, n)
<1>1. /\ pc = "dfs" /\ UNCHANGED <<outgoing, pc, depth, path>> /\ Len(stack) > 1
      /\ stack' = Advanced(front) /\ states' = SubSeq(states, 1, Len(states) - 1)
  BY DEF Backtrack
<1>2. /\ Len(stack) \in Nat /\ n \in Nat \ {0} /\ Len(stack) = n + 1 /\ Len(states) = n + 1
      /\ stack \in Seq(EdgeRef) /\ states \in Seq(SUBSET Node)
      /\ WordGraph(outgoing)
  BY <1>1, TopFacts DEF TypeOK
<1>3. /\ front \in Seq(EdgeRef) /\ Len(front) = n
      /\ \A i \in 1 .. n : front[i] = stack[i]
  BY <1>1, <1>2, FrontType
<1>4. /\ states' \in Seq(SUBSET Node) /\ Len(states') = n
      /\ \A i \in 1 .. n : states'[i] = states[i]
  <2>1. Len(states) > 1 /\ Len(states) - 1 = n
    BY <1>2
  <2> QED BY <1>1, <1>2, <2>1, FrontType
<1>5. /\ stack' \in Seq(EdgeRef) /\ Len(stack') = n
      /\ \A i \in 1 .. n - 1 : stack'[i] = stack[i]
      /\ stack'[n].node = stack[n].node /\ stack'[n].pos = stack[n].pos + 1
  <2>1. n > 0 /\ n \in 1 .. n /\ \A i \in 1 .. n - 1 : i \in 1 .. n
    BY <1>2
  <2>2. /\ Advanced(front) \in Seq(EdgeRef)
        /\ Len(Advanced(front)) = n
        /\ \A i \in 1 .. n - 1 : Advanced(front)[i] = front[i]
        /\ Advanced(front)[n].node = front[n].node
        /\ Advanced(front)[n].pos = front[n].pos + 1
    <3>1. front \in Seq(EdgeRef) /\ Len(front) = n /\ Len(front) > 0
      BY <1>3, <2>1
    <3> HIDE DEF front, n
    <3> QED BY <3>1, AdvancedType
  <2> QED BY <1>1, <1>3, <2>1, <2>2
<1>6. Top' = stack'[n]
  BY <1>5 DEF Top
<1>7. \A i \in 1 .. n : /\ path[i] = stack[i]
                        /\ Refers(outgoing, stack[i])
                        /\ stack[i + 1].node = EdgeAt(outgoing, stack[i]).to
  BY <1>1, <1>2 DEF StacksAgree
<1>8. Top'.pos \in Positions(outgoing, Top'.node)
  <2>1. n \in 1 .. n /\ stack[n] \in EdgeRef
    <3>1. n \in 1 .. Len(stack)
      BY <1>2
    <3> QED BY <1>2, <3>1
  <2>2. Refers(outgoing, stack[n])
    BY <1>7, <2>1
  <2>3. Outgoing(outgoing, stack[n].node) \in Seq(WordEdge)
    BY <1>2, <2>1, OutgoingType DEF EdgeRef
  <2>4. stack[n].pos \in 1 .. Len(Outgoing(outgoing, stack[n].node))
    BY <2>1, <2>2, <2>3 DEF Refers, EdgeRef
  <2> QED BY <1>5, <1>6, <2>3, <2>4 DEF Positions
<1>9. \A i \in 1 .. n : stack'[i].node = stack[i].node
  <2>1. \A i \in 1 .. n : i = n \/ i \in 1 .. n - 1
    <3>1. n \in Nat
      BY <1>2
    <3> HIDE DEF n
    <3> QED BY <3>1
  <2> QED BY <1>5, <2>1
<1>10. \A i \in 1 .. n - 1 :
         /\ path'[i] = stack'[i]
         /\ Refers(outgoing, stack'[i])
         /\ stack'[i + 1].node = EdgeAt(outgoing, stack'[i]).to
  <2> SUFFICES ASSUME NEW i \in 1 .. n - 1
               PROVE  /\ path'[i] = stack'[i]
                      /\ Refers(outgoing, stack'[i])
                      /\ stack'[i + 1].node = EdgeAt(outgoing, stack'[i]).to
    OBVIOUS
  <2>1. i \in 1 .. n /\ i + 1 \in 1 .. n
    BY <1>2
  <2> QED BY <1>1, <1>5, <1>7, <1>9, <2>1
<1>11. ASSUME NEW i \in 1 .. n
       PROVE  states'[i] = PathHash(outgoing, stack', i - 1)
  <2>1. i - 1 \in Nat /\ \A j \in 1 .. i - 1 : stack'[j] = stack[j]
    BY <1>2, <1>5
  <2>2. PathHash(outgoing, stack', i - 1) = PathHash(outgoing, stack, i - 1)
    BY <2>1, PathHashDepends
  <2>3. i \in 1 .. Len(states)
    BY <1>2
  <2> QED BY <1>1, <1>4, <2>2, <2>3 DEF StacksAgree
<1>12. /\ depth \in FirstDepth .. MaxSearchSize + 1
       /\ Len(stack') \in 1 .. depth
       /\ stack'[1].node = Router
       /\ Len(path') >= n
  BY <1>1, <1>2, <1>5, <1>9 DEF StacksAgree
<1>13. StacksAgree'
  <2>1. Len(states') = Len(stack') /\ Len(path') >= Len(stack') - 1
    BY <1>2, <1>4, <1>5, <1>12
  <2> QED BY <1>1, <1>4, <1>5, <1>8, <1>10, <1>11, <1>12, <2>1 DEF StacksAgree, FirstDepth
<1> QED BY <1>4, <1>5, <1>13

\* A fresh call of dfs starts with stacks that agree.
LEMMA CallDfsStep ==
  ASSUME TypeOK, CallDfs, outgoing' = outgoing,
         depth' \in FirstDepth .. MaxSearchSize + 1
  PROVE  /\ StacksAgree'
         /\ stack' \in Seq(EdgeRef) /\ states' \in Seq(SUBSET Node) /\ path' \in Seq(EdgeRef)
<1> DEFINE e == [node |-> Router, pos |-> 1]
<1>1. stack' = <<e>> /\ states' = << {} >> /\ path' = <<>> /\ e \in EdgeRef
  BY DEF CallDfs, EdgeRef, Place
<1>2. /\ stack' \in Seq(EdgeRef) /\ Len(stack') = 1 /\ stack'[1] = e
      /\ states' \in Seq(SUBSET Node) /\ Len(states') = 1 /\ states'[1] = {}
      /\ path' \in Seq(EdgeRef) /\ Len(path') = 0
  BY <1>1
<1>3. Top' = e
  BY <1>2 DEF Top
<1>4. Top'.pos \in Positions(outgoing, Top'.node)
  <2>1. WordGraph(outgoing) /\ Router \in Place
    BY GraphsAssumption DEF TypeOK, Place
  <2>2. Outgoing(outgoing, Router) \in Seq(WordEdge)
    BY <2>1, OutgoingType
  <2> QED BY <1>3, <2>2 DEF Positions
<1>5. ASSUME NEW i \in 1 .. 1 PROVE states'[i] = PathHash(outgoing, stack', i - 1)
  <2>1. i = 1 /\ i - 1 = 0
    OBVIOUS
  <2> QED BY <1>2, <2>1, PathHashEmpty
<1>6. 1 \in 1 .. depth'
  BY SettingsAssumption DEF FirstDepth
<1>7. StacksAgree'
  BY <1>2, <1>4, <1>5, <1>6 DEF StacksAgree, FirstDepth
<1> QED BY <1>2, <1>7

-----------------------------------------------------------------------------
(***************************************************************************)
(* TypeOK alone is not inductive: that the top of the stack is an edge     *)
(* when the callback is called, and that a path fits into the uint8_t of a *)
(* cache entry, follow from StacksAgree.  The two are proved together.     *)
(***************************************************************************)
Inv == TypeOK /\ StacksAgree

LEMMA InvInit == Init => Inv
<1> SUFFICES ASSUME Init PROVE Inv
  OBVIOUS
<1>1. cache \in [CacheKey -> Entry]
  <2>1. [ceiling |-> NotReached, created |-> 0] \in Entry
    BY DEF Entry, NotReached
  <2> QED BY <2>1 DEF Init, InitSearch
<1>2. TypeOK
  BY <1>1, SettingsAssumption DEF Init, InitSearch, TypeOK
<1>3. StacksAgree
  BY DEF Init, InitSearch, StacksAgree
<1> QED BY <1>2, <1>3 DEF Inv

\* A compressed mask has one bit less.
LEMMA DeleteBitType ==
  ASSUME NEW k \in Node, NEW m \in SUBSET Node
  PROVE  DeleteBit(m, k) \in SUBSET (0 .. BoxChars - 2)
<1>1. \A b \in m : b \in 0 .. BoxChars - 1
  BY DEF Node
<1>2. k \in 0 .. BoxChars - 1
  BY DEF Node
<1>3. \A b \in 0 .. BoxChars - 1 : /\ b < k => b \in 0 .. BoxChars - 2
                                   /\ b > k => b - 1 \in 0 .. BoxChars - 2
  BY <1>2, BoxCharsAssumption
<1> QED BY <1>1, <1>3 DEF DeleteBit

\* A mask with the deleted bit can be told from what delete_bit left of it.
LEMMA DeleteBitBack ==
  ASSUME NEW k \in Node, NEW m \in SUBSET Node, NEW b \in Node
  PROVE  /\ b < k => (b \in m <=> b \in DeleteBit(m, k))
         /\ b > k => (b \in m <=> b - 1 \in DeleteBit(m, k))
<1>1. k \in Nat /\ b \in Nat /\ \A c \in m : c \in Nat
  BY DEF Node
<1>2. \A c \in m : c > k => c - 1 >= k
  BY <1>1
<1>3. \A c \in m : c > k /\ c - 1 = b - 1 => c = b
  BY <1>1
<1>4. ASSUME b < k PROVE b \in m <=> b \in DeleteBit(m, k)
  <2>1. \A c \in m : c > k => c - 1 # b
    BY <1>1, <1>2, <1>4
  <2> QED BY <1>4, <2>1 DEF DeleteBit
<1>5. ASSUME b > k PROVE b \in m <=> b - 1 \in DeleteBit(m, k)
  <2>1. ~(b - 1 < k)
    BY <1>1, <1>5
  <2> QED BY <1>3, <1>5, <2>1 DEF DeleteBit
<1> QED BY <1>4, <1>5

LEMMA DeleteBitInjective ==
  ASSUME NEW k \in Node, NEW m \in SUBSET Node, NEW n \in SUBSET Node,
         k \in m, k \in n, DeleteBit(m, k) = DeleteBit(n, k)
  PROVE  m = n
<1>1. ASSUME NEW b \in Node PROVE b \in m <=> b \in n
  <2>1. b = k \/ b < k \/ b > k
    BY DEF Node
  <2> QED BY <2>1, DeleteBitBack
<1> QED BY <1>1

\* The cache entry written by CacheExpand is in range.
LEMMA CacheType ==
  ASSUME Inv, CacheExpand
  PROVE  /\ cache' \in [CacheKey -> Entry]
         /\ NextKey \in CacheKey
         /\ cache' = [cache EXCEPT ![NextKey] = [ceiling |-> PathSize, created |-> depth]]
<1>1. pc = "dfs" /\ ~AtEnd
  BY DEF CacheExpand, LookUp, TakeEdge
<1>2. NextEdge.to \in Node /\ ExtendedHash \in SUBSET Node
  BY <1>1, TopFacts DEF Inv
<1>3. NextKey \in CacheKey
  BY <1>2, DeleteBitType DEF NextKey, KeyOf, CacheKey
<1>4. Len(stack) \in 0 .. NotReached /\ depth \in 0 .. NotReached
  <2> DEFINE n == Len(stack)
  <2>1. /\ depth \in MinSolutionSize + 1 .. MaxSearchSize + 1
        /\ n \in 1 .. depth /\ n \in Nat /\ depth \in Nat
    BY <1>1, TopFacts DEF Inv, StacksAgree, FirstDepth
  <2>2. MinSolutionSize \in Nat /\ MaxSearchSize \in Nat /\ MaxSearchSize + 1 < 255
    BY SettingsAssumption, CacheAssumption DEF NotReached
  <2>3. NotReached = 255
    BY DEF NotReached
  <2>4. depth \in 0 .. 255
    BY <2>1, <2>2
  <2>5. n \in 0 .. 255
    <3> HIDE DEF n
    <3> QED BY <2>1, <2>4
  <2> QED BY <2>3, <2>4, <2>5
<1>5. [ceiling |-> PathSize, created |-> depth] \in Entry
  BY <1>4 DEF PathSize, Entry
<1> QED BY <1>3, <1>5 DEF CacheExpand, Inv, TypeOK

LEMMA InvNext == Inv /\ [Next]_vars => Inv'
<1> SUFFICES ASSUME Inv, [Next]_vars PROVE Inv'
  OBVIOUS
<1> USE DEF Inv
<1>1. CASE EarlyTerminate
  <2>1. TypeOK'
    BY <1>1, SettingsAssumption DEF EarlyTerminate, TypeOK, dfsVars
  <2> QED BY <1>1, <2>1 DEF EarlyTerminate, StacksAgree
<1>2. CASE StartSearch
  <2>1. CallDfs /\ depth' = FirstDepth /\ pc' = "dfs" /\ UNCHANGED <<outgoing, cache, solutions>>
    BY <1>2 DEF StartSearch
  <2>2. depth' \in FirstDepth .. MaxSearchSize + 1 /\ depth' \in 0 .. MaxSearchSize + 2
    BY <2>1, SettingsAssumption DEF FirstDepth
  <2>3. /\ StacksAgree'
        /\ stack' \in Seq(EdgeRef) /\ states' \in Seq(SUBSET Node) /\ path' \in Seq(EdgeRef)
    BY <2>1, <2>2, CallDfsStep
  <2> QED BY <2>1, <2>2, <2>3 DEF TypeOK
<1>3. CASE StopDfs
  <2>1. pc = "dfs" /\ pc' = "done" /\ depth' = depth + 1
        /\ UNCHANGED <<outgoing, dfsVars, cache, solutions>>
    BY <1>3 DEF StopDfs
  <2>2. depth' \in 0 .. MaxSearchSize + 2
    BY <2>1, SettingsAssumption DEF StacksAgree, FirstDepth
  <2> QED BY <2>1, <2>2 DEF TypeOK, StacksAgree, dfsVars
<1>4. CASE NextDepth
  <2>1. pc = "dfs" /\ depth' = depth + 1 /\ MoreDepths /\ CallDfs
        /\ UNCHANGED <<outgoing, pc, cache, solutions>>
    BY <1>4 DEF NextDepth, FinishDfs
  <2>2. depth' \in FirstDepth .. MaxSearchSize + 1 /\ depth' \in 0 .. MaxSearchSize + 2
    BY <2>1, SettingsAssumption DEF StacksAgree, FirstDepth, MoreDepths
  <2>3. /\ StacksAgree'
        /\ stack' \in Seq(EdgeRef) /\ states' \in Seq(SUBSET Node) /\ path' \in Seq(EdgeRef)
    BY <2>1, <2>2, CallDfsStep
  <2> QED BY <2>1, <2>2, <2>3 DEF TypeOK
<1>5. CASE LastDepth
  <2>1. pc = "dfs" /\ pc' = "done" /\ depth' = depth + 1
        /\ UNCHANGED <<outgoing, dfsVars, cache, solutions>>
    BY <1>5 DEF LastDepth, FinishDfs
  <2>2. depth' \in 0 .. MaxSearchSize + 2
    BY <2>1, SettingsAssumption DEF StacksAgree, FirstDepth
  <2> QED BY <2>1, <2>2 DEF TypeOK, StacksAgree, dfsVars
<1>6. CASE Backtrack
  <2>1. UNCHANGED <<outgoing, pc, depth, path, cache, solutions>>
    BY <1>6 DEF Backtrack
  <2> QED BY <1>6, <2>1, BacktrackStep DEF TypeOK
<1>7. CASE EnterBox
  <2>1. TakeEdge /\ Push({}) /\ Len(stack) <= 1 /\ UNCHANGED <<outgoing, pc, depth, cache, solutions>>
    BY <1>7 DEF EnterBox, PathSize, TakeEdge
  <2>2. pc = "dfs" /\ ~AtEnd
    BY <2>1 DEF TakeEdge
  <2>3. Len(stack) = 1 /\ Top = stack[1] /\ Refers(outgoing, Top)
    BY <2>1, <2>2, TopFacts
  <2>4. Len(stack) < depth
    BY <2>2, <2>3, SettingsAssumption DEF StacksAgree, FirstDepth
  <2>5. NextEdge.wordHash = {}
    <3>1. Top.node = Router /\ Top.pos \in 1 .. BoxChars
      BY <2>2, <2>3, BoxCharsAssumption DEF StacksAgree, Refers, EdgeRef, Outgoing, RouterEdges
    <3> QED BY <3>1 DEF NextEdge, EdgeAt, Outgoing, RouterEdges
  <2>6. {} = PathHash(outgoing, stack, Len(stack))
    <3>1. states[Len(states)] = PathHash(outgoing, stack, 0)
      BY <2>2, <2>3, TopFacts
    <3>2. ExtendedHash = {}
      BY <2>5, <3>1, PathHashEmpty DEF ExtendedHash
    <3> QED BY <2>2, <3>2, TopFacts
  <2>7. /\ StacksAgree'
        /\ stack' \in Seq(EdgeRef) /\ states' \in Seq(SUBSET Node) /\ path' \in Seq(EdgeRef)
    BY <2>1, <2>4, <2>6, PushStep
  <2> QED BY <2>1, <2>7 DEF TypeOK
<1>8. CASE Leaf
  <2>1. TakeEdge /\ Prune /\ pc = "dfs" /\ UNCHANGED <<outgoing, pc, depth, cache>>
        /\ \/ solutions' = Append(solutions, PathView)
           \/ solutions' = solutions
    BY <1>8 DEF Leaf, TakeEdge
  <2>2. solutions' \in Seq(Seq(EdgeRef))
    <3>1. PathView \in Seq(EdgeRef)
      BY <2>1, PathFollowsStack DEF TypeOK
    <3>2. solutions \in Seq(Seq(EdgeRef))
      BY DEF TypeOK
    <3>3. Append(solutions, PathView) \in Seq(Seq(EdgeRef))
      BY <3>1, <3>2, AppendType
    <3> QED BY <2>1, <3>2, <3>3
  <2> QED BY <2>1, <2>2, PruneStep DEF TypeOK
<1>9. ASSUME TakeEdge, Push(ExtendedHash), PathSize > 1, PathSize # depth
      PROVE  /\ StacksAgree'
             /\ stack' \in Seq(EdgeRef) /\ states' \in Seq(SUBSET Node) /\ path' \in Seq(EdgeRef)
  <2>1. pc = "dfs" /\ ~AtEnd
    BY <1>9 DEF TakeEdge
  <2>2. Len(stack) < depth
    BY <1>9, <2>1, SettingsAssumption DEF StacksAgree, PathSize, FirstDepth
  <2>3. ExtendedHash = PathHash(outgoing, stack, Len(stack))
    BY <2>1, TopFacts
  <2> QED BY <1>9, <2>2, <2>3, PushStep
<1>10. CASE ExpandUncached
  <2>1. UNCHANGED <<outgoing, pc, depth, cache, solutions>>
    BY <1>10 DEF ExpandUncached, TakeEdge
  <2>2. /\ StacksAgree'
        /\ stack' \in Seq(EdgeRef) /\ states' \in Seq(SUBSET Node) /\ path' \in Seq(EdgeRef)
    BY <1>9, <1>10 DEF ExpandUncached
  <2> QED BY <2>1, <2>2 DEF TypeOK
<1>11. CASE CachePrune
  <2>1. TakeEdge /\ Prune /\ UNCHANGED <<outgoing, pc, depth, cache, solutions>>
    BY <1>11 DEF CachePrune, LookUp, TakeEdge
  <2> QED BY <2>1, PruneStep DEF TypeOK
<1>12. CASE CacheExpand
  <2>1. UNCHANGED <<outgoing, pc, depth, solutions>>
    BY <1>12 DEF CacheExpand, LookUp, TakeEdge
  <2>2. /\ StacksAgree'
        /\ stack' \in Seq(EdgeRef) /\ states' \in Seq(SUBSET Node) /\ path' \in Seq(EdgeRef)
    BY <1>9, <1>12 DEF CacheExpand, LookUp
  <2>3. cache' \in [CacheKey -> Entry]
    BY <1>12, CacheType
  <2> QED BY <2>1, <2>2, <2>3 DEF TypeOK
<1>13. CASE UNCHANGED vars
  BY <1>13 DEF vars, TypeOK, StacksAgree, Top, Positions
<1>14. CASE Returned
  BY <1>13, <1>14 DEF Returned
<1> QED
  BY <1>1, <1>2, <1>3, <1>4, <1>5, <1>6, <1>7, <1>8, <1>10, <1>11, <1>12, <1>13, <1>14
  DEF Next

\* Every variable keeps its type: no access of the stack, of the path or of
\* the cache is out of range, and no cache entry overflows its uint8_t.
THEOREM TypeCorrect == Spec => []TypeOK
<1>1. Inv => TypeOK
  BY DEF Inv
<1> QED BY <1>1, InvInit, InvNext, PTL DEF Spec

\* The stack, the states and the overwritten path of dfs agree at every turn.
THEOREM StacksCorrect == Spec => []StacksAgree
<1>1. Inv => StacksAgree
  BY DEF Inv
<1> QED BY <1>1, InvInit, InvNext, PTL DEF Spec

-----------------------------------------------------------------------------
\* The stack at a leaf whose letters cover the box is a solution.
LEMMA FullStackSolves ==
  ASSUME Inv, pc = "dfs", ~AtEnd, Len(stack) = depth, ExtendedHash = SolutionMask
  PROVE  IsSolution(outgoing, stack)
<1> DEFINE n == Len(stack)
<1>1. /\ n \in Nat \ {0} /\ Top = stack[n] /\ Refers(outgoing, Top)
      /\ stack \in Seq(EdgeRef) /\ WordGraph(outgoing)
      /\ ExtendedHash = PathHash(outgoing, stack, n)
  BY TopFacts DEF Inv, TypeOK
<1>2. /\ n \in MinSolutionSize + 1 .. MaxSearchSize + 1
      /\ stack[1].node = Router
      /\ \A i \in 1 .. n - 1 : /\ Refers(outgoing, stack[i])
                               /\ stack[i + 1].node = EdgeAt(outgoing, stack[i]).to
  BY DEF Inv, StacksAgree, FirstDepth
<1>3. \A i \in 1 .. n : i = n \/ i \in 1 .. n - 1
  <2>1. n \in Nat
    BY <1>1
  <2> HIDE DEF n
  <2> QED BY <2>1
<1>4. \A i \in 1 .. n : Refers(outgoing, stack[i])
  BY <1>1, <1>2, <1>3
<1>5. Linked(outgoing, stack, n)
  BY <1>2 DEF Linked
<1>6. ASSUME NEW i \in 2 .. n PROVE stack[i].node # Router
  <2>1. i - 1 \in 1 .. n - 1 /\ (i - 1) + 1 = i
    <3>1. n \in Nat
      BY <1>1
    <3> HIDE DEF n
    <3> QED BY <3>1
  <2>2. Refers(outgoing, stack[i - 1]) /\ stack[i].node = EdgeAt(outgoing, stack[i - 1]).to
    BY <1>2, <2>1
  <2>3. stack[i].node \in Node
    BY <1>1, <2>2, EdgeAtType
  <2> QED BY <2>3, BoxCharsAssumption DEF Node, Router
<1>7. PathHash(outgoing, stack, n) = SolutionMask
  BY <1>1
<1> QED BY <1>2, <1>4, <1>5, <1>6, <1>7 DEF IsSolution

\* Only a leaf reports; what it reports is the stack.
LEMMA LeafReports ==
  ASSUME Inv, Leaf
  PROVE  /\ solutions \in Seq(Seq(EdgeRef)) /\ stack \in Seq(EdgeRef)
         /\ \/ solutions' = solutions
            \/ /\ solutions' = Append(solutions, stack)
               /\ IsSolution(outgoing, stack) /\ Len(stack) = depth
         /\ ~StopFn /\ outgoing' = outgoing
<1>1. /\ pc = "dfs" /\ ~AtEnd /\ ~StopFn /\ outgoing' = outgoing /\ Len(stack) = depth
      /\ solutions' = IF ExtendedHash = SolutionMask THEN Append(solutions, PathView)
                      ELSE solutions
  BY DEF Leaf, TakeEdge, PathSize
<1>2. PathView = stack
  BY <1>1, PathFollowsStack DEF Inv
<1> QED BY <1>1, <1>2, FullStackSolves DEF Inv, TypeOK

LEMMA OnlyLeafReports ==
  ASSUME [Next]_vars, ~Leaf
  PROVE  solutions' = solutions /\ outgoing' = outgoing
BY DEF Next, vars, EarlyTerminate, StartSearch, StopDfs, NextDepth, LastDepth, FinishDfs,
       Backtrack, EnterBox, ExpandUncached, LookUp, CachePrune, CacheExpand, TakeEdge, Returned

LEMMA ReportsInit == Init => ReportsSolve
BY DEF Init, InitSearch, ReportsSolve

LEMMA ReportsNext == Inv /\ ReportsSolve /\ [Next]_vars => ReportsSolve'
<1> SUFFICES ASSUME Inv, ReportsSolve, [Next]_vars PROVE ReportsSolve'
  OBVIOUS
<1>1. CASE solutions' = solutions /\ outgoing' = outgoing
  BY <1>1 DEF ReportsSolve
<1>2. CASE ~(solutions' = solutions /\ outgoing' = outgoing)
  <2>1. /\ solutions \in Seq(Seq(EdgeRef)) /\ stack \in Seq(EdgeRef)
        /\ solutions' = Append(solutions, stack) /\ IsSolution(outgoing, stack)
        /\ outgoing' = outgoing
    BY <1>2, LeafReports, OnlyLeafReports
  <2> DEFINE n == Len(solutions)
  <2>2. /\ n \in Nat /\ Len(solutions') = n + 1 /\ solutions'[n + 1] = stack
        /\ \A i \in 1 .. n : solutions'[i] = solutions[i]
    BY <2>1, AppendType
  <2>3. \A i \in 1 .. n : IsSolution(outgoing, solutions[i])
    BY DEF ReportsSolve
  <2>4. \A i \in 1 .. n + 1 : i = n + 1 \/ i \in 1 .. n
    <3>1. n \in Nat
      BY <2>2
    <3> HIDE DEF n
    <3> QED BY <3>1
  <2>5. \A i \in 1 .. n + 1 : IsSolution(outgoing, solutions'[i])
    BY <2>1, <2>2, <2>3, <2>4
  <2> QED BY <2>1, <2>2, <2>5 DEF ReportsSolve
<1> QED BY <1>1, <1>2

\* Every path returned is a solution: a chain of words that meet, between the
\* smallest and the largest size, that together use every letter of the box.
THEOREM ReportsSound == Spec => []ReportsSolve
<1> QED BY ReportsInit, ReportsNext, InvInit, InvNext, PTL DEF Spec

-----------------------------------------------------------------------------
(***************************************************************************)
(* No solution twice.  The dfs enumerates paths in lexicographic order:    *)
(* every solution of the running iteration lies before the stack, and one  *)
(* of an earlier iteration is shorter.                                     *)
(***************************************************************************)
Before(s, t) ==
  \E k \in 1 .. Len(t) :
    s[k] \in EdgeRef /\ s[k].pos < t[k].pos /\ \A i \in 1 .. k - 1 : s[i] = t[i]

ReportsBefore ==
  /\ pc = "start" => solutions = <<>>
  /\ pc = "dfs" => \A i \in 1 .. Len(solutions) :
                     /\ Len(solutions[i]) <= depth
                     /\ Len(solutions[i]) = depth => Before(solutions[i], stack)

OnceInv == ReportedOnce /\ ReportsBefore

LEMMA PosType ==
  ASSUME NEW t \in Seq(EdgeRef), NEW k \in 1 .. Len(t)
  PROVE  t[k] \in EdgeRef /\ t[k].pos \in Nat
<1>1. t[k] \in EdgeRef
  OBVIOUS
<1> QED BY <1>1 DEF EdgeRef

\* A solution found before is before the stack as well once a level is added,
LEMMA BeforePush ==
  ASSUME NEW s, NEW t \in Seq(EdgeRef), NEW e \in EdgeRef, Before(s, t)
  PROVE  Before(s, Append(t, e))
<1>1. PICK k \in 1 .. Len(t) : s[k] \in EdgeRef /\ s[k].pos < t[k].pos /\ \A i \in 1 .. k - 1 : s[i] = t[i]
  BY DEF Before
<1>2. k \in 1 .. Len(Append(t, e)) /\ \A i \in 1 .. k : Append(t, e)[i] = t[i]
  OBVIOUS
<1> QED BY <1>1, <1>2 DEF Before

\* once the top advances,
LEMMA BeforeAdvance ==
  ASSUME NEW s, NEW t \in Seq(EdgeRef), Before(s, t)
  PROVE  Before(s, Advanced(t))
<1>1. PICK k \in 1 .. Len(t) : s[k] \in EdgeRef /\ s[k].pos < t[k].pos /\ \A i \in 1 .. k - 1 : s[i] = t[i]
  BY DEF Before
<1>2. /\ Len(t) \in Nat \ {0} /\ k \in Nat \ {0}
      /\ Len(Advanced(t)) = Len(t)
      /\ \A i \in 1 .. Len(t) - 1 : Advanced(t)[i] = t[i]
      /\ Advanced(t)[Len(t)].pos = t[Len(t)].pos + 1
  BY <1>1, AdvancedType
<1>3. \A i \in 1 .. k - 1 : Advanced(t)[i] = t[i]
  BY <1>2
<1>4. s[k].pos < Advanced(t)[k].pos
  <2>1. CASE k = Len(t)
    <3>1. t[k].pos \in Nat /\ s[k].pos \in Nat
      BY <1>1, PosType DEF EdgeRef
    <3>2. Advanced(t)[k].pos = t[k].pos + 1
      BY <1>2, <2>1
    <3> QED BY <1>1, <3>1, <3>2
  <2>2. CASE k # Len(t)
    BY <1>1, <1>2, <2>2
  <2> QED BY <2>1, <2>2
<1> QED BY <1>1, <1>2, <1>3, <1>4 DEF Before

\* and once the top is dropped and the level below advances.
LEMMA BeforeBacktrack ==
  ASSUME NEW s, NEW t \in Seq(EdgeRef), Len(t) > 1, Before(s, t)
  PROVE  Before(s, Advanced(SubSeq(t, 1, Len(t) - 1)))
<1> DEFINE f == SubSeq(t, 1, Len(t) - 1)
           n == Len(t) - 1
<1>1. /\ Len(t) \in Nat /\ n \in Nat \ {0} /\ Len(t) = n + 1
      /\ f \in Seq(EdgeRef) /\ Len(f) = n
      /\ \A i \in 1 .. n : f[i] = t[i]
  BY FrontType
<1>2. PICK k \in 1 .. n + 1 : s[k] \in EdgeRef /\ s[k].pos < t[k].pos /\ \A i \in 1 .. k - 1 : s[i] = t[i]
  BY <1>1 DEF Before
<1>3. /\ Len(Advanced(f)) = n
      /\ \A i \in 1 .. n - 1 : Advanced(f)[i] = f[i]
      /\ Advanced(f)[n].pos = f[n].pos + 1
  <2>1. Len(f) > 0
    BY <1>1
  <2> HIDE DEF f, n
  <2> QED BY <1>1, <2>1, AdvancedType
<1>4. CASE k \in 1 .. n
  <2>1. Before(s, f)
    BY <1>1, <1>2, <1>4 DEF Before
  <2> QED BY <1>1, <2>1, BeforeAdvance
<1>5. CASE k = n + 1
  <2> HIDE DEF f, n
  <2>1. n \in 1 .. n /\ \A i \in 1 .. n - 1 : i \in 1 .. n
    BY <1>1
  <2>2. \A i \in 1 .. n : s[i] = t[i]
    BY <1>1, <1>2, <1>5
  <2>3. s[n] = f[n] /\ f[n] \in EdgeRef /\ f[n].pos \in Nat
    BY <1>1, <2>1, <2>2, PosType
  <2>4. s[n].pos < Advanced(f)[n].pos
    BY <1>3, <2>3
  <2>5. \A i \in 1 .. n - 1 : s[i] = Advanced(f)[i]
    BY <1>1, <1>3, <2>1, <2>2
  <2>6. Before(s, Advanced(f))
    BY <1>3, <2>1, <2>3, <2>4, <2>5 DEF Before
  <2>7. f = SubSeq(t, 1, Len(t) - 1)
    BY DEF f, n
  <2> QED BY <2>6, <2>7
<1>6. k \in 1 .. n \/ k = n + 1
  <2> HIDE DEF n
  <2> QED BY <1>1, <1>2
<1> QED BY <1>4, <1>5, <1>6

\* While nothing is reported, the reports stay before the stack if the stack
\* moves in one of its three ways.
LEMMA StackMovesOn ==
  ASSUME Inv, OnceInv, pc = "dfs", pc' = "dfs", solutions' = solutions, depth' = depth,
         \/ \E e \in EdgeRef : stack' = Append(stack, e)
         \/ stack' = Advanced(stack)
         \/ Len(stack) > 1 /\ stack' = Advanced(SubSeq(stack, 1, Len(stack) - 1))
  PROVE  ReportsBefore'
<1>1. stack \in Seq(EdgeRef)
  BY DEF Inv, TypeOK
<1>2. ASSUME NEW s, Before(s, stack) PROVE Before(s, stack')
  BY <1>1, <1>2, BeforePush, BeforeAdvance, BeforeBacktrack
<1>3. \A i \in 1 .. Len(solutions) :
        /\ Len(solutions[i]) <= depth
        /\ Len(solutions[i]) = depth => Before(solutions[i], stack)
  BY DEF OnceInv, ReportsBefore
<1> QED BY <1>2, <1>3 DEF ReportsBefore

\* A leaf reports a path that no solution found before is equal to.
LEMMA LeafReportsNew ==
  ASSUME Inv, OnceInv, Leaf
  PROVE  OnceInv'
<1>1. /\ pc = "dfs" /\ pc' = pc /\ depth' = depth /\ stack' = Advanced(stack)
      /\ stack \in Seq(EdgeRef) /\ Len(stack) \in Nat \ {0} /\ depth \in Nat
  BY TopFacts DEF Leaf, TakeEdge, Prune, Inv, TypeOK
<1>2. CASE solutions' = solutions
  <2>1. ReportsBefore'
    BY <1>1, <1>2, StackMovesOn
  <2> QED BY <1>2, <2>1 DEF OnceInv, ReportedOnce
<1>3. CASE solutions' # solutions
  <2>1. /\ solutions \in Seq(Seq(EdgeRef))
        /\ solutions' = Append(solutions, stack) /\ Len(stack) = depth /\ ~StopFn
    BY <1>3, LeafReports
  <2> DEFINE n == Len(solutions)
  <2>2. /\ n \in Nat /\ Len(solutions') = n + 1 /\ solutions'[n + 1] = stack
        /\ \A i \in 1 .. n : solutions'[i] = solutions[i]
    BY <2>1, AppendType
  <2>3. n + 1 <= MaxSolutions
    BY <2>1, <2>2, SettingsAssumption DEF StopFn
  <2>4. \A i \in 1 .. n : /\ Len(solutions[i]) <= depth
                          /\ Len(solutions[i]) = depth => Before(solutions[i], stack)
    BY <1>1 DEF OnceInv, ReportsBefore
  <2>5. \A i, j \in 1 .. n : i # j => solutions[i] # solutions[j]
    BY DEF OnceInv, ReportedOnce
  <2>6. ~Before(stack, stack)
    <3>1. \A k \in 1 .. Len(stack) : stack[k].pos \in Nat
      BY <1>1, PosType
    <3> QED BY <3>1 DEF Before
  <2>7. \A i \in 1 .. n : solutions[i] # stack
    BY <2>1, <2>4, <2>6
  <2>8. Before(stack, Advanced(stack))
    <3>1. /\ Len(Advanced(stack)) = Len(stack)
          /\ \A i \in 1 .. Len(stack) - 1 : Advanced(stack)[i] = stack[i]
          /\ Advanced(stack)[Len(stack)].pos = stack[Len(stack)].pos + 1
      BY <1>1, AdvancedType
    <3>2. Len(stack) \in 1 .. Len(stack)
      BY <1>1
    <3>3. stack[Len(stack)] \in EdgeRef /\ stack[Len(stack)].pos \in Nat
      BY <1>1, <3>2, PosType
    <3>4. stack[Len(stack)].pos < Advanced(stack)[Len(stack)].pos
      BY <3>1, <3>3
    <3> QED BY <3>1, <3>2, <3>3, <3>4 DEF Before
  <2>9. ASSUME NEW s, Before(s, stack) PROVE Before(s, stack')
    BY <1>1, <2>9, BeforeAdvance
  <2>10. \A i \in 1 .. n + 1 : i = n + 1 \/ i \in 1 .. n
    <3>1. n \in Nat
      BY <2>2
    <3> HIDE DEF n
    <3> QED BY <3>1
  <2>11. ReportsBefore'
    <3>1. ASSUME NEW i \in 1 .. n + 1
          PROVE  /\ Len(solutions'[i]) <= depth
                 /\ Len(solutions'[i]) = depth => Before(solutions'[i], stack')
      <4>1. CASE i = n + 1
        BY <1>1, <2>1, <2>2, <2>8, <4>1
      <4>2. CASE i \in 1 .. n
        BY <2>2, <2>4, <2>9, <4>2
      <4> QED BY <2>10, <4>1, <4>2
    <3> QED BY <1>1, <2>2, <3>1 DEF ReportsBefore
  <2>12. ReportedOnce'
    <3>1. ASSUME NEW i \in 1 .. n + 1, NEW j \in 1 .. n + 1, i # j
          PROVE  solutions'[i] # solutions'[j]
      <4>1. CASE i \in 1 .. n /\ j \in 1 .. n
        BY <2>2, <2>5, <3>1, <4>1
      <4>2. CASE i = n + 1 /\ j \in 1 .. n
        BY <2>2, <2>7, <4>2
      <4>3. CASE i \in 1 .. n /\ j = n + 1
        BY <2>2, <2>7, <4>3
      <4> QED BY <2>10, <3>1, <4>1, <4>2, <4>3
    <3> QED BY <2>2, <2>3, <3>1 DEF ReportedOnce
  <2> QED BY <2>11, <2>12 DEF OnceInv
<1> QED BY <1>2, <1>3

LEMMA OnceNext == Inv /\ OnceInv /\ [Next]_vars => OnceInv'
<1> SUFFICES ASSUME Inv, OnceInv, [Next]_vars PROVE OnceInv'
  OBVIOUS
<1>1. CASE Leaf
  BY <1>1, LeafReportsNew
<1>2. ASSUME ~Leaf PROVE ReportedOnce' /\ solutions' = solutions
  BY <1>2, OnlyLeafReports DEF OnceInv, ReportedOnce
<1>3. ASSUME pc' = "done" PROVE ReportsBefore'
  BY <1>3 DEF ReportsBefore
<1>4. ASSUME pc = "dfs", pc' = "dfs", ~Leaf, depth' = depth,
             \/ \E e \in EdgeRef : stack' = Append(stack, e)
             \/ stack' = Advanced(stack)
             \/ Len(stack) > 1 /\ stack' = Advanced(SubSeq(stack, 1, Len(stack) - 1))
      PROVE  OnceInv'
  BY <1>2, <1>4, StackMovesOn DEF OnceInv
<1>5. ASSUME TakeEdge, NEW hash, Push(hash), ~Leaf
      PROVE  OnceInv'
  <2>1. pc = "dfs" /\ pc' = "dfs" /\ depth' = depth /\ ~AtEnd
    BY <1>5 DEF TakeEdge
  <2>2. [node |-> NextEdge.to, pos |-> 1] \in EdgeRef
    BY <2>1, TopFacts DEF Inv, EdgeRef, Place
  <2>3. stack' = Append(stack, [node |-> NextEdge.to, pos |-> 1])
    BY <1>5 DEF Push
  <2> QED BY <1>4, <1>5, <2>1, <2>2, <2>3
<1>6. CASE EarlyTerminate
  <2>1. ~Leaf /\ pc' = "done"
    BY <1>6 DEF EarlyTerminate, Leaf, TakeEdge
  <2> QED BY <1>2, <1>3, <2>1 DEF OnceInv
<1>7. CASE StartSearch
  <2>1. pc = "start" /\ pc' = "dfs" /\ ~Leaf
    BY <1>7 DEF StartSearch, Leaf, TakeEdge
  <2>2. solutions' = <<>>
    BY <1>2, <2>1 DEF OnceInv, ReportsBefore
  <2> QED BY <1>2, <2>1, <2>2 DEF OnceInv, ReportsBefore
<1>8. CASE StopDfs
  <2>1. ~Leaf /\ pc' = "done"
    BY <1>8 DEF StopDfs, Leaf, TakeEdge
  <2> QED BY <1>2, <1>3, <2>1 DEF OnceInv
<1>9. CASE NextDepth
  <2>1. pc = "dfs" /\ pc' = "dfs" /\ depth' = depth + 1 /\ ~Leaf
    BY <1>9 DEF NextDepth, FinishDfs, Leaf, TakeEdge
  <2>2. depth \in Nat /\ \A i \in 1 .. Len(solutions) : Len(solutions[i]) <= depth
    BY <2>1, TopFacts DEF Inv, OnceInv, ReportsBefore
  <2>3. ASSUME NEW i \in 1 .. Len(solutions)
        PROVE  Len(solutions[i]) <= depth + 1 /\ Len(solutions[i]) # depth + 1
    <3>1. Len(solutions[i]) <= depth /\ Len(solutions[i]) \in Nat
      BY <2>2 DEF Inv, TypeOK
    <3> DEFINE k == Len(solutions[i])
    <3>2. k <= depth /\ k \in Nat
      BY <3>1
    <3> HIDE DEF k
    <3>3. k <= depth + 1 /\ k # depth + 1
      BY <2>2, <3>2
    <3> QED BY <3>3 DEF k
  <2> QED BY <1>2, <2>1, <2>3 DEF OnceInv, ReportsBefore
<1>10. CASE LastDepth
  <2>1. ~Leaf /\ pc' = "done"
    BY <1>10 DEF LastDepth, FinishDfs, Leaf, TakeEdge
  <2> QED BY <1>2, <1>3, <2>1 DEF OnceInv
<1>11. CASE Backtrack
  <2>1. pc = "dfs" /\ pc' = "dfs" /\ depth' = depth /\ ~Leaf /\ Len(stack) > 1
        /\ stack' = Advanced(SubSeq(stack, 1, Len(stack) - 1))
    BY <1>11 DEF Backtrack, Leaf, TakeEdge
  <2> QED BY <1>4, <2>1
<1>12. CASE EnterBox /\ ~Leaf
  BY <1>5, <1>12 DEF EnterBox
<1>13. CASE ExpandUncached /\ ~Leaf
  BY <1>5, <1>13 DEF ExpandUncached
<1>14. CASE CachePrune /\ ~Leaf
  <2>1. pc = "dfs" /\ pc' = "dfs" /\ depth' = depth /\ stack' = Advanced(stack)
    BY <1>14 DEF CachePrune, LookUp, TakeEdge, Prune
  <2> QED BY <1>4, <1>14, <2>1
<1>15. CASE CacheExpand /\ ~Leaf
  BY <1>5, <1>15 DEF CacheExpand, LookUp
<1>16. CASE UNCHANGED vars
  BY <1>16 DEF vars, OnceInv, ReportedOnce, ReportsBefore
<1>17. CASE Returned
  BY <1>16, <1>17 DEF Returned
<1> QED
  BY <1>1, <1>6, <1>7, <1>8, <1>9, <1>10, <1>11, <1>12, <1>13, <1>14, <1>15, <1>16, <1>17
  DEF Next

\* No solution is returned twice, and never more than MaxSolutions.
THEOREM ReportsDistinct == Spec => []ReportedOnce
<1>1. Init => OnceInv
  BY SettingsAssumption DEF Init, InitSearch, OnceInv, ReportedOnce, ReportsBefore
<1>2. OnceInv => ReportedOnce
  BY DEF OnceInv
<1> QED BY <1>1, <1>2, OnceNext, InvInit, InvNext, PTL DEF Spec

-----------------------------------------------------------------------------
\* The state that is looked up has the bit that compress_hash deletes.
THEOREM KeysLossless == Spec => []CacheKeyLossless
<1>1. Inv => CacheKeyLossless
  <2> SUFFICES ASSUME Inv, pc = "dfs", ~AtEnd, Len(stack) > 1
               PROVE  { m \in SUBSET Node : NextEdge.to \in m /\ KeyOf(NextEdge.to, m) = NextKey }
                        = {ExtendedHash}
    BY DEF CacheKeyLossless
  <2>1. Refers(outgoing, Top) /\ Top = stack[Len(stack)] /\ WordGraph(outgoing)
    BY TopFacts DEF Inv
  <2>2. Top.node \in Node
    <3> DEFINE n == Len(stack) - 1
    <3>1. n \in 1 .. Len(stack) - 1 /\ n + 1 = Len(stack)
      BY TopFacts DEF Inv
    <3>2. Refers(outgoing, stack[n]) /\ stack[n + 1].node = EdgeAt(outgoing, stack[n]).to
      BY <3>1 DEF Inv, StacksAgree
    <3> QED BY <2>1, <3>1, <3>2, EdgeAtType
  <2>3. NextEdge.to \in NextEdge.wordHash
    <3>1. NextEdge = outgoing[Top.node][Top.pos] /\ Top.pos \in 1 .. Len(outgoing[Top.node])
      BY <2>1, <2>2, BoxCharsAssumption
      DEF NextEdge, EdgeAt, Outgoing, Node, Router, Refers, EdgeRef, WordGraph
    <3> QED BY <2>1, <2>2, <3>1 DEF WordGraph
  <2>4. NextEdge.to \in ExtendedHash
    BY <2>3 DEF ExtendedHash
  <2>5. NextEdge.to \in Node /\ ExtendedHash \in SUBSET Node
    BY TopFacts DEF Inv
  <2>6. ASSUME NEW m \in SUBSET Node, NextEdge.to \in m, KeyOf(NextEdge.to, m) = NextKey
        PROVE  m = ExtendedHash
    <3>1. DeleteBit(m, NextEdge.to) = DeleteBit(ExtendedHash, NextEdge.to)
      BY <2>6 DEF KeyOf, NextKey
    <3> QED BY <2>4, <2>5, <2>6, <3>1, DeleteBitInjective
  <2> QED BY <2>4, <2>5, <2>6 DEF NextKey
<1> QED BY <1>1, InvInit, InvNext, PTL DEF Spec

\* No entry of the cache is ever raised.
THEOREM CeilingsOnlySink == Spec => CeilingsSink
<1> DEFINE Sinks == \A k \in CacheKey : cache'[k].ceiling <= cache[k].ceiling
<1>1. ASSUME Inv, CacheExpand PROVE Sinks
  <2>1. /\ NextKey \in CacheKey /\ cache \in [CacheKey -> Entry]
        /\ cache' = [cache EXCEPT ![NextKey] = [ceiling |-> PathSize, created |-> depth]]
        /\ ~Superseded(cache[NextKey])
    BY <1>1, CacheType DEF Inv, TypeOK, CacheExpand
  <2>2. PathSize \in Nat
    BY <1>1, TopFacts DEF PathSize, Inv, CacheExpand, LookUp, TakeEdge
  <2>3. \A k \in CacheKey : cache[k].ceiling \in Nat
    BY <2>1 DEF Entry
  <2>4. PathSize <= cache[NextKey].ceiling
    BY <2>1, <2>2, <2>3 DEF Superseded
  <2> QED BY <2>1, <2>2, <2>3, <2>4
<1>2. ASSUME Inv, [Next]_vars PROVE [Sinks]_cache
  <2>1. CASE CacheExpand
    BY <1>1, <1>2, <2>1
  <2>2. CASE ~CacheExpand
    <3>1. cache' = cache
      BY <1>2, <2>2 DEF Next, vars, EarlyTerminate, StartSearch, StopDfs, NextDepth, LastDepth,
        FinishDfs, Backtrack, EnterBox, Leaf, ExpandUncached, CachePrune, Returned
    <3> QED BY <3>1
  <2> QED BY <2>1, <2>2
<1> QED BY <1>2, InvInit, InvNext, PTL DEF Spec, CeilingsSink

-----------------------------------------------------------------------------
(***************************************************************************)
(* Pruning loses no answer.  A path of l edges starts at the router; it is *)
(* passed when the dfs stands behind it or below it.                       *)
(***************************************************************************)
Refs == UNION { { [node |-> n, pos |-> i] : i \in 1 .. Len(Outgoing(outgoing, n)) } : n \in Place }

Paths(l) ==
  { q \in [1 .. l -> Refs] : q[1].node = Router /\ Linked(outgoing, q, l) }

PathKey(q, l) == KeyOf(EdgeAt(outgoing, q[l]).to, PathHash(outgoing, q, l))

Passed(q, l, t) ==
  \/ \E k \in 1 .. Len(t) : k <= l /\ q[k].pos < t[k].pos /\ \A i \in 1 .. k - 1 : q[i] = t[i]
  \/ l < Len(t) /\ \A i \in 1 .. l : q[i] = t[i]

Covers(p, l) == PathHash(outgoing, p, l) = SolutionMask

\* Some solution is no longer than p and ends in the same edge.
Witnessed(p, l) ==
  \E i \in 1 .. Len(solutions) :
    Len(solutions[i]) <= l /\ solutions[i][Len(solutions[i])] = p[l]

Answered(d) == \A p \in Paths(d) : Covers(p, d) => Witnessed(p, d)

\* What an entry of the cache was written for.
EntryTrue(k) ==
  cache[k].ceiling # NotReached =>
    /\ cache[k].ceiling >= 2 /\ cache[k].created <= depth
    /\ \E q \in Paths(cache[k].ceiling) :
         /\ PathKey(q, cache[k].ceiling) = k
         /\ cache[k].created = depth => Passed(q, cache[k].ceiling, stack)

CacheTrue ==
  /\ pc = "start" => \A k \in CacheKey : cache[k].ceiling = NotReached
  /\ pc = "dfs" => \A k \in CacheKey : EntryTrue(k)

\* The paths passed in this iteration and all of the earlier ones are answered.
AnswersInv ==
  /\ pc = "start" => solutions = <<>>
  /\ pc = "dfs" =>
       /\ \A d \in FirstDepth .. depth - 1 : Answered(d)
       /\ \A p \in Paths(depth) :
            Covers(p, depth) /\ Passed(p, depth, stack) => Witnessed(p, depth)
  /\ pc = "done" /\ ~StopFn => \A d \in FirstDepth .. MaxSearchSize + 1 : Answered(d)

LEMMA RefsRefer ==
  ASSUME WordGraph(outgoing)
  PROVE  \A ref : ref \in Refs <=> Refers(outgoing, ref)
<1>1. ASSUME NEW ref, ref \in Refs PROVE Refers(outgoing, ref)
  <2>1. PICK n \in Place : ref \in { [node |-> n, pos |-> i] : i \in 1 .. Len(Outgoing(outgoing, n)) }
    BY <1>1 DEF Refs
  <2>2. PICK i \in 1 .. Len(Outgoing(outgoing, n)) : ref = [node |-> n, pos |-> i]
    BY <2>1
  <2>3. Outgoing(outgoing, n) \in Seq(WordEdge)
    BY OutgoingType
  <2>4. i \in Nat \ {0} /\ i <= Len(Outgoing(outgoing, n))
    BY <2>3
  <2> QED BY <2>2, <2>4 DEF Refers, EdgeRef
<1>2. ASSUME NEW ref, Refers(outgoing, ref) PROVE ref \in Refs
  <2>1. /\ ref = [node |-> ref.node, pos |-> ref.pos]
        /\ ref.node \in Place /\ ref.pos \in Nat \ {0}
        /\ ref.pos <= Len(Outgoing(outgoing, ref.node))
    BY <1>2 DEF Refers, EdgeRef
  <2>2. Outgoing(outgoing, ref.node) \in Seq(WordEdge)
    BY <2>1, OutgoingType
  <2>3. ref.pos \in 1 .. Len(Outgoing(outgoing, ref.node))
    BY <2>1, <2>2
  <2> QED BY <2>1, <2>3 DEF Refs
<1> QED BY <1>1, <1>2

\* What is known of a path and of its edges.
LEMMA PathFacts ==
  ASSUME WordGraph(outgoing), NEW l \in Nat, NEW q \in Paths(l)
  PROVE  /\ q \in [1 .. l -> Refs] /\ Linked(outgoing, q, l)
         /\ q[1].node = Router
         /\ \A i \in 1 .. l : /\ Refers(outgoing, q[i])
                              /\ q[i] \in EdgeRef /\ q[i].pos \in Nat \ {0}
                              /\ EdgeAt(outgoing, q[i]) \in WordEdge
                              /\ EdgeAt(outgoing, q[i]).to \in Node
                              /\ EdgeAt(outgoing, q[i]).wordHash \in SUBSET Node
         /\ \A i \in 2 .. l : q[i].node = EdgeAt(outgoing, q[i - 1]).to /\ q[i].node \in Node
         /\ PathHash(outgoing, q, l) \in SUBSET Node
<1>1. q \in [1 .. l -> Refs] /\ Linked(outgoing, q, l) /\ q[1].node = Router
  BY DEF Paths
<1>2. ASSUME NEW i \in 1 .. l
      PROVE  /\ Refers(outgoing, q[i])
             /\ q[i] \in EdgeRef /\ q[i].pos \in Nat \ {0}
             /\ EdgeAt(outgoing, q[i]) \in WordEdge
             /\ EdgeAt(outgoing, q[i]).to \in Node
             /\ EdgeAt(outgoing, q[i]).wordHash \in SUBSET Node
  <2>1. Refers(outgoing, q[i])
    BY <1>1, RefsRefer
  <2>2. q[i] \in EdgeRef
    BY <2>1 DEF Refers
  <2> QED BY <2>1, <2>2, EdgeAtType DEF EdgeRef
<1>3. ASSUME NEW i \in 2 .. l
      PROVE  q[i].node = EdgeAt(outgoing, q[i - 1]).to /\ q[i].node \in Node
  <2>1. i - 1 \in 1 .. l - 1 /\ i - 1 \in 1 .. l /\ (i - 1) + 1 = i
    OBVIOUS
  <2> QED BY <1>1, <1>2, <2>1 DEF Linked
<1>4. PathHash(outgoing, q, l) \in SUBSET Node
  BY <1>2 DEF PathHash
<1> QED BY <1>1, <1>2, <1>3, <1>4

\* The mask of a path with a word holds the letter the path ends at.
LEMMA EndInHash ==
  ASSUME WordGraph(outgoing), NEW l \in Nat, l >= 2, NEW q \in Paths(l)
  PROVE  /\ EdgeAt(outgoing, q[l]).to \in PathHash(outgoing, q, l)
         /\ EdgeAt(outgoing, q[l]).to \in Node
         /\ PathHash(outgoing, q, l) \in SUBSET Node
         /\ PathKey(q, l) \in CacheKey
<1>1. l \in 1 .. l /\ l \in 2 .. l
  OBVIOUS
<1>2. /\ Refers(outgoing, q[l]) /\ q[l].node \in Node
      /\ EdgeAt(outgoing, q[l]).to \in Node /\ PathHash(outgoing, q, l) \in SUBSET Node
  BY <1>1, PathFacts
<1>3. EdgeAt(outgoing, q[l]).to \in EdgeAt(outgoing, q[l]).wordHash
  <2>1. /\ EdgeAt(outgoing, q[l]) = outgoing[q[l].node][q[l].pos]
        /\ q[l].pos \in 1 .. Len(outgoing[q[l].node])
    BY <1>2, BoxCharsAssumption
    DEF EdgeAt, Outgoing, Node, Router, Refers, EdgeRef, WordGraph
  <2> QED BY <1>2, <2>1 DEF WordGraph
<1>4. EdgeAt(outgoing, q[l]).to \in PathHash(outgoing, q, l)
  BY <1>1, <1>3 DEF PathHash
<1>5. PathKey(q, l) \in CacheKey
  BY <1>2, DeleteBitType DEF PathKey, KeyOf, CacheKey
<1> QED BY <1>2, <1>4, <1>5

\* Two paths with the same key end at the same node with the same letters.
LEMMA SameKey ==
  ASSUME WordGraph(outgoing),
         NEW l \in Nat, l >= 2, NEW q \in Paths(l),
         NEW n \in Nat, n >= 2, NEW p \in Paths(n),
         PathKey(q, l) = PathKey(p, n)
  PROVE  /\ EdgeAt(outgoing, q[l]).to = EdgeAt(outgoing, p[n]).to
         /\ PathHash(outgoing, q, l) = PathHash(outgoing, p, n)
<1> DEFINE a == EdgeAt(outgoing, q[l]).to
           b == EdgeAt(outgoing, p[n]).to
           g == PathHash(outgoing, q, l)
           h == PathHash(outgoing, p, n)
<1>1. a \in g /\ a \in Node /\ g \in SUBSET Node /\ b \in h /\ b \in Node /\ h \in SUBSET Node
  BY EndInHash
<1>2. a = b /\ DeleteBit(g, a) = DeleteBit(h, b)
  BY DEF PathKey, KeyOf
<1> HIDE DEF a, b, g, h
<1>3. a = b /\ g = h
  BY <1>1, <1>2, DeleteBitInjective
<1> QED BY <1>3 DEF a, b, g, h

-----------------------------------------------------------------------------
(***************************************************************************)
(* Another way to the same place: the first m edges of q, then p from its  *)
(* edge n + 1 on.                                                          *)
(***************************************************************************)
Spliced(q, m, p, n, l) == [i \in 1 .. m + (l - n) |-> IF i <= m THEN q[i] ELSE p[(i - m) + n]]

LEMMA SplicedIsPath ==
  ASSUME WordGraph(outgoing),
         NEW l \in Nat, NEW p \in Paths(l), NEW n \in 1 .. l,
         NEW m \in Nat \ {0}, NEW q \in Paths(m),
         EdgeAt(outgoing, q[m]).to = EdgeAt(outgoing, p[n]).to,
         PathHash(outgoing, q, m) = PathHash(outgoing, p, n)
  PROVE  LET r == Spliced(q, m, p, n, l)
             k == m + (l - n)
         IN /\ k \in Nat /\ k >= m
            /\ r \in Paths(k)
            /\ \A i \in 1 .. m : r[i] = q[i]
            /\ n < l => r[k] = p[l]
            /\ EdgeAt(outgoing, r[k]).to = EdgeAt(outgoing, p[l]).to
            /\ PathHash(outgoing, r, k) = PathHash(outgoing, p, l)
            /\ PathKey(r, k) = PathKey(p, l)
<1> DEFINE r == Spliced(q, m, p, n, l)
           k == m + (l - n)
<1>1. k \in Nat /\ k >= m /\ l - n \in Nat /\ n \in Nat \ {0} /\ k >= 1
  OBVIOUS
<1>2. \A i \in 1 .. k : \/ i \in 1 .. m
                        \/ i \in m + 1 .. k /\ (i - m) + n \in n + 1 .. l /\ (i - m) + n \in 1 .. l
  OBVIOUS
<1>3. \A i \in 1 .. m : i \in 1 .. k /\ r[i] = q[i]
  BY DEF Spliced
<1>4. \A i \in m + 1 .. k : i \in 1 .. k /\ r[i] = p[(i - m) + n]
  BY DEF Spliced
<1>5. /\ q \in [1 .. m -> Refs] /\ Linked(outgoing, q, m) /\ q[1].node = Router
      /\ p \in [1 .. l -> Refs] /\ Linked(outgoing, p, l)
  BY PathFacts
<1>6. r \in [1 .. k -> Refs]
  <2>1. \A i \in 1 .. k : r[i] \in Refs
    BY <1>2, <1>3, <1>4, <1>5
  <2>2. r = [i \in 1 .. k |-> r[i]]
    BY DEF Spliced
  <2> HIDE DEF r, k
  <2> QED BY <2>1, <2>2
<1>7. Linked(outgoing, r, k)
  <2> SUFFICES ASSUME NEW i \in 1 .. k - 1
               PROVE  EdgeAt(outgoing, r[i]).to = r[i + 1].node
    BY DEF Linked
  <2>1. CASE i + 1 <= m
    <3>1. i \in 1 .. m /\ i + 1 \in 1 .. m /\ i \in 1 .. m - 1
      BY <2>1
    <3> QED BY <1>3, <1>5, <3>1 DEF Linked
  <2>2. CASE i = m
    <3>1. i \in 1 .. m /\ i + 1 \in m + 1 .. k /\ ((i + 1) - m) + n = n + 1 /\ n \in 1 .. l - 1
      BY <2>2
    <3> HIDE DEF r, k
    <3>2. r[i] = q[m] /\ r[i + 1] = p[n + 1]
      BY <1>3, <1>4, <2>2, <3>1
    <3>3. EdgeAt(outgoing, p[n]).to = p[n + 1].node
      BY <1>5, <3>1 DEF Linked
    <3> QED BY <3>2, <3>3
  <2>3. CASE i > m
    <3> DEFINE j == (i - m) + n
    <3>1. /\ i \in m + 1 .. k /\ i + 1 \in m + 1 .. k /\ ((i + 1) - m) + n = j + 1
          /\ j \in 1 .. l - 1
      BY <2>3
    <3>2. r[i] = p[j] /\ r[i + 1] = p[j + 1]
      <4> HIDE DEF r, k
      <4> QED BY <1>4, <3>1
    <3>3. EdgeAt(outgoing, p[j]).to = p[j + 1].node
      <4> HIDE DEF j, k
      <4> QED BY <1>5, <3>1 DEF Linked
    <3> QED BY <3>2, <3>3
  <2>4. i + 1 <= m \/ i = m \/ i > m
    OBVIOUS
  <2> QED BY <2>1, <2>2, <2>3, <2>4
<1>8. r[1].node = Router
  BY <1>3, <1>5
<1>9. r \in Paths(k)
  BY <1>6, <1>7, <1>8 DEF Paths
<1>10. n < l => r[k] = p[l]
  <2> SUFFICES ASSUME n < l PROVE r[k] = p[l]
    OBVIOUS
  <2>1. k \in m + 1 .. k /\ (k - m) + n = l
    OBVIOUS
  <2> HIDE DEF r, k
  <2> QED BY <1>4, <2>1
<1>11. EdgeAt(outgoing, r[k]).to = EdgeAt(outgoing, p[l]).to
  <2>1. CASE n = l
    <3>1. k = m /\ r[m] = q[m]
      BY <1>3, <2>1
    <3> QED BY <2>1, <3>1
  <2>2. CASE n < l
    BY <1>10, <2>2
  <2> QED BY <2>1, <2>2
<1>12. PathHash(outgoing, r, k) = PathHash(outgoing, p, l)
  <2> DEFINE W(s, i) == EdgeAt(outgoing, s[i]).wordHash
  <2>1. \A c : c \in PathHash(outgoing, r, k) <=> \E i \in 1 .. k : c \in W(r, i)
    BY DEF PathHash
  <2>2. \A c : c \in PathHash(outgoing, p, l) <=> \E i \in 1 .. l : c \in W(p, i)
    BY DEF PathHash
  <2>3. \A c : (\E i \in 1 .. m : c \in W(q, i)) <=> (\E i \in 1 .. n : c \in W(p, i))
    BY DEF PathHash
  <2>4. ASSUME NEW c, NEW i \in 1 .. k, c \in W(r, i)
        PROVE  \E h \in 1 .. l : c \in W(p, h)
    <3>1. CASE i \in 1 .. m
      <4>1. c \in W(q, i)
        BY <1>3, <2>4, <3>1
      <4>2. PICK h \in 1 .. n : c \in W(p, h)
        BY <2>3, <3>1, <4>1
      <4>3. h \in 1 .. l
        OBVIOUS
      <4> QED BY <4>2, <4>3
    <3>2. CASE i \in m + 1 .. k /\ (i - m) + n \in 1 .. l
      <4>1. c \in W(p, (i - m) + n)
        BY <1>4, <2>4, <3>2
      <4> QED BY <3>2, <4>1
    <3> QED BY <1>2, <3>1, <3>2
  <2>5. ASSUME NEW c, NEW h \in 1 .. l, c \in W(p, h)
        PROVE  \E i \in 1 .. k : c \in W(r, i)
    <3>1. CASE h \in 1 .. n
      <4>1. PICK i \in 1 .. m : c \in W(q, i)
        BY <2>3, <2>5, <3>1
      <4>2. i \in 1 .. k /\ c \in W(r, i)
        BY <1>3, <4>1
      <4> QED BY <4>2
    <3>2. CASE h > n
      <4> DEFINE i == (h - n) + m
      <4>1. i \in m + 1 .. k /\ (i - m) + n = h /\ i \in 1 .. k
        BY <3>2
      <4>2. r[i] = p[h]
        <5> HIDE DEF r, k, i
        <5> QED BY <1>4, <4>1
      <4> HIDE DEF i
      <4> QED BY <2>5, <4>1, <4>2
    <3>3. h \in 1 .. n \/ h > n
      OBVIOUS
    <3> QED BY <3>1, <3>2, <3>3
  <2> HIDE DEF W, r, k
  <2>6. \A c : c \in PathHash(outgoing, r, k) <=> c \in PathHash(outgoing, p, l)
    BY <2>1, <2>2, <2>4, <2>5, Zenon
  <2>7. \A A, B : (\A c : c \in A <=> c \in B) => A = B
    OBVIOUS
  <2> QED BY <2>6, <2>7, Zenon
<1>13. PathKey(r, k) = PathKey(p, l)
  BY <1>11, <1>12 DEF PathKey
<1> QED BY <1>1, <1>3, <1>9, <1>10, <1>11, <1>12, <1>13

-----------------------------------------------------------------------------
(***************************************************************************)
(* What has been passed stays so, and what each move of the stack passes.  *)
(***************************************************************************)
LEMMA PassedPush ==
  ASSUME NEW t \in Seq(EdgeRef), NEW e \in EdgeRef, e.pos = 1,
         WordGraph(outgoing), NEW l \in Nat, NEW q \in Paths(l)
  PROVE  /\ Passed(q, l, t) => Passed(q, l, Append(t, e))
         /\ Passed(q, l, Append(t, e)) =>
              \/ Passed(q, l, t)
              \/ l = Len(t) /\ \A i \in 1 .. l : q[i] = t[i]
<1> DEFINE u == Append(t, e)
           n == Len(t)
<1>1. /\ n \in Nat /\ Len(u) = n + 1 /\ u[n + 1] = e
      /\ \A i \in 1 .. n : u[i] = t[i]
  BY AppendType
<1> HIDE DEF u, n
<1>2. ASSUME Passed(q, l, t) PROVE Passed(q, l, u)
  <2>1. CASE \E k \in 1 .. n : k <= l /\ q[k].pos < t[k].pos /\ \A i \in 1 .. k - 1 : q[i] = t[i]
    <3>1. PICK k \in 1 .. n : k <= l /\ q[k].pos < t[k].pos /\ \A i \in 1 .. k - 1 : q[i] = t[i]
      BY <2>1
    <3>2. k \in 1 .. Len(u) /\ \A i \in 1 .. k - 1 : i \in 1 .. n
      BY <1>1
    <3> QED BY <1>1, <3>1, <3>2 DEF Passed
  <2>2. CASE l < n /\ \A i \in 1 .. l : q[i] = t[i]
    <3>1. l < Len(u) /\ \A i \in 1 .. l : i \in 1 .. n
      BY <1>1, <2>2
    <3> QED BY <1>1, <2>2, <3>1 DEF Passed
  <2> QED BY <1>2, <2>1, <2>2 DEF Passed, n
<1>3. ASSUME Passed(q, l, u)
      PROVE  Passed(q, l, t) \/ (l = n /\ \A i \in 1 .. l : q[i] = t[i])
  <2>1. CASE \E k \in 1 .. Len(u) : k <= l /\ q[k].pos < u[k].pos /\ \A i \in 1 .. k - 1 : q[i] = u[i]
    <3>1. PICK k \in 1 .. Len(u) : k <= l /\ q[k].pos < u[k].pos /\ \A i \in 1 .. k - 1 : q[i] = u[i]
      BY <2>1
    <3>2. k \in 1 .. l /\ q[k].pos \in Nat \ {0}
      BY <3>1, PathFacts
    <3>3. k # n + 1
      BY <1>1, <3>1, <3>2
    <3>4. k \in 1 .. n /\ \A i \in 1 .. k - 1 : i \in 1 .. n
      BY <1>1, <3>3
    <3> QED BY <1>1, <3>1, <3>4 DEF Passed, n
  <2>2. CASE l < Len(u) /\ \A i \in 1 .. l : q[i] = u[i]
    <3>1. (l < n \/ l = n) /\ \A i \in 1 .. l : i \in 1 .. n
      BY <1>1, <2>2
    <3> QED BY <1>1, <2>2, <3>1 DEF Passed, n
  <2> QED BY <1>3, <2>1, <2>2 DEF Passed
<1> QED BY <1>2, <1>3 DEF u, n

LEMMA PassedAdvance ==
  ASSUME NEW t \in Seq(EdgeRef), Len(t) > 0,
         WordGraph(outgoing), NEW l \in Nat, NEW q \in Paths(l),
         Len(t) = 1 => t[1].node = Router,
         Len(t) > 1 => t[Len(t)].node = EdgeAt(outgoing, t[Len(t) - 1]).to
  PROVE  /\ Passed(q, l, t) => Passed(q, l, Advanced(t))
         /\ Passed(q, l, Advanced(t)) =>
              \/ Passed(q, l, t)
              \/ l >= Len(t) /\ \A i \in 1 .. Len(t) : q[i] = t[i]
<1> DEFINE u == Advanced(t)
           n == Len(t)
<1>1. /\ n \in Nat \ {0} /\ Len(u) = n /\ n \in 1 .. n
      /\ \A i \in 1 .. n - 1 : u[i] = t[i]
      /\ u[n].node = t[n].node /\ u[n].pos = t[n].pos + 1
      /\ t[n].pos \in Nat /\ t[n] \in EdgeRef
  BY AdvancedType, PosType
<1>2. /\ n = 1 => t[1].node = Router
      /\ n > 1 => t[n].node = EdgeAt(outgoing, t[n - 1]).to
  OBVIOUS
<1> HIDE DEF u, n
<1>3. ASSUME Passed(q, l, t) PROVE Passed(q, l, u)
  <2>1. CASE \E k \in 1 .. n : k <= l /\ q[k].pos < t[k].pos /\ \A i \in 1 .. k - 1 : q[i] = t[i]
    <3>1. PICK k \in 1 .. n : k <= l /\ q[k].pos < t[k].pos /\ \A i \in 1 .. k - 1 : q[i] = t[i]
      BY <2>1
    <3>2. \A i \in 1 .. k - 1 : i \in 1 .. n - 1
      BY <1>1
    <3>3. q[k].pos < u[k].pos
      <4>1. CASE k = n
        <5>1. k \in 1 .. l /\ q[k].pos \in Nat
          BY <3>1, PathFacts
        <5> QED BY <1>1, <3>1, <4>1, <5>1
      <4>2. CASE k # n
        <5>1. k \in 1 .. n - 1
          BY <1>1, <4>2
        <5> QED BY <1>1, <3>1, <5>1
      <4> QED BY <4>1, <4>2
    <3> QED BY <1>1, <3>1, <3>2, <3>3 DEF Passed
  <2>2. CASE l < n /\ \A i \in 1 .. l : q[i] = t[i]
    <3>1. l < Len(u) /\ \A i \in 1 .. l : i \in 1 .. n - 1
      BY <1>1, <2>2
    <3> QED BY <1>1, <2>2, <3>1 DEF Passed
  <2> QED BY <1>3, <2>1, <2>2 DEF Passed, n
<1>4. ASSUME Passed(q, l, u)
      PROVE  Passed(q, l, t) \/ (l >= n /\ \A i \in 1 .. n : q[i] = t[i])
  <2>1. CASE \E k \in 1 .. n : k <= l /\ q[k].pos < u[k].pos /\ \A i \in 1 .. k - 1 : q[i] = u[i]
    <3>1. PICK k \in 1 .. n : k <= l /\ q[k].pos < u[k].pos /\ \A i \in 1 .. k - 1 : q[i] = u[i]
      BY <2>1
    <3>2. k \in 1 .. l /\ q[k].pos \in Nat /\ q[k] \in EdgeRef
      BY <3>1, PathFacts
    <3>3. \A i \in 1 .. k - 1 : i \in 1 .. n - 1 /\ q[i] = t[i]
      BY <1>1, <3>1
    <3>4. CASE k # n \/ q[k].pos < t[k].pos
      <4>1. q[k].pos < t[k].pos
        <5>1. k # n => k \in 1 .. n - 1
          BY <1>1
        <5> QED BY <1>1, <3>1, <3>4, <5>1
      <4> QED BY <3>1, <3>3, <4>1 DEF Passed, n
    <3>5. CASE k = n /\ ~(q[k].pos < t[k].pos)
      <4>1. q[n].pos = t[n].pos
        BY <1>1, <3>1, <3>2, <3>5
      <4>2. q[n].node = t[n].node
        <5>1. CASE n = 1
          BY <1>2, <5>1, PathFacts
        <5>2. CASE n # 1
          <6>1. n > 1 /\ n - 1 \in 1 .. k - 1 /\ n \in 2 .. l
            BY <1>1, <3>2, <3>5, <5>2
          <6>2. q[n].node = EdgeAt(outgoing, q[n - 1]).to
            BY <6>1, PathFacts
          <6>3. q[n - 1] = t[n - 1]
            BY <3>3, <6>1
          <6> QED BY <1>2, <6>1, <6>2, <6>3
        <5> QED BY <5>1, <5>2
      <4>3. q[n] = t[n]
        BY <1>1, <3>2, <3>5, <4>1, <4>2 DEF EdgeRef
      <4>4. \A i \in 1 .. n : i = n \/ i \in 1 .. k - 1
        BY <1>1, <3>5
      <4> QED BY <3>1, <3>3, <3>5, <4>3, <4>4
    <3> QED BY <3>4, <3>5
  <2>2. CASE l < n /\ \A i \in 1 .. l : q[i] = u[i]
    <3>1. \A i \in 1 .. l : i \in 1 .. n - 1
      BY <1>1, <2>2
    <3> QED BY <1>1, <2>2, <3>1 DEF Passed, n
  <2> QED BY <1>1, <1>4, <2>1, <2>2 DEF Passed
<1> QED BY <1>3, <1>4 DEF u, n

\* A level that is left has been passed whole.
LEMMA PassedBacktrack ==
  ASSUME NEW t \in Seq(EdgeRef), Len(t) > 1,
         WordGraph(outgoing), NEW l \in Nat, NEW q \in Paths(l),
         t[1].node = Router,
         \A i \in 1 .. Len(t) - 1 : t[i + 1].node = EdgeAt(outgoing, t[i]).to,
         t[Len(t)].pos > Len(Outgoing(outgoing, t[Len(t)].node))
  PROVE  Passed(q, l, Advanced(SubSeq(t, 1, Len(t) - 1))) <=> Passed(q, l, t)
<1> DEFINE f == SubSeq(t, 1, Len(t) - 1)
           n == Len(t) - 1
<1>1. /\ n \in Nat \ {0} /\ Len(t) = n + 1
      /\ f \in Seq(EdgeRef) /\ Len(f) = n
      /\ \A i \in 1 .. n : f[i] = t[i]
  BY FrontType
<1>2. \A i \in 1 .. n : t[i + 1].node = EdgeAt(outgoing, t[i]).to
  OBVIOUS
<1>3. t[n + 1].pos > Len(Outgoing(outgoing, t[n + 1].node))
  BY <1>1
<1>4. t[n + 1] \in EdgeRef /\ t[n + 1].pos \in Nat /\ t[n] \in EdgeRef /\ t[n].pos \in Nat
  BY <1>1, PosType
<1>5. Passed(q, l, f) => Passed(q, l, t)
  <2> HIDE DEF f, n
  <2>1. ASSUME NEW k \in 1 .. n, k <= l, q[k].pos < f[k].pos, \A i \in 1 .. k - 1 : q[i] = f[i]
        PROVE  Passed(q, l, t)
    <3>1. k \in 1 .. Len(t) /\ \A i \in 1 .. k - 1 : i \in 1 .. n
      BY <1>1
    <3> QED BY <1>1, <2>1, <3>1 DEF Passed
  <2>2. ASSUME l < n, \A i \in 1 .. l : q[i] = f[i]
        PROVE  Passed(q, l, t)
    <3>1. l < Len(t) /\ \A i \in 1 .. l : i \in 1 .. n
      BY <1>1, <2>2
    <3> QED BY <1>1, <2>2, <3>1 DEF Passed
  <2> QED BY <1>1, <2>1, <2>2 DEF Passed
<1>6. /\ Passed(q, l, f) => Passed(q, l, Advanced(f))
      /\ Passed(q, l, Advanced(f)) =>
           \/ Passed(q, l, f)
           \/ l >= n /\ \A i \in 1 .. n : q[i] = f[i]
  <2>1. /\ Len(f) > 0
        /\ Len(f) = 1 => f[1].node = Router
    BY <1>1
  <2>2. Len(f) > 1 => f[Len(f)].node = EdgeAt(outgoing, f[Len(f) - 1]).to
    <3> HIDE DEF f, n
    <3> SUFFICES ASSUME n > 1 PROVE f[n].node = EdgeAt(outgoing, f[n - 1]).to
      BY <1>1
    <3>1. n - 1 \in 1 .. n /\ n \in 1 .. n /\ (n - 1) + 1 = n
      BY <1>1
    <3>2. t[(n - 1) + 1].node = EdgeAt(outgoing, t[n - 1]).to
      BY <1>2, <3>1
    <3> QED BY <1>1, <3>1, <3>2
  <2> HIDE DEF f, n
  <2> QED BY <1>1, <2>1, <2>2, PassedAdvance
<1>7. ASSUME l >= n, \A i \in 1 .. n : q[i] = t[i]
      PROVE  Passed(q, l, t) /\ Passed(q, l, Advanced(f))
  <2> HIDE DEF f, n
  <2>1. Passed(q, l, t)
    <3>1. CASE l = n
      <4>1. l < Len(t)
        BY <1>1, <3>1
      <4> QED BY <1>7, <3>1, <4>1 DEF Passed
    <3>2. CASE l > n
      <4>1. /\ n + 1 \in 2 .. l /\ n + 1 \in 1 .. l /\ (n + 1) - 1 = n /\ n \in 1 .. n
            /\ n + 1 <= l /\ n + 1 \in 1 .. Len(t)
        BY <1>1, <3>2
      <4>2. q[n + 1].node = EdgeAt(outgoing, q[n]).to /\ Refers(outgoing, q[n + 1])
        BY <4>1, PathFacts
      <4>3. q[n + 1].node = t[n + 1].node
        BY <1>2, <1>7, <4>1, <4>2
      <4>4. /\ q[n + 1].pos <= Len(Outgoing(outgoing, q[n + 1].node))
            /\ q[n + 1].pos \in Nat /\ q[n + 1].node \in Place
        BY <4>2 DEF Refers, EdgeRef
      <4>5. Len(Outgoing(outgoing, q[n + 1].node)) \in Nat
        BY <4>4, OutgoingType
      <4>6. q[n + 1].pos < t[n + 1].pos
        BY <1>3, <1>4, <4>3, <4>4, <4>5
      <4>7. \A i \in 1 .. (n + 1) - 1 : q[i] = t[i]
        BY <1>1, <1>7
      <4> QED BY <4>1, <4>6, <4>7 DEF Passed
    <3> QED BY <1>1, <1>7, <3>1, <3>2
  <2>2. Passed(q, l, Advanced(f))
    <3>1. /\ Len(Advanced(f)) = n
          /\ \A i \in 1 .. n - 1 : Advanced(f)[i] = f[i]
          /\ Advanced(f)[n].pos = f[n].pos + 1
      <4>1. Len(f) > 0
        BY <1>1
      <4> QED BY <1>1, <4>1, AdvancedType
    <3>2. n \in 1 .. n /\ \A i \in 1 .. n - 1 : i \in 1 .. n
      BY <1>1
    <3>3. q[n].pos < Advanced(f)[n].pos
      BY <1>1, <1>4, <1>7, <3>1, <3>2
    <3>4. \A i \in 1 .. n - 1 : q[i] = Advanced(f)[i]
      BY <1>1, <1>7, <3>1, <3>2
    <3> QED BY <1>7, <3>1, <3>2, <3>3, <3>4 DEF Passed
  <2> QED BY <2>1, <2>2
<1>8. ASSUME Passed(q, l, t) PROVE Passed(q, l, Advanced(f))
  <2> HIDE DEF f, n
  <2>1. CASE \E k \in 1 .. n + 1 : k <= l /\ q[k].pos < t[k].pos /\ \A i \in 1 .. k - 1 : q[i] = t[i]
    <3>1. PICK k \in 1 .. n + 1 : k <= l /\ q[k].pos < t[k].pos /\ \A i \in 1 .. k - 1 : q[i] = t[i]
      BY <2>1
    <3>2. CASE k = n + 1
      <4>1. l >= n /\ \A i \in 1 .. n : i \in 1 .. k - 1
        BY <1>1, <3>1, <3>2
      <4> QED BY <1>7, <3>1, <4>1
    <3>3. CASE k # n + 1
      <4>1. k \in 1 .. n /\ \A i \in 1 .. k - 1 : i \in 1 .. n
        BY <1>1, <3>3
      <4>2. Passed(q, l, f)
        BY <1>1, <3>1, <4>1 DEF Passed
      <4> QED BY <1>6, <4>2
    <3> QED BY <3>2, <3>3
  <2>2. CASE l < n + 1 /\ \A i \in 1 .. l : q[i] = t[i]
    <3>1. CASE l = n
      BY <1>1, <1>7, <2>2, <3>1
    <3>2. CASE l # n
      <4>1. l < n /\ \A i \in 1 .. l : i \in 1 .. n
        BY <1>1, <2>2, <3>2
      <4>2. Passed(q, l, f)
        BY <1>1, <2>2, <4>1 DEF Passed
      <4> QED BY <1>6, <4>2
    <3> QED BY <3>1, <3>2
  <2> QED BY <1>1, <1>8, <2>1, <2>2 DEF Passed
<1>9. ASSUME Passed(q, l, Advanced(f)) PROVE Passed(q, l, t)
  <2>1. CASE Passed(q, l, f)
    BY <1>5, <2>1
  <2>2. CASE l >= n /\ \A i \in 1 .. n : q[i] = f[i]
    BY <1>1, <1>7, <2>2
  <2> QED BY <1>6, <1>9, <2>1, <2>2
<1> QED BY <1>8, <1>9

\* The same for the moves of dfs.
LEMMA StackFacts ==
  ASSUME Inv, pc = "dfs"
  PROVE  /\ stack \in Seq(EdgeRef) /\ WordGraph(outgoing)
         /\ Len(stack) \in Nat \ {0} /\ Len(stack) <= depth /\ depth \in Nat
         /\ depth \in FirstDepth .. MaxSearchSize + 1
         /\ stack[1].node = Router
         /\ \A i \in 1 .. Len(stack) - 1 : stack[i + 1].node = EdgeAt(outgoing, stack[i]).to
         /\ Len(stack) > 1 => stack[Len(stack)].node = EdgeAt(outgoing, stack[Len(stack) - 1]).to
<1>1. /\ stack \in Seq(EdgeRef) /\ WordGraph(outgoing)
      /\ Len(stack) \in Nat \ {0} /\ depth \in Nat
  BY TopFacts DEF Inv, TypeOK
<1>2. /\ stack[1].node = Router /\ Len(stack) \in 1 .. depth
      /\ depth \in FirstDepth .. MaxSearchSize + 1
      /\ \A i \in 1 .. Len(stack) - 1 : stack[i + 1].node = EdgeAt(outgoing, stack[i]).to
  BY DEF Inv, StacksAgree
<1>3. ASSUME Len(stack) > 1
      PROVE  stack[Len(stack)].node = EdgeAt(outgoing, stack[Len(stack) - 1]).to
  <2> DEFINE n == Len(stack) - 1
  <2>1. n \in 1 .. Len(stack) - 1 /\ n + 1 = Len(stack)
    BY <1>1, <1>3
  <2>2. stack[n + 1].node = EdgeAt(outgoing, stack[n]).to
    BY <1>2, <2>1
  <2> QED BY <2>1, <2>2
<1> QED BY <1>1, <1>2, <1>3

LEMMA PushPasses ==
  ASSUME Inv, TakeEdge, NEW hash, Push(hash), NEW l \in Nat, NEW q \in Paths(l)
  PROVE  /\ Passed(q, l, stack) => Passed(q, l, stack')
         /\ Passed(q, l, stack') =>
              \/ Passed(q, l, stack)
              \/ l = Len(stack) /\ \A i \in 1 .. l : q[i] = stack[i]
<1> DEFINE e == [node |-> NextEdge.to, pos |-> 1]
<1>1. pc = "dfs" /\ ~AtEnd /\ stack' = Append(stack, e)
  BY DEF TakeEdge, Push
<1>2. e \in EdgeRef /\ e.pos = 1
  BY <1>1, TopFacts DEF Inv, EdgeRef, Place
<1>3. stack \in Seq(EdgeRef) /\ WordGraph(outgoing)
  BY <1>1, StackFacts
<1> HIDE DEF e
<1> QED BY <1>1, <1>2, <1>3, PassedPush

LEMMA AdvancePasses ==
  ASSUME Inv, pc = "dfs", stack' = Advanced(stack), NEW l \in Nat, NEW q \in Paths(l)
  PROVE  /\ Passed(q, l, stack) => Passed(q, l, stack')
         /\ Passed(q, l, stack') =>
              \/ Passed(q, l, stack)
              \/ l >= Len(stack) /\ \A i \in 1 .. Len(stack) : q[i] = stack[i]
<1>1. /\ stack \in Seq(EdgeRef) /\ WordGraph(outgoing) /\ Len(stack) > 0
      /\ stack[1].node = Router
      /\ Len(stack) > 1 => stack[Len(stack)].node = EdgeAt(outgoing, stack[Len(stack) - 1]).to
  BY StackFacts
<1> QED BY <1>1, PassedAdvance

LEMMA BacktrackPasses ==
  ASSUME Inv, Backtrack, NEW l \in Nat, NEW q \in Paths(l)
  PROVE  Passed(q, l, stack') <=> Passed(q, l, stack)
<1>1. pc = "dfs" /\ AtEnd /\ Len(stack) > 1 /\ stack' = Advanced(SubSeq(stack, 1, Len(stack) - 1))
  BY DEF Backtrack
<1>2. /\ stack \in Seq(EdgeRef) /\ WordGraph(outgoing) /\ stack[1].node = Router
      /\ \A i \in 1 .. Len(stack) - 1 : stack[i + 1].node = EdgeAt(outgoing, stack[i]).to
  BY <1>1, StackFacts
<1>3. stack[Len(stack)].pos > Len(Outgoing(outgoing, stack[Len(stack)].node))
  BY <1>1 DEF AtEnd, Top
<1> QED BY <1>1, <1>2, <1>3, PassedBacktrack

\* Above an edge the stack is a path; its key is the one that is looked up.
LEMMA StackIsPath ==
  ASSUME Inv, pc = "dfs", ~AtEnd
  PROVE  /\ stack \in Paths(Len(stack))
         /\ PathHash(outgoing, stack, Len(stack)) = ExtendedHash
         /\ PathKey(stack, Len(stack)) = NextKey
<1> DEFINE n == Len(stack)
<1>1. /\ n \in Nat \ {0} /\ Top = stack[n] /\ Refers(outgoing, Top)
      /\ stack \in Seq(EdgeRef) /\ WordGraph(outgoing)
      /\ ExtendedHash = PathHash(outgoing, stack, n)
  BY TopFacts DEF Inv, TypeOK
<1>2. /\ stack[1].node = Router
      /\ \A i \in 1 .. n - 1 : /\ Refers(outgoing, stack[i])
                               /\ stack[i + 1].node = EdgeAt(outgoing, stack[i]).to
  BY DEF Inv, StacksAgree
<1>3. \A i \in 1 .. n : i = n \/ i \in 1 .. n - 1
  <2>1. n \in Nat
    BY <1>1
  <2> HIDE DEF n
  <2> QED BY <2>1
<1>4. \A i \in 1 .. n : stack[i] \in Refs
  BY <1>1, <1>2, <1>3, RefsRefer
<1>5. stack \in [1 .. n -> Refs]
  BY <1>1, <1>4
<1>6. stack \in Paths(n)
  BY <1>2, <1>5 DEF Paths, Linked
<1>7. PathKey(stack, n) = NextKey
  BY <1>1 DEF PathKey, NextKey, NextEdge
<1> QED BY <1>1, <1>6, <1>7

\* A path that goes on from a pruned one has another path to where it ends, at
\* most as long: an earlier iteration took it, or this one has passed it.
LEMMA Dominated ==
  ASSUME Inv, CacheTrue, CachePrune,
         NEW d \in Nat, Len(stack) <= d, d <= depth,
         NEW p \in Paths(d), \A i \in 1 .. Len(stack) : p[i] = stack[i]
  PROVE  \E k \in Nat : \E r \in Paths(k) :
           /\ k >= 2 /\ k <= d
           /\ PathKey(r, k) = PathKey(p, d)
           /\ PathHash(outgoing, r, k) = PathHash(outgoing, p, d)
           /\ d > Len(stack) => k >= 3 /\ r[k] = p[d]
           /\ k < d \/ (k = d /\ Passed(r, k, stack))
<1> DEFINE n == Len(stack)
           l == cache[NextKey].ceiling
<1>1. /\ pc = "dfs" /\ ~AtEnd /\ n > 1 /\ n # depth
      /\ Superseded(cache[NextKey])
  BY DEF CachePrune, LookUp, TakeEdge, PathSize
<1>2. /\ stack \in Paths(n) /\ PathKey(stack, n) = NextKey
      /\ WordGraph(outgoing) /\ n \in Nat \ {0} /\ n <= depth /\ depth \in Nat /\ n >= 2
      /\ depth \in FirstDepth .. MaxSearchSize + 1
  BY <1>1, StackIsPath, StackFacts
<1>3. NextKey \in CacheKey /\ cache[NextKey] \in Entry
  <2>1. NextKey \in CacheKey
    BY <1>2, EndInHash
  <2> QED BY <2>1 DEF Inv, TypeOK
<1>4. l \in Nat /\ cache[NextKey].created \in Nat
  BY <1>3 DEF Entry
<1>5. /\ l < n \/ (l = n /\ cache[NextKey].created >= depth)
  BY <1>1, <1>2, <1>4 DEF Superseded, PathSize
<1>6. l # NotReached
  <2>1. MaxSearchSize + 1 < 255 /\ MaxSearchSize \in Nat
    BY CacheAssumption, SettingsAssumption DEF NotReached
  <2>2. FirstDepth \in Int
    BY SettingsAssumption DEF FirstDepth
  <2> HIDE DEF l, n
  <2> QED BY <1>2, <1>4, <1>5, <2>1, <2>2 DEF NotReached
<1>7. /\ l >= 2 /\ cache[NextKey].created <= depth
      /\ \E q \in Paths(l) : /\ PathKey(q, l) = NextKey
                             /\ cache[NextKey].created = depth => Passed(q, l, stack)
  BY <1>1, <1>3, <1>6 DEF CacheTrue, EntryTrue
<1>8. PICK q \in Paths(l) : /\ PathKey(q, l) = NextKey
                            /\ cache[NextKey].created = depth => Passed(q, l, stack)
  BY <1>7
<1> DEFINE r == Spliced(q, l, p, n, d)
           k == l + (d - n)
           s == [i \in 1 .. n |-> p[i]]
<1> HIDE DEF l, n
<1>9. s = stack
  <2>1. stack = [i \in 1 .. n |-> stack[i]]
    BY <1>2 DEF Paths
  <2> QED BY <2>1 DEF n
<1>10. /\ EdgeAt(outgoing, q[l]).to = EdgeAt(outgoing, stack[n]).to
       /\ PathHash(outgoing, q, l) = PathHash(outgoing, stack, n)
  BY <1>2, <1>4, <1>7, <1>8, SameKey
<1>11. PathHash(outgoing, stack, n) = PathHash(outgoing, p, n) /\ stack[n] = p[n]
  <2>1. n \in 1 .. n
    BY <1>2
  <2> QED BY <1>2, <2>1, PathHashDepends DEF n
<1>12. n \in 1 .. d /\ l \in Nat \ {0}
  BY <1>2, <1>4, <1>7 DEF n
<1>13. /\ k \in Nat /\ k >= l
       /\ r \in Paths(k)
       /\ \A i \in 1 .. l : r[i] = q[i]
       /\ n < d => r[k] = p[d]
       /\ PathHash(outgoing, r, k) = PathHash(outgoing, p, d)
       /\ PathKey(r, k) = PathKey(p, d)
  <2> HIDE DEF r, k
  <2> QED BY <1>2, <1>8, <1>10, <1>11, <1>12, SplicedIsPath DEF r, k
<1>14. k >= 2 /\ k <= d /\ (d > n => k >= 3) /\ (k < d \/ (k = d /\ l = n))
  <2>1. d \in Nat /\ n \in Nat /\ l \in Nat /\ n <= d /\ l >= 2 /\ l <= n
    BY <1>2, <1>4, <1>5, <1>7, <1>12
  <2> QED BY <2>1
<1>15. ASSUME k = d, l = n PROVE Passed(r, k, stack)
  <2>1. Passed(q, l, stack)
    BY <1>2, <1>4, <1>5, <1>7, <1>8, <1>15
  <2>2. PICK h \in 1 .. Len(stack) :
          h <= l /\ q[h].pos < stack[h].pos /\ \A i \in 1 .. h - 1 : q[i] = stack[i]
    BY <1>4, <1>15, <2>1 DEF Passed, n
  <2>3. h \in 1 .. l /\ (\A i \in 1 .. h - 1 : i \in 1 .. l) /\ h <= k
    BY <1>4, <1>13, <2>2
  <2> QED BY <1>13, <2>2, <2>3 DEF Passed
<1>16. /\ k \in Nat /\ r \in Paths(k)
       /\ k >= 2 /\ k <= d
       /\ PathKey(r, k) = PathKey(p, d)
       /\ PathHash(outgoing, r, k) = PathHash(outgoing, p, d)
       /\ d > n => k >= 3 /\ r[k] = p[d]
       /\ k < d \/ (k = d /\ Passed(r, k, stack))
  BY <1>12, <1>13, <1>14, <1>15
<1> QED BY <1>16 DEF n

-----------------------------------------------------------------------------
\* The graph stays, and so does what is said of its paths.
LEMMA GraphStays ==
  ASSUME outgoing' = outgoing
  PROVE  /\ \A l : Paths(l)' = Paths(l)
         /\ \A q, l : PathKey(q, l)' = PathKey(q, l)
         /\ \A q, l : Covers(q, l)' = Covers(q, l)
         /\ \A q, l : PathHash(outgoing', q, l) = PathHash(outgoing, q, l)
<1>1. Refs' = Refs
  BY DEF Refs
<1> QED BY <1>1 DEF Paths, PathKey, Covers

\* Whatever is reported stays reported.
LEMMA WitnessStays ==
  ASSUME Inv, [Next]_vars, NEW p, NEW l, Witnessed(p, l)
  PROVE  Witnessed(p, l)'
<1>1. CASE solutions' = solutions
  BY <1>1 DEF Witnessed
<1>2. CASE solutions' # solutions
  <2>1. solutions \in Seq(Seq(EdgeRef)) /\ stack \in Seq(EdgeRef)
        /\ solutions' = Append(solutions, stack)
    BY <1>2, LeafReports, OnlyLeafReports
  <2>2. PICK i \in 1 .. Len(solutions) :
          Len(solutions[i]) <= l /\ solutions[i][Len(solutions[i])] = p[l]
    BY DEF Witnessed
  <2>3. i \in 1 .. Len(solutions') /\ solutions'[i] = solutions[i]
    BY <2>1, AppendType
  <2> QED BY <2>2, <2>3 DEF Witnessed
<1> QED BY <1>1, <1>2

LEMMA AnsweredStays ==
  ASSUME Inv, [Next]_vars, outgoing' = outgoing, NEW d, Answered(d)
  PROVE  Answered(d)'
BY GraphStays, WitnessStays DEF Answered

\* The key of an entry that is written is the one of the stack.
LEMMA ExpandTrue ==
  ASSUME Inv, CacheTrue, CacheExpand
  PROVE  CacheTrue'
<1> DEFINE n == Len(stack)
<1>1. /\ pc = "dfs" /\ pc' = "dfs" /\ ~AtEnd /\ depth' = depth /\ outgoing' = outgoing
      /\ TakeEdge /\ Push(ExtendedHash) /\ n > 1
      /\ stack' = Append(stack, [node |-> NextEdge.to, pos |-> 1])
  BY DEF CacheExpand, LookUp, TakeEdge, PathSize, Push
<1>2. /\ stack \in Paths(n) /\ PathKey(stack, n) = NextKey
      /\ WordGraph(outgoing) /\ n \in Nat \ {0} /\ n <= depth /\ depth \in Nat /\ n >= 2
      /\ stack \in Seq(EdgeRef)
  BY <1>1, StackIsPath, StackFacts
<1>3. /\ NextKey \in CacheKey /\ cache \in [CacheKey -> Entry]
      /\ cache' = [cache EXCEPT ![NextKey] = [ceiling |-> n, created |-> depth]]
  BY CacheType DEF PathSize, Inv, TypeOK
<1>4. Passed(stack, n, stack')
  <2>1. Len(stack') = n + 1 /\ \A i \in 1 .. n : stack'[i] = stack[i]
    BY <1>1, <1>2
  <2> QED BY <1>2, <2>1 DEF Passed
<1> HIDE DEF n
<1>5. ASSUME NEW k \in CacheKey PROVE EntryTrue(k)'
  <2>1. CASE k = NextKey
    <3>1. cache'[k].ceiling = n /\ cache'[k].created = depth
      BY <1>3, <2>1
    <3> QED BY <1>1, <1>2, <1>4, <2>1, <3>1, GraphStays DEF EntryTrue
  <2>2. CASE k # NextKey
    <3>1. cache'[k] = cache[k] /\ cache[k] \in Entry
      BY <1>3, <2>2
    <3>2. EntryTrue(k)
      BY <1>1 DEF CacheTrue
    <3>3. ASSUME cache[k].ceiling # NotReached
          PROVE  /\ cache[k].ceiling >= 2 /\ cache[k].created <= depth
                 /\ \E q \in Paths(cache[k].ceiling) :
                      /\ PathKey(q, cache[k].ceiling) = k
                      /\ cache[k].created = depth => Passed(q, cache[k].ceiling, stack')
      <4>1. PICK q \in Paths(cache[k].ceiling) :
                /\ PathKey(q, cache[k].ceiling) = k
                /\ cache[k].created = depth => Passed(q, cache[k].ceiling, stack)
        BY <3>2, <3>3 DEF EntryTrue
      <4>2. cache[k].ceiling \in Nat
        BY <3>1 DEF Entry
      <4>3. Passed(q, cache[k].ceiling, stack) => Passed(q, cache[k].ceiling, stack')
        BY <1>1, <4>2, PushPasses
      <4> QED BY <3>2, <3>3, <4>1, <4>3 DEF EntryTrue
    <3> QED BY <1>1, <3>1, <3>3, GraphStays DEF EntryTrue
  <2> QED BY <2>1, <2>2
<1> QED BY <1>1, <1>5 DEF CacheTrue

\* A move that writes no entry leaves them true: what was passed stays so.
LEMMA MoveTrue ==
  ASSUME Inv, CacheTrue, pc = "dfs", pc' = "dfs", depth' = depth, outgoing' = outgoing,
         cache' = cache,
         \A l \in Nat : \A q \in Paths(l) : Passed(q, l, stack) => Passed(q, l, stack')
  PROVE  CacheTrue'
<1>1. ASSUME NEW k \in CacheKey, cache[k].ceiling # NotReached
      PROVE  /\ cache[k].ceiling >= 2 /\ cache[k].created <= depth
             /\ \E q \in Paths(cache[k].ceiling) :
                  /\ PathKey(q, cache[k].ceiling) = k
                  /\ cache[k].created = depth => Passed(q, cache[k].ceiling, stack')
  <2>1. /\ cache[k].ceiling >= 2 /\ cache[k].created <= depth
        /\ \E q \in Paths(cache[k].ceiling) :
             /\ PathKey(q, cache[k].ceiling) = k
             /\ cache[k].created = depth => Passed(q, cache[k].ceiling, stack)
    BY <1>1 DEF CacheTrue, EntryTrue
  <2>2. cache[k].ceiling \in Nat
    BY <1>1 DEF Inv, TypeOK, Entry
  <2> QED BY <2>1, <2>2
<1>2. \A k \in CacheKey : EntryTrue(k)'
  BY <1>1, GraphStays DEF EntryTrue
<1> QED BY <1>2 DEF CacheTrue

\* In the next iteration every entry is of an earlier one.
LEMMA LaterTrue ==
  ASSUME Inv, CacheTrue, pc = "dfs", pc' = "dfs", depth' = depth + 1, outgoing' = outgoing,
         cache' = cache
  PROVE  CacheTrue'
<1>1. ASSUME NEW k \in CacheKey, cache[k].ceiling # NotReached
      PROVE  /\ cache[k].ceiling >= 2
             /\ cache[k].created <= depth + 1 /\ cache[k].created # depth + 1
             /\ \E q \in Paths(cache[k].ceiling) : PathKey(q, cache[k].ceiling) = k
  <2>1. /\ cache[k].ceiling >= 2 /\ cache[k].created <= depth
        /\ \E q \in Paths(cache[k].ceiling) : PathKey(q, cache[k].ceiling) = k
    BY <1>1 DEF CacheTrue, EntryTrue
  <2>2. cache[k].created \in Nat /\ depth \in Nat
    BY <1>1, StackFacts DEF Inv, TypeOK, Entry
  <2> QED BY <2>1, <2>2
<1>2. \A k \in CacheKey : EntryTrue(k)'
  BY <1>1, GraphStays DEF EntryTrue
<1> QED BY <1>2 DEF CacheTrue

LEMMA CacheTrueNext == Inv /\ CacheTrue /\ [Next]_vars => CacheTrue'
<1> SUFFICES ASSUME Inv, CacheTrue, [Next]_vars PROVE CacheTrue'
  OBVIOUS
<1>1. ASSUME pc' = "done" PROVE CacheTrue'
  BY <1>1 DEF CacheTrue
<1>2. ASSUME TakeEdge, NEW hash, Push(hash), cache' = cache PROVE CacheTrue'
  <2>1. pc = "dfs" /\ pc' = "dfs" /\ depth' = depth /\ outgoing' = outgoing
    BY <1>2 DEF TakeEdge
  <2>2. \A l \in Nat : \A q \in Paths(l) : Passed(q, l, stack) => Passed(q, l, stack')
    BY <1>2, PushPasses
  <2> QED BY <1>2, <2>1, <2>2, MoveTrue
<1>3. ASSUME TakeEdge, Prune, cache' = cache PROVE CacheTrue'
  <2>1. pc = "dfs" /\ pc' = "dfs" /\ depth' = depth /\ outgoing' = outgoing
        /\ stack' = Advanced(stack)
    BY <1>3 DEF TakeEdge, Prune
  <2>2. \A l \in Nat : \A q \in Paths(l) : Passed(q, l, stack) => Passed(q, l, stack')
    BY <2>1, AdvancePasses
  <2> QED BY <1>3, <2>1, <2>2, MoveTrue
<1>4. CASE EarlyTerminate \/ StopDfs \/ LastDepth
  BY <1>1, <1>4 DEF EarlyTerminate, StopDfs, LastDepth
<1>5. CASE StartSearch
  BY <1>5 DEF StartSearch, CacheTrue, EntryTrue
<1>6. CASE NextDepth
  BY <1>6, LaterTrue DEF NextDepth, FinishDfs
<1>7. CASE Backtrack
  <2>1. pc = "dfs" /\ pc' = "dfs" /\ depth' = depth /\ outgoing' = outgoing /\ cache' = cache
    BY <1>7 DEF Backtrack
  <2> QED BY <1>7, <2>1, BacktrackPasses, MoveTrue
<1>8. CASE EnterBox
  BY <1>2, <1>8 DEF EnterBox
<1>9. CASE Leaf
  BY <1>3, <1>9 DEF Leaf
<1>10. CASE ExpandUncached
  BY <1>2, <1>10 DEF ExpandUncached
<1>11. CASE CachePrune
  BY <1>3, <1>11 DEF CachePrune, LookUp
<1>12. CASE CacheExpand
  BY <1>12, ExpandTrue
<1>13. CASE UNCHANGED vars
  <2>1. \A k : EntryTrue(k)' <=> EntryTrue(k)
    BY <1>13, GraphStays DEF vars, EntryTrue
  <2> QED BY <1>13, <2>1 DEF vars, CacheTrue
<1>14. CASE Returned
  BY <1>13, <1>14 DEF Returned
<1> QED
  BY <1>4, <1>5, <1>6, <1>7, <1>8, <1>9, <1>10, <1>11, <1>12, <1>13, <1>14 DEF Next

-----------------------------------------------------------------------------
\* A move of the stack keeps what is answered if it passes no path that covers
\* the box and is not answered.
LEMMA AnswersMove ==
  ASSUME Inv, AnswersInv, [Next]_vars,
         pc = "dfs", pc' = "dfs", depth' = depth, outgoing' = outgoing,
         \A p \in Paths(depth) :
           Covers(p, depth) /\ Passed(p, depth, stack') =>
             Passed(p, depth, stack) \/ Witnessed(p, depth)'
  PROVE  AnswersInv'
<1>1. \A d \in FirstDepth .. depth - 1 : Answered(d)'
  BY AnsweredStays DEF AnswersInv
<1>2. ASSUME NEW p \in Paths(depth), Covers(p, depth), Passed(p, depth, stack')
      PROVE  Witnessed(p, depth)'
  <2>1. CASE Passed(p, depth, stack)
    BY <1>2, <2>1, WitnessStays DEF AnswersInv
  <2> QED BY <1>2, <2>1
<1>3. FirstDepth' = FirstDepth
  BY DEF FirstDepth
<1> QED BY <1>1, <1>2, <1>3, GraphStays DEF AnswersInv

\* A path that goes on from a pruned one is answered by its substitute.
LEMMA PruneAnswers ==
  ASSUME MinSolutionSize <= 2, Inv, CacheTrue, AnswersInv, CachePrune,
         NEW p \in Paths(depth), Covers(p, depth),
         \A i \in 1 .. Len(stack) : p[i] = stack[i]
  PROVE  Witnessed(p, depth)
<1>1. /\ pc = "dfs" /\ Len(stack) # depth
  BY DEF CachePrune, LookUp, TakeEdge, PathSize
<1>2. /\ Len(stack) <= depth /\ depth \in Nat /\ Len(stack) < depth
      /\ depth \in FirstDepth .. MaxSearchSize + 1
  BY <1>1, StackFacts
<1>3. PICK k \in Nat : \E r \in Paths(k) :
        /\ k >= 2 /\ k <= depth
        /\ PathHash(outgoing, r, k) = PathHash(outgoing, p, depth)
        /\ depth > Len(stack) => k >= 3 /\ r[k] = p[depth]
        /\ k < depth \/ (k = depth /\ Passed(r, k, stack))
  BY <1>2, Dominated
<1> PICK r \in Paths(k) :
        /\ k >= 2 /\ k <= depth
        /\ PathHash(outgoing, r, k) = PathHash(outgoing, p, depth)
        /\ depth > Len(stack) => k >= 3 /\ r[k] = p[depth]
        /\ k < depth \/ (k = depth /\ Passed(r, k, stack))
  BY <1>3
<1>4. Covers(r, k) /\ k >= 3 /\ r[k] = p[depth]
  <2>1. depth > Len(stack)
    BY <1>1, <1>2, StackFacts
  <2> QED BY <1>3, <2>1 DEF Covers
<1>5. Witnessed(r, k)
  <2>1. CASE k < depth
    <3>1. k \in FirstDepth .. depth - 1
      BY <1>2, <1>4, <2>1, SettingsAssumption DEF FirstDepth
    <3> QED BY <1>1, <1>4, <3>1 DEF AnswersInv, Answered
  <2>2. CASE k = depth /\ Passed(r, k, stack)
    BY <1>1, <1>4, <2>2 DEF AnswersInv
  <2> QED BY <1>3, <2>1, <2>2
<1>6. PICK i \in 1 .. Len(solutions) :
        Len(solutions[i]) <= k /\ solutions[i][Len(solutions[i])] = r[k]
  BY <1>5 DEF Witnessed
<1>7. Len(solutions[i]) \in Nat
  BY <1>6 DEF Inv, TypeOK
<1>8. Len(solutions[i]) <= depth
  <2> DEFINE a == Len(solutions[i])
  <2>1. a \in Nat /\ a <= k
    BY <1>6, <1>7
  <2> HIDE DEF a
  <2>2. a <= depth
    BY <1>2, <1>3, <2>1
  <2> QED BY <2>2 DEF a
<1> QED BY <1>4, <1>6, <1>8 DEF Witnessed

\* A leaf that covers the box is answered by itself.
LEMMA LeafAnswers ==
  ASSUME Inv, Leaf, NEW p \in Paths(depth), Covers(p, depth),
         \A i \in 1 .. Len(stack) : p[i] = stack[i]
  PROVE  Witnessed(p, depth)'
<1>1. /\ pc = "dfs" /\ ~AtEnd /\ Len(stack) = depth /\ depth' = depth
      /\ solutions' = IF ExtendedHash = SolutionMask THEN Append(solutions, PathView)
                      ELSE solutions
  BY DEF Leaf, TakeEdge, PathSize
<1>2. /\ Len(stack) \in Nat \ {0} /\ solutions \in Seq(Seq(EdgeRef)) /\ stack \in Seq(EdgeRef)
      /\ PathHash(outgoing, stack, Len(stack)) = ExtendedHash
  BY <1>1, StackFacts, StackIsPath DEF Inv, TypeOK
<1>3. ExtendedHash = SolutionMask
  BY <1>1, <1>2, PathHashDepends DEF Covers
<1>4. solutions' = Append(solutions, stack)
  BY <1>1, <1>3, PathFollowsStack DEF Inv
<1> DEFINE m == Len(solutions) + 1
<1>5. m \in 1 .. Len(solutions') /\ solutions'[m] = stack
  BY <1>2, <1>4
<1> HIDE DEF m
<1>6. Len(solutions'[m]) <= depth /\ solutions'[m][Len(solutions'[m])] = p[depth]
  BY <1>1, <1>2, <1>5
<1> QED BY <1>1, <1>5, <1>6 DEF Witnessed

\* When the router has no edge left every path has been passed.
LEMMA AllPassed ==
  ASSUME Inv, FinishDfs, NEW l \in Nat \ {0}, NEW p \in Paths(l)
  PROVE  Passed(p, l, stack)
<1>1. pc = "dfs" /\ AtEnd /\ Len(stack) = 1
  BY DEF FinishDfs
<1>2. stack[1].node = Router /\ WordGraph(outgoing) /\ Top = stack[1]
  BY <1>1, StackFacts DEF Top
<1>3. 1 \in 1 .. l
  OBVIOUS
<1>4. p[1].node = Router /\ Refers(outgoing, p[1]) /\ p[1].pos \in Nat
  BY <1>2, <1>3, PathFacts
<1>5. p[1].pos <= Len(RouterEdges) /\ Top.pos > Len(RouterEdges)
  BY <1>1, <1>2, <1>4 DEF Refers, AtEnd, Outgoing
<1>6. Top.pos \in Nat /\ Len(RouterEdges) \in Nat
  <2>1. Top \in EdgeRef
    BY <1>1, TopFacts DEF Inv
  <2>2. Len(RouterEdges) \in Nat
    BY BoxCharsAssumption DEF RouterEdges
  <2> QED BY <2>1, <2>2 DEF EdgeRef
<1>7. p[1].pos < stack[1].pos
  BY <1>2, <1>4, <1>5, <1>6
<1>8. 1 \in 1 .. Len(stack) /\ 1 <= l /\ 1 .. 1 - 1 = {}
  BY <1>1, <1>3
<1> QED BY <1>7, <1>8 DEF Passed

\* At the beginning of an iteration no path has been passed.
LEMMA NonePassed ==
  ASSUME WordGraph(outgoing), CallDfs, NEW l \in Nat \ {0}, NEW p \in Paths(l)
  PROVE  ~Passed(p, l, stack')
<1>1. Len(stack') = 1 /\ stack'[1].pos = 1
  BY DEF CallDfs
<1>2. 1 \in 1 .. l
  OBVIOUS
<1>3. p[1].pos \in Nat \ {0}
  BY <1>2, PathFacts
<1>4. ~(p[1].pos < 1) /\ \A k \in 1 .. 1 : k = 1
  BY <1>3
<1> QED BY <1>1, <1>4 DEF Passed

\* A box with a letter in no word has no covering path.
LEMMA NoneCovers ==
  ASSUME Inv, EarlyTerminateInstance, NEW l \in Nat, l >= 2, NEW p \in Paths(l)
  PROVE  ~Covers(p, l)
<1>1. WordGraph(outgoing)
  BY GraphsAssumption DEF Inv, TypeOK
<1> SUFFICES ASSUME Covers(p, l) PROVE FALSE
  OBVIOUS
<1>2. ASSUME NEW c \in Node
      PROVE  c \in UNION { outgoing[r.node][r.pos].wordHash : r \in WordRefs(outgoing) }
  <2>1. PICK i \in 1 .. l : c \in EdgeAt(outgoing, p[i]).wordHash
    BY DEF Covers, PathHash, SolutionMask
  <2>2. i # 1
    <3>1. ASSUME i = 1 PROVE FALSE
      <4>1. p[1].node = Router /\ Refers(outgoing, p[1])
        BY <1>1, <3>1, PathFacts
      <4>2. p[1].pos \in 1 .. BoxChars
        BY <4>1, BoxCharsAssumption DEF Refers, EdgeRef, Outgoing, RouterEdges
      <4>3. EdgeAt(outgoing, p[1]).wordHash = {}
        BY <4>1, <4>2 DEF EdgeAt, Outgoing, RouterEdges
      <4> QED BY <2>1, <3>1, <4>3
    <3> QED BY <3>1
  <2>3. i \in 2 .. l
    BY <2>2
  <2>4. p[i].node \in Node /\ Refers(outgoing, p[i]) /\ p[i] \in EdgeRef
    BY <1>1, <2>3, PathFacts
  <2>5. /\ EdgeAt(outgoing, p[i]) = outgoing[p[i].node][p[i].pos]
        /\ p[i].pos \in 1 .. Len(outgoing[p[i].node])
        /\ p[i] = [node |-> p[i].node, pos |-> p[i].pos]
    BY <1>1, <2>4, BoxCharsAssumption
    DEF EdgeAt, Outgoing, Node, Router, Refers, EdgeRef, WordGraph
  <2>6. p[i] \in WordRefs(outgoing)
    BY <2>4, <2>5 DEF WordRefs
  <2> QED BY <2>1, <2>5, <2>6
<1>3. ASSUME NEW r \in WordRefs(outgoing), NEW c \in outgoing[r.node][r.pos].wordHash
      PROVE  c \in Node
  <2>1. PICK n \in Node : r \in { [node |-> n, pos |-> i] : i \in 1 .. Len(outgoing[n]) }
    BY DEF WordRefs
  <2>2. PICK i \in 1 .. Len(outgoing[n]) : r = [node |-> n, pos |-> i]
    BY <2>1
  <2>3. outgoing[n] \in Seq(WordEdge)
    BY <1>1 DEF WordGraph
  <2>4. outgoing[n][i] \in WordEdge
    BY <2>3
  <2> QED BY <2>2, <2>4 DEF WordEdge
<1>4. UNION { outgoing[r.node][r.pos].wordHash : r \in WordRefs(outgoing) } = Node
  BY <1>2, <1>3
<1> QED BY <1>4 DEF EarlyTerminateInstance, SolutionMask

LEMMA AnswersNext ==
  ASSUME MinSolutionSize <= 2
  PROVE  Inv /\ CacheTrue /\ AnswersInv /\ [Next]_vars => AnswersInv'
<1> SUFFICES ASSUME Inv, CacheTrue, AnswersInv, [Next]_vars PROVE AnswersInv'
  OBVIOUS
<1> USE SettingsAssumption
<1>0. FirstDepth' = FirstDepth /\ FirstDepth \in Nat /\ FirstDepth >= 2
  BY DEF FirstDepth
<1>1. ASSUME TakeEdge, NEW hash, Push(hash), Len(stack) < depth PROVE AnswersInv'
  <2>1. pc = "dfs" /\ pc' = "dfs" /\ depth' = depth /\ outgoing' = outgoing
    BY <1>1 DEF TakeEdge
  <2>2. ASSUME NEW p \in Paths(depth), Passed(p, depth, stack')
        PROVE  Passed(p, depth, stack)
    <3>1. depth \in Nat /\ depth # Len(stack)
      BY <1>1, <2>1, StackFacts
    <3> QED BY <1>1, <2>2, <3>1, PushPasses
  <2> QED BY <2>1, <2>2, AnswersMove
<1>2. ASSUME TakeEdge, Prune,
             \A p \in Paths(depth) :
               Covers(p, depth) /\ (\A i \in 1 .. Len(stack) : p[i] = stack[i])
                 => Witnessed(p, depth)'
      PROVE  AnswersInv'
  <2>1. pc = "dfs" /\ pc' = "dfs" /\ depth' = depth /\ outgoing' = outgoing
        /\ stack' = Advanced(stack)
    BY <1>2 DEF TakeEdge, Prune
  <2>2. depth \in Nat
    BY <2>1, StackFacts
  <2>3. \A p \in Paths(depth) :
           Covers(p, depth) /\ Passed(p, depth, stack') =>
             Passed(p, depth, stack) \/ Witnessed(p, depth)'
    BY <1>2, <2>1, <2>2, AdvancePasses
  <2> QED BY <2>1, <2>3, AnswersMove
<1>3. CASE EarlyTerminate
  <2>1. pc' = "done" /\ outgoing' = outgoing /\ EarlyTerminateInstance
    BY <1>3 DEF EarlyTerminate
  <2>2. ASSUME NEW d \in FirstDepth .. MaxSearchSize + 1 PROVE Answered(d)'
    <3>1. d \in Nat /\ d >= 2
      BY <1>0
    <3> QED BY <2>1, <3>1, NoneCovers, GraphStays DEF Answered
  <2> QED BY <1>0, <2>1, <2>2 DEF AnswersInv
<1>4. CASE StartSearch
  <2>1. pc' = "dfs" /\ outgoing' = outgoing /\ CallDfs /\ depth' = FirstDepth
    BY <1>4 DEF StartSearch
  <2>2. FirstDepth .. depth' - 1 = {}
    BY <1>0, <2>1
  <2>3. WordGraph(outgoing)
    BY GraphsAssumption DEF Inv, TypeOK
  <2>4. \A p \in Paths(depth') : ~Passed(p, depth', stack')
    BY <1>0, <2>1, <2>3, NonePassed
  <2> QED BY <1>0, <2>1, <2>2, <2>4, GraphStays DEF AnswersInv
<1>5. CASE StopDfs
  <2>1. pc' = "done" /\ StopFn'
    BY <1>5 DEF StopDfs, StopFn
  <2> QED BY <2>1 DEF AnswersInv
<1>6. ASSUME FinishDfs, NEW d \in FirstDepth .. depth PROVE Answered(d)'
  <2>1. pc = "dfs" /\ outgoing' = outgoing /\ depth \in Nat
    BY <1>6, StackFacts DEF FinishDfs
  <2>2. Answered(d)
    <3>1. CASE d \in FirstDepth .. depth - 1
      BY <2>1, <3>1 DEF AnswersInv
    <3>2. CASE d = depth
      <4>1. depth \in Nat \ {0}
        BY <1>0, <2>1, <3>2
      <4> QED BY <1>6, <2>1, <3>2, <4>1, AllPassed DEF AnswersInv, Answered
    <3> QED BY <1>0, <2>1, <3>1, <3>2
  <2> QED BY <2>1, <2>2, AnsweredStays
<1>7. CASE NextDepth
  <2>1. pc = "dfs" /\ pc' = "dfs" /\ outgoing' = outgoing /\ CallDfs /\ depth' = depth + 1
        /\ FinishDfs
    BY <1>7 DEF NextDepth, FinishDfs
  <2>2. depth \in Nat /\ depth' \in Nat \ {0} /\ depth' - 1 = depth /\ WordGraph(outgoing)
    BY <2>1, StackFacts
  <2>3. \A p \in Paths(depth') : ~Passed(p, depth', stack')
    BY <2>1, <2>2, NonePassed
  <2>4. \A d \in FirstDepth .. depth' - 1 : Answered(d)'
    BY <1>6, <2>1, <2>2
  <2> QED BY <1>0, <2>1, <2>3, <2>4, GraphStays DEF AnswersInv
<1>8. CASE LastDepth
  <2>1. pc = "dfs" /\ pc' = "done" /\ outgoing' = outgoing /\ FinishDfs /\ ~MoreDepths
    BY <1>8 DEF LastDepth, FinishDfs
  <2>2. depth \in FirstDepth .. MaxSearchSize + 1 /\ ~(depth <= MaxSearchSize)
    BY <2>1, StackFacts DEF MoreDepths
  <2>3. depth = MaxSearchSize + 1
    BY <1>0, <2>2
  <2>4. \A d \in FirstDepth .. MaxSearchSize + 1 : Answered(d)'
    BY <1>6, <2>1, <2>3
  <2> QED BY <1>0, <2>1, <2>4 DEF AnswersInv
<1>9. CASE Backtrack
  <2>1. pc = "dfs" /\ pc' = "dfs" /\ depth' = depth /\ outgoing' = outgoing
    BY <1>9 DEF Backtrack
  <2>2. depth \in Nat
    BY <2>1, StackFacts
  <2> QED BY <1>9, <2>1, <2>2, BacktrackPasses, AnswersMove
<1>10. CASE EnterBox
  <2>1. TakeEdge /\ Push({}) /\ Len(stack) <= 1
    BY <1>10 DEF EnterBox, PathSize
  <2>2. Len(stack) < depth
    <3>1. pc = "dfs"
      BY <2>1 DEF TakeEdge
    <3>2. Len(stack) \in Nat \ {0} /\ depth \in FirstDepth .. MaxSearchSize + 1
      BY <3>1, StackFacts
    <3> QED BY <1>0, <2>1, <3>2
  <2> QED BY <1>1, <2>1, <2>2
<1>11. CASE Leaf
  <2>1. TakeEdge /\ Prune
    BY <1>11 DEF Leaf
  <2> QED BY <1>2, <1>11, <2>1, LeafAnswers
<1>12. ASSUME TakeEdge, Push(ExtendedHash), PathSize # depth PROVE AnswersInv'
  <2>1. pc = "dfs"
    BY <1>12 DEF TakeEdge
  <2>2. Len(stack) < depth
    BY <1>12, <2>1, StackFacts DEF PathSize
  <2> QED BY <1>1, <1>12, <2>2
<1>13. CASE ExpandUncached
  BY <1>12, <1>13 DEF ExpandUncached
<1>14. CASE CachePrune
  <2>1. TakeEdge /\ Prune /\ depth' = depth
    BY <1>14 DEF CachePrune, LookUp, TakeEdge
  <2>2. \A p \in Paths(depth) :
          Covers(p, depth) /\ (\A i \in 1 .. Len(stack) : p[i] = stack[i]) => Witnessed(p, depth)'
    BY <1>14, <2>1, PruneAnswers, WitnessStays
  <2> QED BY <1>2, <2>1, <2>2
<1>15. CASE CacheExpand
  BY <1>12, <1>15 DEF CacheExpand, LookUp
<1>16. CASE UNCHANGED vars
  <2>1. \A d : Answered(d)' <=> Answered(d)
    BY <1>16, GraphStays DEF vars, Answered, Witnessed
  <2> QED BY <1>0, <1>16, <2>1, GraphStays DEF vars, AnswersInv, StopFn, Witnessed
<1>17. CASE Returned
  BY <1>16, <1>17 DEF Returned
<1> QED
  BY <1>3, <1>4, <1>5, <1>7, <1>8, <1>9, <1>10, <1>11, <1>13, <1>14, <1>15, <1>16, <1>17
  DEF Next

-----------------------------------------------------------------------------
(***************************************************************************)
(* Chains of words are paths without the edge of the router.               *)
(***************************************************************************)
PathOf(c, k) ==
  [i \in 1 .. k + 1 |-> IF i = 1 THEN [node |-> Router, pos |-> c[1].node + 1] ELSE c[i - 1]]

LEMMA WordRefsRefer ==
  ASSUME WordGraph(outgoing)
  PROVE  \A ref : ref \in WordRefs(outgoing) <=> Refers(outgoing, ref) /\ ref.node \in Node
<1>1. ASSUME NEW ref, ref \in WordRefs(outgoing)
      PROVE  Refers(outgoing, ref) /\ ref.node \in Node
  <2>1. PICK n \in Node : ref \in { [node |-> n, pos |-> i] : i \in 1 .. Len(outgoing[n]) }
    BY <1>1 DEF WordRefs
  <2>2. PICK i \in 1 .. Len(outgoing[n]) : ref = [node |-> n, pos |-> i]
    BY <2>1
  <2>3. n # Router /\ outgoing[n] \in Seq(WordEdge)
    BY BoxCharsAssumption DEF Node, Router, WordGraph
  <2>4. i \in Nat \ {0} /\ i <= Len(outgoing[n])
    BY <2>3
  <2> QED BY <2>2, <2>3, <2>4 DEF Refers, EdgeRef, Place, Outgoing
<1>2. ASSUME NEW ref, Refers(outgoing, ref), ref.node \in Node
      PROVE  ref \in WordRefs(outgoing)
  <2>1. ref.node # Router /\ outgoing[ref.node] \in Seq(WordEdge)
    BY <1>2, BoxCharsAssumption DEF Node, Router, WordGraph
  <2>2. /\ ref = [node |-> ref.node, pos |-> ref.pos]
        /\ ref.pos \in 1 .. Len(outgoing[ref.node])
    BY <1>2, <2>1 DEF Refers, EdgeRef, Outgoing
  <2> QED BY <1>2, <2>2 DEF WordRefs
<1> QED BY <1>1, <1>2

\* The edges of the router.
LEMMA RouterEdge ==
  ASSUME NEW ref, Refers(outgoing, ref), ref.node = Router
  PROVE  /\ ref = [node |-> Router, pos |-> ref.pos] /\ ref.pos \in 1 .. BoxChars
         /\ EdgeAt(outgoing, ref).to = ref.pos - 1
         /\ EdgeAt(outgoing, ref).wordHash = {}
<1>1. ref = [node |-> Router, pos |-> ref.pos] /\ ref.pos \in 1 .. BoxChars
  BY BoxCharsAssumption DEF Refers, EdgeRef, Outgoing, RouterEdges
<1> QED BY <1>1 DEF EdgeAt, Outgoing, RouterEdges

LEMMA ChainIsPath ==
  ASSUME WordGraph(outgoing), NEW k \in Nat \ {0},
         NEW c \in [1 .. k -> WordRefs(outgoing)], Linked(outgoing, c, k)
  PROVE  /\ PathOf(c, k) \in Paths(k + 1)
         /\ PathHash(outgoing, PathOf(c, k), k + 1) = PathHash(outgoing, c, k)
         /\ PathOf(c, k)[k + 1] = c[k]
<1> DEFINE p == PathOf(c, k)
           r == [node |-> Router, pos |-> c[1].node + 1]
<1>1. \A i \in 1 .. k : Refers(outgoing, c[i]) /\ c[i].node \in Node
  BY WordRefsRefer
<1>2. /\ 1 \in 1 .. k + 1 /\ p[1] = r
      /\ \A i \in 1 .. k : i + 1 \in 1 .. k + 1 /\ p[i + 1] = c[i]
  <2>1. 1 \in 1 .. k + 1 /\ \A i \in 1 .. k : i + 1 \in 1 .. k + 1 /\ i + 1 # 1 /\ (i + 1) - 1 = i
    OBVIOUS
  <2> QED BY <2>1 DEF PathOf
<1>3. \A j \in 1 .. k + 1 : j = 1 \/ (j - 1 \in 1 .. k /\ (j - 1) + 1 = j)
  OBVIOUS
<1>4. Refers(outgoing, r)
  <2>1. c[1].node \in 0 .. BoxChars - 1
    <3>1. 1 \in 1 .. k
      OBVIOUS
    <3> QED BY <1>1, <3>1 DEF Node
  <2>2. c[1].node + 1 \in Nat \ {0} /\ c[1].node + 1 <= BoxChars
    BY <2>1, BoxCharsAssumption
  <2>3. Len(RouterEdges) = BoxChars
    BY BoxCharsAssumption DEF RouterEdges
  <2> QED BY <2>2, <2>3 DEF Refers, EdgeRef, Place, Outgoing
<1>5. EdgeAt(outgoing, r).to = c[1].node /\ EdgeAt(outgoing, r).wordHash = {}
  <2>1. EdgeAt(outgoing, r).to = r.pos - 1 /\ EdgeAt(outgoing, r).wordHash = {}
    BY <1>4, RouterEdge
  <2>2. 1 \in 1 .. k
    OBVIOUS
  <2>3. c[1].node \in Int
    BY <1>1, <2>2 DEF Node
  <2> QED BY <2>1, <2>3
<1> HIDE DEF r
<1>6. p \in [1 .. k + 1 -> Refs]
  <2>1. \A j \in 1 .. k + 1 : Refers(outgoing, p[j])
    <3> HIDE DEF p
    <3> QED BY <1>1, <1>2, <1>3, <1>4
  <2>2. \A j \in 1 .. k + 1 : p[j] \in Refs
    BY <2>1, RefsRefer
  <2>3. p = [j \in 1 .. k + 1 |-> p[j]]
    BY DEF PathOf
  <2> HIDE DEF p
  <2> QED BY <2>2, <2>3
<1>7. Linked(outgoing, p, k + 1)
  <2> SUFFICES ASSUME NEW j \in 1 .. (k + 1) - 1
               PROVE  EdgeAt(outgoing, p[j]).to = p[j + 1].node
    BY DEF Linked
  <2>0. j \in 1 .. k /\ p[j + 1] = c[j]
    BY <1>2
  <2>1. CASE j = 1
    BY <1>2, <1>5, <2>0, <2>1
  <2>2. CASE j # 1
    <3>1. j - 1 \in 1 .. k - 1 /\ j - 1 \in 1 .. k /\ (j - 1) + 1 = j
      BY <2>0, <2>2
    <3>2. p[j] = c[j - 1]
      <4> HIDE DEF p
      <4>1. p[(j - 1) + 1] = c[j - 1]
        BY <1>2, <3>1
      <4> QED BY <3>1, <4>1
    <3>3. EdgeAt(outgoing, c[j - 1]).to = c[(j - 1) + 1].node
      BY <3>1 DEF Linked
    <3> QED BY <2>0, <3>1, <3>2, <3>3
  <2> QED BY <2>1, <2>2
<1>8. p \in Paths(k + 1)
  <2>1. p[1].node = Router
    BY <1>2 DEF r
  <2> QED BY <1>6, <1>7, <2>1 DEF Paths
<1>9. PathHash(outgoing, p, k + 1) = PathHash(outgoing, c, k)
  <2> HIDE DEF p
  <2>1. ASSUME NEW x, x \in PathHash(outgoing, p, k + 1) PROVE x \in PathHash(outgoing, c, k)
    <3>1. PICK j \in 1 .. k + 1 : x \in EdgeAt(outgoing, p[j]).wordHash
      BY <2>1 DEF PathHash
    <3>2. j # 1
      BY <1>2, <1>5, <3>1
    <3>3. j - 1 \in 1 .. k /\ p[j] = c[j - 1]
      <4>1. j - 1 \in 1 .. k /\ (j - 1) + 1 = j
        BY <1>3, <3>2
      <4> QED BY <1>2, <4>1
    <3> QED BY <3>1, <3>3 DEF PathHash
  <2>2. ASSUME NEW x, x \in PathHash(outgoing, c, k) PROVE x \in PathHash(outgoing, p, k + 1)
    <3>1. PICK j \in 1 .. k : x \in EdgeAt(outgoing, c[j]).wordHash
      BY <2>2 DEF PathHash
    <3>2. j + 1 \in 1 .. k + 1 /\ p[j + 1] = c[j]
      BY <1>2
    <3> QED BY <3>1, <3>2 DEF PathHash
  <2>3. \A A, B : (\A x : x \in A <=> x \in B) => A = B
    OBVIOUS
  <2> QED BY <2>1, <2>2, <2>3, Zenon
<1>10. p[k + 1] = c[k]
  BY <1>2
<1> QED BY <1>8, <1>9, <1>10

LEMMA WordsFacts ==
  ASSUME NEW p \in Seq(EdgeRef), Len(p) >= 2
  PROVE  /\ WordsOf(p) \in [1 .. Len(p) - 1 -> EdgeRef] /\ WordsOf(p) \in Seq(EdgeRef)
         /\ Len(WordsOf(p)) = Len(p) - 1
         /\ \A i \in 1 .. Len(p) - 1 : WordsOf(p)[i] = p[i + 1]
<1> DEFINE n == Len(p)
<1>1. n \in Nat /\ n >= 2 /\ p \in [1 .. n -> EdgeRef]
  OBVIOUS
<1>2. WordsOf(p) = [i \in 1 .. (1 + n) - 2 |-> p[(i + 2) - 1]]
  BY DEF WordsOf
<1> HIDE DEF n
<1>3. /\ (1 + n) - 2 = n - 1 /\ n - 1 \in Nat
      /\ \A i \in 1 .. n - 1 : (i + 2) - 1 = i + 1 /\ i + 1 \in 1 .. n
  BY <1>1
<1>4. WordsOf(p) = [i \in 1 .. n - 1 |-> p[i + 1]]
  BY <1>2, <1>3
<1>5. WordsOf(p) \in [1 .. n - 1 -> EdgeRef]
  BY <1>1, <1>3, <1>4
<1>6. WordsOf(p) \in Seq(EdgeRef) /\ Len(WordsOf(p)) = n - 1
  BY <1>3, <1>5
<1>7. \A i \in 1 .. n - 1 : WordsOf(p)[i] = p[i + 1]
  BY <1>4
<1> QED BY <1>5, <1>6, <1>7 DEF n

\* The words of a path are a chain with the same letters.
LEMMA PathIsChain ==
  ASSUME WordGraph(outgoing), NEW k \in Nat \ {0}, NEW p \in Paths(k + 1),
         NEW w, w \in [1 .. k -> EdgeRef], \A i \in 1 .. k : w[i] = p[i + 1]
  PROVE  /\ w \in Chains(k)
         /\ PathHash(outgoing, w, k) = PathHash(outgoing, p, k + 1)
<1>1. k + 1 \in Nat
  OBVIOUS
<1>2. /\ p[1].node = Router
      /\ \A i \in 2 .. k + 1 : p[i].node \in Node
      /\ \A i \in 1 .. k + 1 : Refers(outgoing, p[i])
      /\ Linked(outgoing, p, k + 1)
  BY <1>1, PathFacts
<1>3. w \in [1 .. k -> WordRefs(outgoing)]
  <2>1. ASSUME NEW i \in 1 .. k PROVE w[i] \in WordRefs(outgoing)
    <3>1. i + 1 \in 2 .. k + 1 /\ i + 1 \in 1 .. k + 1
      OBVIOUS
    <3> QED BY <1>2, <3>1, WordRefsRefer
  <2> QED BY <2>1
<1>4. Linked(outgoing, w, k)
  <2> SUFFICES ASSUME NEW i \in 1 .. k - 1
               PROVE  EdgeAt(outgoing, w[i]).to = w[i + 1].node
    BY DEF Linked
  <2>1. i \in 1 .. k /\ i + 1 \in 1 .. k /\ i + 1 \in 1 .. (k + 1) - 1
    OBVIOUS
  <2>2. EdgeAt(outgoing, p[i + 1]).to = p[(i + 1) + 1].node
    BY <1>2, <2>1 DEF Linked
  <2> QED BY <2>1, <2>2
<1>5. PathHash(outgoing, w, k) = PathHash(outgoing, p, k + 1)
  <2>1. ASSUME NEW x, x \in PathHash(outgoing, p, k + 1) PROVE x \in PathHash(outgoing, w, k)
    <3>1. PICK i \in 1 .. k + 1 : x \in EdgeAt(outgoing, p[i]).wordHash
      BY <2>1 DEF PathHash
    <3>2. i # 1
      <4>1. i = 1 => EdgeAt(outgoing, p[i]).wordHash = {}
        BY <1>2, RouterEdge
      <4> QED BY <3>1, <4>1
    <3>3. i - 1 \in 1 .. k /\ (i - 1) + 1 = i
      BY <3>2
    <3>4. w[i - 1] = p[i]
      BY <3>3
    <3> QED BY <3>1, <3>3, <3>4 DEF PathHash
  <2>2. ASSUME NEW x, x \in PathHash(outgoing, w, k) PROVE x \in PathHash(outgoing, p, k + 1)
    <3>1. PICK i \in 1 .. k : x \in EdgeAt(outgoing, w[i]).wordHash
      BY <2>2 DEF PathHash
    <3>2. i + 1 \in 1 .. k + 1 /\ w[i] = p[i + 1]
      OBVIOUS
    <3> QED BY <3>1, <3>2 DEF PathHash
  <2>3. \A A, B : (\A x : x \in A <=> x \in B) => A = B
    OBVIOUS
  <2> QED BY <2>1, <2>2, <2>3, Zenon
<1> QED BY <1>3, <1>4, <1>5 DEF Chains

\* The words of a solution are a covering chain.
LEMMA SolutionIsChain ==
  ASSUME WordGraph(outgoing), NEW p \in Seq(EdgeRef), IsSolution(outgoing, p)
  PROVE  /\ Len(p) - 1 \in MinSolutionSize .. MaxSearchSize
         /\ Len(p) >= 2
         /\ WordsOf(p) \in CoveringChains(outgoing, Len(p) - 1)
<1> DEFINE n == Len(p) - 1
           w == WordsOf(p)
<1>1. /\ n \in MinSolutionSize .. MaxSearchSize /\ Len(p) >= 2 /\ n \in Nat \ {0} /\ Len(p) = n + 1
      /\ n + 1 \in Nat
  <2> DEFINE m == Len(p)
  <2>1. m \in MinSolutionSize + 1 .. MaxSearchSize + 1
    BY DEF IsSolution
  <2>2. MinSolutionSize \in Nat \ {0} /\ MaxSearchSize \in Nat
    BY SettingsAssumption
  <2> HIDE DEF m
  <2>3. m - 1 \in MinSolutionSize .. MaxSearchSize /\ m >= 2 /\ m - 1 \in Nat \ {0} /\ m = (m - 1) + 1
        /\ (m - 1) + 1 \in Nat
    BY <2>1, <2>2
  <2> QED BY <2>3 DEF m
<1>2. /\ w \in [1 .. n -> EdgeRef]
      /\ \A i \in 1 .. n : w[i] = p[i + 1]
  BY <1>1, WordsFacts
<1>3. /\ p[1].node = Router
      /\ \A i \in 1 .. n + 1 : Refers(outgoing, p[i])
      /\ Linked(outgoing, p, n + 1)
      /\ PathHash(outgoing, p, n + 1) = SolutionMask
  BY <1>1 DEF IsSolution
<1>4. p \in Paths(n + 1)
  <2>1. p \in [1 .. n + 1 -> Refs]
    <3>1. p = [i \in 1 .. n + 1 |-> p[i]]
      BY <1>1
    <3> QED BY <1>3, <3>1, RefsRefer
  <2> QED BY <1>3, <2>1 DEF Paths
<1> HIDE DEF w, n
<1>5. w \in Chains(n) /\ PathHash(outgoing, w, n) = SolutionMask
  BY <1>1, <1>2, <1>3, <1>4, PathIsChain
<1>6. w \in CoveringChains(outgoing, n)
  BY <1>5 DEF CoveringChains, Chains
<1> QED BY <1>1, <1>6 DEF w, n

\* The edge of the router is the one to the first word.
LEMMA WordsTell ==
  ASSUME WordGraph(outgoing), NEW p \in Seq(EdgeRef), NEW q \in Seq(EdgeRef),
         IsSolution(outgoing, p), IsSolution(outgoing, q), WordsOf(p) = WordsOf(q)
  PROVE  p = q
<1> DEFINE n == Len(p)
<1>1. /\ Len(p) >= 2 /\ Len(q) >= 2 /\ Len(p) \in Nat /\ Len(q) \in Nat
      /\ Len(WordsOf(p)) = Len(p) - 1 /\ Len(WordsOf(q)) = Len(q) - 1
      /\ \A i \in 1 .. Len(p) - 1 : WordsOf(p)[i] = p[i + 1]
      /\ \A i \in 1 .. Len(q) - 1 : WordsOf(q)[i] = q[i + 1]
  BY SolutionIsChain, WordsFacts
<1>2. Len(q) = n /\ n \in Nat /\ n >= 2
  BY <1>1
<1>3. \A i \in 1 .. n - 1 : p[i + 1] = q[i + 1]
  BY <1>1, <1>2
<1>4. /\ p[1].node = Router /\ Refers(outgoing, p[1]) /\ EdgeAt(outgoing, p[1]).to = p[1 + 1].node
      /\ q[1].node = Router /\ Refers(outgoing, q[1]) /\ EdgeAt(outgoing, q[1]).to = q[1 + 1].node
  <2>1. 1 \in 1 .. n /\ 1 \in 1 .. n - 1
    BY <1>2
  <2> QED BY <1>2, <2>1 DEF IsSolution, Linked
<1>5. 1 \in 1 .. n - 1 /\ p[1 + 1] = q[1 + 1]
  <2> HIDE DEF n
  <2>1. 1 \in 1 .. n - 1
    BY <1>2
  <2> QED BY <1>3, <2>1
<1>6. p[1] = q[1]
  <2>1. /\ p[1] = [node |-> Router, pos |-> p[1].pos] /\ p[1].pos \in 1 .. BoxChars
        /\ q[1] = [node |-> Router, pos |-> q[1].pos] /\ q[1].pos \in 1 .. BoxChars
        /\ p[1].pos - 1 = q[1].pos - 1
    BY <1>4, <1>5, RouterEdge
  <2>2. p[1].pos = q[1].pos
    BY <2>1
  <2> QED BY <2>1, <2>2
<1>7. \A i \in 1 .. n : i = 1 \/ (i - 1 \in 1 .. n - 1 /\ (i - 1) + 1 = i)
  BY <1>2
<1> HIDE DEF n
<1>8. \A i \in 1 .. n : p[i] = q[i]
  BY <1>3, <1>6, <1>7
<1> QED BY <1>2, <1>8 DEF n

-----------------------------------------------------------------------------
FoundInv == CacheTrue /\ AnswersInv

LEMMA FoundInit == Init => FoundInv
<1> SUFFICES ASSUME Init PROVE FoundInv
  OBVIOUS
<1>1. pc = "start" /\ solutions = <<>> /\ cache = [k \in CacheKey |-> [ceiling |-> NotReached, created |-> 0]]
  BY DEF Init, InitSearch
<1> QED BY <1>1 DEF FoundInv, CacheTrue, AnswersInv

LEMMA FoundNext ==
  ASSUME MinSolutionSize <= 2
  PROVE  Inv /\ FoundInv /\ [Next]_vars => FoundInv'
BY CacheTrueNext, AnswersNext DEF FoundInv

LEMMA FoundMeans == Inv /\ FoundInv => FinalWordsComplete
<1> SUFFICES ASSUME Inv, AnswersInv, pc = "done", ~StopFn,
                    NEW k \in MinSolutionSize .. MaxSearchSize,
                    NEW c \in CoveringChains(outgoing, k)
             PROVE  \E i \in 1 .. Len(solutions) :
                      /\ Len(WordsOf(solutions[i])) <= k
                      /\ solutions[i][Len(solutions[i])] = c[k]
  BY DEF FinalWordsComplete, FoundInv
<1>1. k \in Nat \ {0} /\ k + 1 \in FirstDepth .. MaxSearchSize + 1
  BY SettingsAssumption DEF FirstDepth
<1>2. WordGraph(outgoing)
  BY GraphsAssumption DEF Inv, TypeOK
<1>3. /\ PathOf(c, k) \in Paths(k + 1) /\ Covers(PathOf(c, k), k + 1)
      /\ PathOf(c, k)[k + 1] = c[k]
  BY <1>1, <1>2, ChainIsPath DEF CoveringChains, Covers
<1>4. PICK i \in 1 .. Len(solutions) :
        Len(solutions[i]) <= k + 1 /\ solutions[i][Len(solutions[i])] = c[k]
  BY <1>1, <1>3 DEF AnswersInv, Answered, Witnessed
<1>5. solutions[i] \in Seq(EdgeRef)
  BY <1>4 DEF Inv, TypeOK
<1>6. Len(WordsOf(solutions[i])) <= k
  <2> DEFINE n == Len(solutions[i])
  <2>1. Len(WordsOf(solutions[i])) = IF n >= 2 THEN n - 1 ELSE 0
    BY <1>5 DEF WordsOf
  <2>2. n \in Nat /\ n <= k + 1
    BY <1>4, <1>5
  <2> HIDE DEF n
  <2> QED BY <1>1, <2>1, <2>2
<1> QED BY <1>4, <1>6

\* Pruning loses no answer: whatever covering chain there is, a solution no
\* longer than it that ends in the same word is returned, unless the limit was
\* hit (solver.hpp:93-146).  The substitute for a pruned path may have one word
\* less, so the first size that is searched must not be above two; it is one.
THEOREM PruningLosesNone ==
  ASSUME MinSolutionSize <= 2
  PROVE  Spec => []FinalWordsComplete
<1> QED BY FoundMeans, FoundNext, FoundInit, InvInit, InvNext, PTL DEF Spec

-----------------------------------------------------------------------------
(***************************************************************************)
(* Whatever is shorter than a solution has been answered before it, also   *)
(* when the limit stops the search in the middle of a size.                *)
(***************************************************************************)
ShorterAnswered ==
  \A i \in 1 .. Len(solutions) :
    \A d \in Nat : d >= FirstDepth /\ d < Len(solutions[i]) => Answered(d)

LEMMA ShorterInit == Init => ShorterAnswered
BY DEF Init, InitSearch, ShorterAnswered

LEMMA ShorterNext ==
  Inv /\ FoundInv /\ ShorterAnswered /\ [Next]_vars => ShorterAnswered'
<1> SUFFICES ASSUME Inv, AnswersInv, ShorterAnswered, [Next]_vars,
                    NEW i \in 1 .. Len(solutions'),
                    NEW d \in Nat, d >= FirstDepth, d < Len(solutions'[i])
             PROVE  Answered(d)'
  BY DEF ShorterAnswered, FoundInv, FirstDepth
<1>1. CASE solutions' = solutions
  <2>1. outgoing' = outgoing
    BY LeafReports, OnlyLeafReports
  <2>2. Answered(d)
    BY <1>1 DEF ShorterAnswered
  <2> QED BY <2>1, <2>2, AnsweredStays
<1>2. CASE solutions' # solutions
  <2>1. /\ Leaf /\ outgoing' = outgoing
        /\ solutions \in Seq(Seq(EdgeRef)) /\ stack \in Seq(EdgeRef)
        /\ solutions' = Append(solutions, stack) /\ Len(stack) = depth
    BY <1>2, LeafReports, OnlyLeafReports
  <2> DEFINE n == Len(solutions)
  <2>2. /\ n \in Nat /\ Len(solutions') = n + 1 /\ solutions'[n + 1] = stack
        /\ \A j \in 1 .. n : solutions'[j] = solutions[j]
    BY <2>1, AppendType
  <2>3. Answered(d)
    <3>1. CASE i \in 1 .. n
      BY <2>2, <3>1 DEF ShorterAnswered, n
    <3>2. CASE i = n + 1
      <4>1. pc = "dfs" /\ depth \in Nat /\ d < depth
        BY <2>1, <2>2, <3>2, StackFacts DEF Leaf, TakeEdge
      <4>2. d \in FirstDepth .. depth - 1
        BY <4>1, SettingsAssumption DEF FirstDepth
      <4> QED BY <4>1, <4>2 DEF AnswersInv
    <3> HIDE DEF n
    <3>3. i \in 1 .. n \/ i = n + 1
      BY <2>2
    <3> QED BY <3>1, <3>2, <3>3
  <2> QED BY <2>1, <2>3, AnsweredStays
<1> QED BY <1>1, <1>2

\* So for every covering chain the search returns a solution no longer.
LEMMA ShortestReturned ==
  ASSUME Inv, FoundInv, ShorterAnswered, pc = "done",
         NEW k \in MinSolutionSize .. MaxSearchSize, CoveringChains(outgoing, k) # {}
  PROVE  \E i \in 1 .. Len(solutions) : Len(solutions[i]) <= k + 1
<1>1. k \in Nat \ {0} /\ k + 1 \in FirstDepth .. MaxSearchSize + 1 /\ k + 1 >= FirstDepth
  BY SettingsAssumption DEF FirstDepth
<1>2. PICK c : c \in CoveringChains(outgoing, k)
  OBVIOUS
<1>3. WordGraph(outgoing)
  BY GraphsAssumption DEF Inv, TypeOK
<1>4. PathOf(c, k) \in Paths(k + 1) /\ Covers(PathOf(c, k), k + 1)
  BY <1>1, <1>2, <1>3, ChainIsPath DEF CoveringChains, Covers
<1>5. CASE Answered(k + 1)
  BY <1>4, <1>5 DEF Answered, Witnessed
<1>6. CASE ~Answered(k + 1)
  <2>1. StopFn
    BY <1>1, <1>6 DEF FoundInv, AnswersInv
  <2>2. 1 \in 1 .. Len(solutions) /\ Len(solutions[1]) \in Nat
    <3>1. solutions \in Seq(Seq(EdgeRef))
      BY DEF Inv, TypeOK
    <3>2. Len(solutions) \in Nat /\ Len(solutions) >= 1
      BY <2>1, <3>1, SettingsAssumption DEF StopFn
    <3> QED BY <3>1, <3>2
  <2>3. ~(k + 1 < Len(solutions[1]))
    <3>1. k + 1 \in Nat
      BY <1>1
    <3> QED BY <1>1, <1>6, <2>2, <3>1 DEF ShorterAnswered
  <2>4. Len(solutions[1]) <= k + 1
    BY <1>1, <2>2, <2>3
  <2> QED BY <2>2, <2>4
<1> QED BY <1>5, <1>6

-----------------------------------------------------------------------------
(***************************************************************************)
(* Ceilings: every state that a path of at most depth - 2 edges reaches,   *)
(* or a passed one of depth - 1 edges, has an entry no higher than it.     *)
(***************************************************************************)
Known(q, l) == cache[PathKey(q, l)].ceiling <= l

KnownInv ==
  pc = "dfs" =>
    /\ \A l \in 2 .. depth - 2 : \A q \in Paths(l) : Known(q, l)
    /\ \A l \in 2 .. depth - 1 : \A q \in Paths(l) : Passed(q, l, stack) => Known(q, l)

\* The entry of key k is the length of the shortest path with this key.
ShortestHas(k) ==
  cache[k].ceiling # NotReached =>
    /\ cache[k].ceiling >= 2
    /\ \E q \in Paths(cache[k].ceiling) : PathKey(q, cache[k].ceiling) = k
    /\ \A l \in 2 .. cache[k].ceiling - 1 : \A q \in Paths(l) : PathKey(q, l) # k

ShortInv == \A k \in CacheKey : ShortestHas(k)

\* An expanded state gets a ceiling no higher than it had.
LEMMA ExpandSinks ==
  ASSUME Inv, CacheExpand
  PROVE  /\ NextKey \in CacheKey /\ cache'[NextKey].ceiling = Len(stack)
         /\ \A k \in CacheKey : k # NextKey => cache'[k] = cache[k]
         /\ \A k \in CacheKey : cache'[k].ceiling <= cache[k].ceiling
         /\ Len(stack) <= cache[NextKey].ceiling
<1>1. /\ NextKey \in CacheKey /\ cache \in [CacheKey -> Entry]
      /\ cache' = [cache EXCEPT ![NextKey] = [ceiling |-> Len(stack), created |-> depth]]
      /\ pc = "dfs" /\ ~Superseded(cache[NextKey])
  BY CacheType DEF Inv, TypeOK, CacheExpand, LookUp, TakeEdge, PathSize
<1>2. Len(stack) \in Nat
  BY <1>1, StackFacts
<1>3. \A k \in CacheKey : cache[k].ceiling \in Nat
  BY <1>1 DEF Entry
<1>4. Len(stack) <= cache[NextKey].ceiling
  <2>1. ~(cache[NextKey].ceiling < Len(stack))
    BY <1>1 DEF Superseded, PathSize
  <2> QED BY <1>1, <1>2, <1>3, <2>1
<1>5. cache'[NextKey].ceiling = Len(stack) /\ \A k \in CacheKey : k # NextKey => cache'[k] = cache[k]
  BY <1>1
<1> QED BY <1>1, <1>3, <1>4, <1>5

LEMMA KnownStays ==
  ASSUME Inv, [Next]_vars, outgoing' = outgoing, NEW l \in Nat, l >= 2, NEW q \in Paths(l), Known(q, l)
  PROVE  Known(q, l)'
<1>1. PathKey(q, l)' = PathKey(q, l)
  BY GraphStays
<1>2. PathKey(q, l) \in CacheKey
  BY EndInHash, GraphsAssumption DEF Inv, TypeOK
<1>3. CASE CacheExpand
  <2>1. /\ cache'[PathKey(q, l)].ceiling <= cache[PathKey(q, l)].ceiling
        /\ cache'[PathKey(q, l)] \in Entry /\ cache[PathKey(q, l)] \in Entry
    BY <1>2, <1>3, ExpandSinks, CacheType DEF Inv, TypeOK
  <2> QED BY <1>1, <2>1 DEF Known, Entry
<1>4. CASE cache' = cache
  BY <1>1, <1>4 DEF Known
<1> QED
  BY <1>3, <1>4
  DEF Next, EarlyTerminate, StartSearch, StopDfs, NextDepth, LastDepth, FinishDfs,
      Backtrack, EnterBox, Leaf, ExpandUncached, CachePrune, Returned, vars

\* Within an iteration it is enough to look at what a move has passed.
LEMMA KnownMove ==
  ASSUME Inv, KnownInv, [Next]_vars, pc = "dfs", pc' = "dfs", depth' = depth, outgoing' = outgoing,
         \A l \in 2 .. depth - 1 : \A q \in Paths(l) :
           Passed(q, l, stack') => Passed(q, l, stack) \/ Known(q, l) \/ Known(q, l)'
  PROVE  KnownInv'
<1>1. depth \in Nat
  BY StackFacts
<1>2. ASSUME NEW l \in 2 .. depth - 2, NEW q \in Paths(l) PROVE Known(q, l)'
  <2>1. l \in Nat /\ l >= 2 /\ Known(q, l)
    BY <1>1 DEF KnownInv
  <2> QED BY <2>1, KnownStays
<1>3. ASSUME NEW l \in 2 .. depth - 1, NEW q \in Paths(l), Passed(q, l, stack')
      PROVE  Known(q, l)'
  <2>1. l \in Nat /\ l >= 2
    BY <1>1
  <2>2. Known(q, l) \/ Known(q, l)'
    BY <1>3 DEF KnownInv
  <2> QED BY <2>1, <2>2, KnownStays
<1>4. \A l : Paths(l)' = Paths(l)
  BY GraphStays
<1> QED BY <1>2, <1>3, <1>4 DEF KnownInv

LEMMA KnownNext ==
  ASSUME MinSolutionSize <= 2, StateCacheMinDepth <= 2
  PROVE  Inv /\ CacheTrue /\ KnownInv /\ [Next]_vars => KnownInv'
<1> SUFFICES ASSUME Inv, CacheTrue, KnownInv, [Next]_vars PROVE KnownInv'
  OBVIOUS
<1> USE SettingsAssumption
<1>1. ASSUME pc' = "done" PROVE KnownInv'
  BY <1>1 DEF KnownInv
<1>2. ASSUME TakeEdge, NEW hash, Push(hash),
             \A l \in 2 .. depth - 1 : \A q \in Paths(l) :
               l = Len(stack) /\ q = stack => Known(q, l)'
      PROVE  KnownInv'
  <2>1. pc = "dfs" /\ pc' = "dfs" /\ depth' = depth /\ outgoing' = outgoing /\ ~AtEnd
    BY <1>2 DEF TakeEdge
  <2>2. ASSUME NEW l \in 2 .. depth - 1, NEW q \in Paths(l), Passed(q, l, stack')
        PROVE  Passed(q, l, stack) \/ Known(q, l) \/ Known(q, l)'
    <3>1. depth \in Nat /\ l \in Nat
      BY <2>1, StackFacts
    <3>2. CASE Passed(q, l, stack)
      BY <3>2
    <3>3. CASE l = Len(stack) /\ \A i \in 1 .. l : q[i] = stack[i]
      <4>1. q = stack
        <5>1. stack \in Paths(l)
          BY <2>1, <3>3, StackIsPath
        <5>2. stack = [i \in 1 .. l |-> stack[i]] /\ q = [i \in 1 .. l |-> q[i]]
          BY <5>1 DEF Paths
        <5> QED BY <3>3, <5>2
      <4> QED BY <1>2, <3>3, <4>1
    <3> QED BY <1>2, <2>2, <3>1, <3>2, <3>3, PushPasses
  <2> QED BY <2>1, <2>2, KnownMove
<1>3. CASE EarlyTerminate \/ StopDfs \/ LastDepth
  BY <1>1, <1>3 DEF EarlyTerminate, StopDfs, LastDepth
<1>4. CASE StartSearch
  <2>1. pc' = "dfs" /\ outgoing' = outgoing /\ CallDfs /\ depth' = FirstDepth
    BY <1>4 DEF StartSearch
  <2>2. 2 .. depth' - 2 = {} /\ depth' \in Nat
    BY <2>1 DEF FirstDepth
  <2>3. WordGraph(outgoing)
    BY GraphsAssumption DEF Inv, TypeOK
  <2>4. \A l \in 2 .. depth' - 1 : \A q \in Paths(l) : ~Passed(q, l, stack')
    BY <2>1, <2>2, <2>3, NonePassed
  <2> QED BY <2>1, <2>2, <2>4, GraphStays DEF KnownInv
<1>5. CASE NextDepth
  <2>1. pc = "dfs" /\ pc' = "dfs" /\ outgoing' = outgoing /\ CallDfs /\ depth' = depth + 1
        /\ FinishDfs
    BY <1>5 DEF NextDepth, FinishDfs
  <2>2. depth \in Nat /\ WordGraph(outgoing) /\ \A l \in 2 .. depth' - 1 : l \in Nat \ {0}
    BY <2>1, StackFacts
  <2>3. \A l \in 2 .. depth' - 1 : \A q \in Paths(l) : ~Passed(q, l, stack')
    BY <2>1, <2>2, NonePassed
  <2>4. ASSUME NEW l \in 2 .. depth' - 2, NEW q \in Paths(l) PROVE Known(q, l)'
    <3>1. l \in Nat \ {0} /\ l \in 2 .. depth - 1 /\ l >= 2
      BY <2>1, <2>2
    <3>2. Known(q, l)
      BY <2>1, <3>1, AllPassed DEF KnownInv
    <3> QED BY <2>1, <3>1, <3>2, KnownStays
  <2>5. \A l : Paths(l)' = Paths(l)
    BY <2>1, GraphStays
  <2> QED BY <2>3, <2>4, <2>5 DEF KnownInv
<1>6. CASE Backtrack
  <2>1. pc = "dfs" /\ pc' = "dfs" /\ depth' = depth /\ outgoing' = outgoing
    BY <1>6 DEF Backtrack
  <2>2. \A l \in 2 .. depth - 1 : l \in Nat
    BY <2>1, StackFacts
  <2> QED BY <1>6, <2>1, <2>2, BacktrackPasses, KnownMove
<1>7. CASE EnterBox
  <2>1. pc = "dfs" /\ TakeEdge /\ Push({}) /\ Len(stack) <= 1
    BY <1>7 DEF EnterBox, TakeEdge, PathSize
  <2>2. \A l \in 2 .. depth - 1 : l # Len(stack)
    BY <2>1, StackFacts
  <2> QED BY <1>2, <2>1, <2>2
<1>8. ASSUME TakeEdge, Prune,
             \A l \in 2 .. depth - 1 : \A q \in Paths(l) :
               l >= Len(stack) /\ (\A i \in 1 .. Len(stack) : q[i] = stack[i]) => Known(q, l)
      PROVE  KnownInv'
  <2>1. pc = "dfs" /\ pc' = "dfs" /\ depth' = depth /\ outgoing' = outgoing
        /\ stack' = Advanced(stack)
    BY <1>8 DEF TakeEdge, Prune
  <2>2. \A l \in 2 .. depth - 1 : l \in Nat
    BY <2>1, StackFacts
  <2>3. \A l \in 2 .. depth - 1 : \A q \in Paths(l) :
          Passed(q, l, stack') => Passed(q, l, stack) \/ Known(q, l)
    BY <1>8, <2>1, <2>2, AdvancePasses
  <2> QED BY <2>1, <2>3, KnownMove
<1>9. CASE Leaf
  <2>1. TakeEdge /\ Prune /\ Len(stack) = depth /\ pc = "dfs"
    BY <1>9 DEF Leaf, PathSize, TakeEdge
  <2>2. depth \in Nat /\ \A l \in 2 .. depth - 1 : ~(l >= Len(stack))
    BY <2>1, StackFacts
  <2> QED BY <1>8, <2>1, <2>2
<1>10. CASE ExpandUncached
  <2>1. pc = "dfs" /\ Len(stack) > 1 /\ Len(stack) # depth /\ depth <= StateCacheMinDepth
    BY <1>10 DEF ExpandUncached, TakeEdge, PathSize
  <2>2. Len(stack) \in Nat /\ Len(stack) <= depth /\ depth \in Nat
    BY <2>1, StackFacts
  <2> QED BY <2>1, <2>2
<1>11. CASE CachePrune
  <2>1. TakeEdge /\ Prune /\ pc = "dfs"
    BY <1>11 DEF CachePrune, LookUp, TakeEdge
  <2>2. ASSUME NEW l \in 2 .. depth - 1, NEW q \in Paths(l), l >= Len(stack),
               \A i \in 1 .. Len(stack) : q[i] = stack[i]
        PROVE  Known(q, l)
    <3>1. depth \in Nat /\ l \in Nat /\ l <= depth /\ Len(stack) \in Nat /\ WordGraph(outgoing)
      BY <2>1, StackFacts
    <3>2. \E k \in Nat : \E r \in Paths(k) :
            k >= 2 /\ k <= l /\ PathKey(r, k) = PathKey(q, l)
            /\ (k < l \/ (k = l /\ Passed(r, k, stack)))
      BY <1>11, <2>2, <3>1, Dominated
    <3>3. PICK k \in Nat : \E r \in Paths(k) :
            k >= 2 /\ k <= l /\ PathKey(r, k) = PathKey(q, l)
            /\ (k < l \/ (k = l /\ Passed(r, k, stack)))
      BY <3>2
    <3>4. PICK r \in Paths(k) :
            k >= 2 /\ k <= l /\ PathKey(r, k) = PathKey(q, l)
            /\ (k < l \/ (k = l /\ Passed(r, k, stack)))
      BY <3>3
    <3>5. Known(r, k)
      <4>1. CASE k < l
        <5>1. k \in 2 .. depth - 2
          BY <3>1, <3>4, <4>1
        <5> QED BY <2>1, <5>1 DEF KnownInv
      <4>2. CASE k = l /\ Passed(r, k, stack)
        BY <2>1, <3>4, <4>2 DEF KnownInv
      <4> QED BY <3>4, <4>1, <4>2
    <3>6. cache[PathKey(q, l)].ceiling \in Nat
      <4>1. PathKey(q, l) \in CacheKey
        BY <3>1, EndInHash
      <4> QED BY <4>1 DEF Inv, TypeOK, Entry
    <3> QED BY <3>1, <3>4, <3>5, <3>6 DEF Known
  <2> QED BY <1>8, <2>1, <2>2
<1>12. CASE CacheExpand
  <2>1. TakeEdge /\ Push(ExtendedHash) /\ pc = "dfs" /\ ~AtEnd /\ outgoing' = outgoing
    BY <1>12 DEF CacheExpand, LookUp, TakeEdge
  <2>2. ASSUME NEW l \in 2 .. depth - 1, NEW q \in Paths(l), l = Len(stack), q = stack
        PROVE  Known(q, l)'
    <3>1. PathKey(q, l)' = NextKey /\ l \in Nat
      BY <2>1, <2>2, StackIsPath, StackFacts, GraphStays
    <3>2. cache'[NextKey].ceiling = l
      BY <1>12, <2>2, ExpandSinks
    <3> QED BY <3>1, <3>2 DEF Known
  <2> QED BY <1>2, <2>1, <2>2
<1>13. CASE UNCHANGED vars
  <2>1. \A l : Paths(l)' = Paths(l)
    BY <1>13, GraphStays DEF vars
  <2>2. \A q, l : Known(q, l)' <=> Known(q, l)
    BY <1>13, GraphStays DEF vars, Known
  <2> QED BY <1>13, <2>1, <2>2 DEF vars, KnownInv
<1>14. CASE Returned
  BY <1>13, <1>14 DEF Returned
<1> QED
  BY <1>3, <1>4, <1>5, <1>6, <1>7, <1>9, <1>10, <1>11, <1>12, <1>13, <1>14 DEF Next

\* An entry that is written is that of a state no shorter path reaches.
LEMMA ShortNext ==
  Inv /\ KnownInv /\ ShortInv /\ [Next]_vars => ShortInv'
<1> SUFFICES ASSUME Inv, KnownInv, ShortInv, [Next]_vars PROVE ShortInv'
  OBVIOUS
<1>1. outgoing' = outgoing
  BY DEF Next, vars, EarlyTerminate, StartSearch, StopDfs, NextDepth, LastDepth, FinishDfs,
     Backtrack, EnterBox, Leaf, ExpandUncached, CachePrune, CacheExpand, LookUp, TakeEdge, Returned
<1>2. CASE cache' = cache
  BY <1>1, <1>2, GraphStays DEF ShortInv, ShortestHas
<1>3. CASE CacheExpand
  <2> DEFINE n == Len(stack)
  <2>1. /\ pc = "dfs" /\ ~AtEnd /\ n > 1 /\ n # depth /\ ~Superseded(cache[NextKey])
    BY <1>3 DEF CacheExpand, LookUp, TakeEdge, PathSize
  <2>2. /\ stack \in Paths(n) /\ PathKey(stack, n) = NextKey
        /\ n \in Nat /\ n <= depth /\ depth \in Nat
    BY <2>1, StackIsPath, StackFacts
  <2>3. /\ NextKey \in CacheKey /\ cache'[NextKey].ceiling = n
        /\ \A k \in CacheKey : k # NextKey => cache'[k] = cache[k]
        /\ n <= cache[NextKey].ceiling
    BY <1>3, ExpandSinks
  <2>4. cache[NextKey].ceiling \in Nat
    BY <2>3 DEF Inv, TypeOK, Entry
  <2> HIDE DEF n
  <2>5. ASSUME NEW l \in 2 .. n - 1, NEW q \in Paths(l) PROVE PathKey(q, l) # NextKey
    <3>1. l \in 2 .. depth - 2 /\ l \in Nat /\ l < n
      BY <2>1, <2>2
    <3>2. Known(q, l)
      BY <2>1, <3>1 DEF KnownInv
    <3> QED BY <2>2, <2>3, <2>4, <3>1, <3>2 DEF Known
  <2>6. ASSUME NEW k, k = NextKey PROVE ShortestHas(k)'
    <3>1. \E q \in Paths(n) : PathKey(q, n) = NextKey
      BY <2>2
    <3>2. n >= 2
      BY <2>1, <2>2
    <3> QED BY <1>1, <2>3, <2>5, <2>6, <3>1, <3>2, GraphStays DEF ShortestHas
  <2>7. ASSUME NEW k \in CacheKey, k # NextKey PROVE ShortestHas(k)'
    BY <1>1, <2>3, <2>7, GraphStays DEF ShortInv, ShortestHas
  <2> QED BY <2>6, <2>7 DEF ShortInv
<1> QED
  BY <1>2, <1>3
  DEF Next, vars, EarlyTerminate, StartSearch, StopDfs, NextDepth, LastDepth, FinishDfs,
     Backtrack, EnterBox, Leaf, ExpandUncached, CachePrune, Returned

LEMMA ShortMeans == Inv /\ ShortInv => CeilingIsShortest
<1> SUFFICES ASSUME Inv, ShortInv, NEW n \in Node, NEW m \in SUBSET Node,
                    n \in m, cache[KeyOf(n, m)].ceiling # NotReached
             PROVE  LET e == cache[KeyOf(n, m)] IN
                      /\ \E c \in Chains(e.ceiling - 1) : Reaches(c, n, m)
                      /\ \A k \in 1 .. e.ceiling - 2 : \A c \in Chains(k) : ~Reaches(c, n, m)
  BY DEF CeilingIsShortest
<1> DEFINE h == cache[KeyOf(n, m)].ceiling
<1>1. KeyOf(n, m) \in CacheKey /\ WordGraph(outgoing)
  BY DeleteBitType, GraphsAssumption DEF KeyOf, CacheKey, Inv, TypeOK
<1>2. h \in Nat /\ h >= 2
      /\ (\E q \in Paths(h) : PathKey(q, h) = KeyOf(n, m))
      /\ (\A l \in 2 .. h - 1 : \A q \in Paths(l) : PathKey(q, l) # KeyOf(n, m))
  BY <1>1 DEF ShortInv, ShortestHas, Inv, TypeOK, Entry
<1> HIDE DEF h
<1>3. \E c \in Chains(h - 1) : Reaches(c, n, m)
  <2>1. PICK q \in Paths(h) : PathKey(q, h) = KeyOf(n, m)
    BY <1>2
  <2>2. EdgeAt(outgoing, q[h]).to = n /\ PathHash(outgoing, q, h) = m
    <3> DEFINE a == EdgeAt(outgoing, q[h]).to
               b == PathHash(outgoing, q, h)
    <3>1. a \in Node /\ b \in SUBSET Node /\ a \in b
      BY <1>1, <1>2, EndInHash
    <3>2. a = n /\ DeleteBit(b, a) = DeleteBit(m, n)
      BY <2>1 DEF PathKey, KeyOf
    <3> HIDE DEF a, b
    <3>3. a = n /\ b = m
      BY <3>1, <3>2, DeleteBitInjective
    <3> QED BY <3>3 DEF a, b
  <2> DEFINE w == [i \in 1 .. h - 1 |-> q[i + 1]]
  <2>3. h - 1 \in Nat \ {0} /\ (h - 1) + 1 = h /\ h - 1 \in 1 .. h - 1
        /\ \A i \in 1 .. h - 1 : i + 1 \in 1 .. h
    BY <1>2
  <2>4. w \in [1 .. h - 1 -> EdgeRef]
    BY <1>1, <1>2, <2>3, PathFacts
  <2>5. w \in Chains(h - 1) /\ PathHash(outgoing, w, h - 1) = m
    <3> DEFINE k == h - 1
    <3>1. k \in Nat \ {0} /\ q \in Paths(k + 1) /\ w \in [1 .. k -> EdgeRef]
          /\ (\A i \in 1 .. k : w[i] = q[i + 1]) /\ PathHash(outgoing, q, k + 1) = m
      BY <2>2, <2>3, <2>4
    <3> HIDE DEF k, w
    <3>2. w \in Chains(k) /\ PathHash(outgoing, w, k) = m
      BY <1>1, <3>1, PathIsChain
    <3> QED BY <3>2 DEF k, w
  <2>6. w[h - 1] = q[h] /\ Len(w) = h - 1
    <3>1. w[h - 1] = q[(h - 1) + 1]
      BY <2>3
    <3>2. Len(w) = h - 1
      <4> HIDE DEF w
      <4> QED BY <2>3, <2>4
    <3> QED BY <2>3, <3>1, <3>2
  <2> HIDE DEF w
  <2> QED BY <2>2, <2>5, <2>6 DEF Reaches
<1>4. ASSUME NEW k \in 1 .. h - 2, NEW c \in Chains(k), Reaches(c, n, m) PROVE FALSE
  <2>1. k \in Nat \ {0} /\ k + 1 \in 2 .. h - 1
    BY <1>2
  <2>2. c \in [1 .. k -> WordRefs(outgoing)] /\ Linked(outgoing, c, k) /\ Len(c) = k
    BY <2>1 DEF Chains
  <2>3. /\ PathOf(c, k) \in Paths(k + 1)
        /\ PathHash(outgoing, PathOf(c, k), k + 1) = PathHash(outgoing, c, k)
        /\ PathOf(c, k)[k + 1] = c[k]
    BY <1>1, <2>1, <2>2, ChainIsPath
  <2>4. PathKey(PathOf(c, k), k + 1) = KeyOf(n, m)
    BY <1>4, <2>2, <2>3 DEF PathKey, Reaches
  <2> QED BY <1>2, <2>1, <2>3, <2>4
<1> QED BY <1>3, <1>4 DEF h

-----------------------------------------------------------------------------
\* The ceiling of a state is the length of the shortest path to it
\* (state_cache_entry, solver.hpp:72-75 and 134-139): no shorter path is ever pruned for
\* it, and none is kept for nothing.  Both hypotheses are the shipped settings:
\* the sizes searched start at one and the cache is in use from depth three on.
THEOREM CeilingsShortest ==
  ASSUME MinSolutionSize <= 2, StateCacheMinDepth <= 2
  PROVE  Spec => []CeilingIsShortest
<1>1. Init => KnownInv /\ ShortInv
  BY DEF Init, InitSearch, KnownInv, ShortInv, ShortestHas
<1>2. Inv /\ FoundInv /\ KnownInv /\ ShortInv /\ [Next]_vars
        => FoundInv' /\ KnownInv' /\ ShortInv'
  BY CacheTrueNext, AnswersNext, KnownNext, ShortNext DEF FoundInv
<1> QED BY <1>1, <1>2, ShortMeans, FoundInit, InvInit, InvNext, PTL DEF Spec

-----------------------------------------------------------------------------
(***************************************************************************)
(* The refinement of ChainSearch, step by step: found are the words of the *)
(* solutions, a leaf that covers the box reports, and whatever ends the    *)
(* search finishes.  (That it ends is left to the model checker.)          *)
(***************************************************************************)
Found == [i \in 1 .. Len(solutions) |-> WordsOf(solutions[i])]

\* The two specifications speak of the same chains.
LEMMA SameChains ==
  \A g, k : Answer!CoveringChains(g, k) = CoveringChains(g, k)
BY DEF Answer!CoveringChains, Answer!WordRefs, Answer!Node, Answer!Linked, Answer!PathHash,
       Answer!SolutionMask, Answer!EdgeAt, Answer!Outgoing, Answer!Router, Answer!RouterEdges,
       CoveringChains, WordRefs, Node, Linked, PathHash, SolutionMask, EdgeAt, Outgoing,
       Router, RouterEdges

LEMMA FoundFacts ==
  ASSUME solutions \in Seq(Seq(EdgeRef))
  PROVE  /\ Found \in Seq(Seq(EdgeRef)) /\ Len(Found) = Len(solutions)
         /\ \A i \in 1 .. Len(solutions) : Found[i] = WordsOf(solutions[i])
         /\ Found = <<>> <=> solutions = <<>>
<1> DEFINE n == Len(solutions)
<1>1. n \in Nat /\ \A i \in 1 .. n : WordsOf(solutions[i]) \in Seq(EdgeRef)
  <2>1. ASSUME NEW p \in Seq(EdgeRef) PROVE WordsOf(p) \in Seq(EdgeRef)
    BY DEF WordsOf
  <2> QED BY <2>1
<1>2. Found = [i \in 1 .. n |-> WordsOf(solutions[i])]
  BY DEF Found
<1>3. n = 0 <=> solutions = <<>>
  OBVIOUS
<1> HIDE DEF n
<1>4. Found \in [1 .. n -> Seq(EdgeRef)]
  BY <1>1, <1>2
<1>5. Found \in Seq(Seq(EdgeRef)) /\ Len(Found) = n
  BY <1>1, <1>4
<1>6. Found = <<>> <=> n = 0
  BY <1>5
<1> QED BY <1>2, <1>3, <1>5, <1>6 DEF n

\* A covering chain of a size already searched has been answered.
LEMMA ChainAnswered ==
  ASSUME WordGraph(outgoing), NEW k \in Nat \ {0}, Answered(k + 1),
         CoveringChains(outgoing, k) # {}
  PROVE  solutions # <<>>
<1>1. PICK c \in CoveringChains(outgoing, k) : TRUE
  OBVIOUS
<1>2. PathOf(c, k) \in Paths(k + 1) /\ Covers(PathOf(c, k), k + 1)
  BY ChainIsPath DEF CoveringChains, Covers
<1>3. Witnessed(PathOf(c, k), k + 1)
  BY <1>2 DEF Answered
<1> QED BY <1>3 DEF Witnessed

\* Whatever ends the search: if nothing was found there is nothing to find.
LEMMA EndFinishes ==
  ASSUME Inv, AnswersInv', pc # "done", pc' = "done", outgoing' = outgoing, solutions' = solutions
  PROVE  Answer!Finish
<1>1. ASSUME solutions = <<>>, NEW k \in MinSolutionSize .. MaxSearchSize,
             CoveringChains(outgoing, k) # {}
      PROVE  FALSE
  <2>1. k \in Nat \ {0} /\ k + 1 \in FirstDepth .. MaxSearchSize + 1
    BY SettingsAssumption DEF FirstDepth
  <2>2. ~StopFn' /\ FirstDepth' = FirstDepth
    BY <1>1, SettingsAssumption DEF StopFn, FirstDepth
  <2>3. Answered(k + 1)'
    BY <2>1, <2>2 DEF AnswersInv
  <2>4. Answered(k + 1)
    BY <2>3, GraphStays DEF Answered, Witnessed
  <2>5. WordGraph(outgoing)
    BY GraphsAssumption DEF Inv, TypeOK
  <2> QED BY <1>1, <2>1, <2>4, <2>5, ChainAnswered
<1>2. solutions = <<>> => ~Answer!Shorter(MaxSearchSize + 1)
  <2>1. (MaxSearchSize + 1) - 1 = MaxSearchSize
    BY SettingsAssumption
  <2> QED BY <1>1, <2>1, SameChains DEF Answer!Shorter
<1>3. Found = <<>> <=> solutions = <<>>
  BY FoundFacts DEF Inv, TypeOK
<1>4. Found' = Found
  BY DEF Found
<1> QED BY <1>2, <1>3, <1>4 DEF Answer!Finish, Found

\* A leaf that covers the box reports a chain that was not reported before,
\* not shorter than the last one and, if it is the first, as short as any.
LEMMA LeafAnswersNew ==
  ASSUME Inv, OnceInv, OnceInv', ReportsSolve, AnswersInv, Leaf, solutions' # solutions
  PROVE  Answer!Report
<1> DEFINE k == Len(stack) - 1
           n == Len(solutions)
           w == WordsOf(stack)
<1>1. /\ pc = "dfs" /\ pc' = "dfs" /\ outgoing' = outgoing /\ ~StopFn
      /\ solutions \in Seq(Seq(EdgeRef)) /\ stack \in Seq(EdgeRef)
      /\ solutions' = Append(solutions, stack)
      /\ IsSolution(outgoing, stack) /\ Len(stack) = depth
      /\ WordGraph(outgoing) /\ depth \in Nat
  BY LeafReports, StackFacts DEF Leaf, TakeEdge
<1>2. k \in MinSolutionSize .. MaxSearchSize /\ w \in CoveringChains(outgoing, k)
      /\ k \in Nat \ {0} /\ k + 1 = depth /\ w \in Seq(EdgeRef) /\ Len(w) = k
  <2>1. /\ k \in MinSolutionSize .. MaxSearchSize /\ w \in CoveringChains(outgoing, k)
        /\ Len(stack) >= 2
    BY <1>1, SolutionIsChain
  <2>2. w \in Seq(EdgeRef) /\ Len(w) = k
    BY <1>1, <2>1, WordsFacts
  <2>3. k \in Nat \ {0} /\ k + 1 = depth
    BY <1>1, <2>1, SettingsAssumption
  <2> QED BY <2>1, <2>2, <2>3
<1>3. /\ n \in Nat /\ Len(solutions') = n + 1 /\ solutions'[n + 1] = stack
      /\ \A i \in 1 .. n : solutions'[i] = solutions[i]
  BY <1>1, AppendType
<1>4. /\ Found \in Seq(Seq(EdgeRef)) /\ Len(Found) = n
      /\ \A i \in 1 .. n : Found[i] = WordsOf(solutions[i])
      /\ Found = <<>> <=> solutions = <<>>
  BY <1>1, FoundFacts
<1>5. n < MaxSolutions
  BY <1>1, <1>3, SettingsAssumption DEF StopFn
<1> HIDE DEF k, n, w
<1>6. Found' = Append(Found, w)
  <2>1. Found' = [i \in 1 .. n + 1 |-> WordsOf(solutions'[i])]
    BY <1>3 DEF Found
  <2>2. \A i \in 1 .. n + 1 : i = n + 1 \/ i \in 1 .. n
    BY <1>3
  <2>3. \A i \in 1 .. n + 1 : Append(Found, w)[i] = WordsOf(solutions'[i])
    BY <1>2, <1>3, <1>4, <2>2, AppendType DEF w
  <2>4. Append(Found, w) \in Seq(Seq(EdgeRef)) /\ Len(Append(Found, w)) = n + 1
    BY <1>2, <1>4
  <2>5. Append(Found, w) = [i \in 1 .. n + 1 |-> Append(Found, w)[i]]
    <3> DEFINE a == Append(Found, w)
    <3>1. a \in Seq(Seq(EdgeRef)) /\ Len(a) = n + 1
      BY <2>4
    <3> HIDE DEF a
    <3>2. a = [i \in 1 .. n + 1 |-> a[i]]
      BY <3>1
    <3> QED BY <3>2 DEF a
  <2> QED BY <2>1, <2>3, <2>5
<1>7. ASSUME NEW i \in 1 .. n PROVE Found[i] # w
  <2>1. solutions[i] # stack
    <3>1. i # n + 1 /\ i \in 1 .. n + 1 /\ n + 1 \in 1 .. n + 1
      BY <1>3
    <3>2. solutions'[i] # solutions'[n + 1]
      BY <1>3, <3>1 DEF OnceInv, ReportedOnce
    <3> QED BY <1>3, <3>2
  <2>2. solutions[i] \in Seq(EdgeRef) /\ IsSolution(outgoing, solutions[i])
    BY <1>1 DEF ReportsSolve, n
  <2> QED BY <1>1, <1>4, <2>1, <2>2, WordsTell DEF w
<1>8. ASSUME Found # <<>> PROVE Len(Found[Len(Found)]) <= k
  <2>1. n \in 1 .. n
    BY <1>3, <1>4, <1>8
  <2>2. Len(solutions[n]) <= depth /\ solutions[n] \in Seq(EdgeRef)
        /\ IsSolution(outgoing, solutions[n])
    BY <1>1, <2>1 DEF OnceInv, ReportsBefore, ReportsSolve, n
  <2>3. Len(solutions[n]) >= 2 /\ Len(WordsOf(solutions[n])) = Len(solutions[n]) - 1
    BY <1>1, <2>2, SolutionIsChain, WordsFacts
  <2>4. Len(solutions[n]) \in Nat
    BY <2>2
  <2>5. Len(Found[n]) = Len(solutions[n]) - 1
    BY <1>4, <2>1, <2>3
  <2> QED BY <1>1, <1>2, <1>4, <2>2, <2>4, <2>5
<1>9. ASSUME Found = <<>> PROVE ~Answer!Shorter(k)
  <2> SUFFICES ASSUME NEW j \in MinSolutionSize .. k - 1, CoveringChains(outgoing, j) # {}
               PROVE  FALSE
    BY SameChains DEF Answer!Shorter
  <2>1. j \in Nat \ {0} /\ j + 1 \in FirstDepth .. depth - 1
    BY <1>2, SettingsAssumption DEF FirstDepth
  <2>2. Answered(j + 1)
    BY <1>1, <2>1 DEF AnswersInv
  <2> QED BY <1>1, <1>4, <1>9, <2>1, <2>2, ChainAnswered
<1> QED
  BY <1>1, <1>2, <1>4, <1>5, <1>6, <1>7, <1>8, <1>9, SameChains DEF Answer!Report, Found

\* Every step of solve_raw is a step of ChainSearch or leaves what the caller
\* sees as it is: the refinement that AnswersRefine states, but for its end.
THEOREM AnswersStepwise ==
  ASSUME MinSolutionSize <= 2
  PROVE  Spec => Answer!Init /\ [][Answer!Next]_(Answer!vars)
<1>1. Init => Answer!Init
  <2> SUFFICES ASSUME Init PROVE Answer!Init
    OBVIOUS
  <2>1. outgoing \in Graphs /\ pc = "start" /\ solutions = <<>>
    BY DEF Init, InitSearch
  <2>2. Found = <<>>
    BY <2>1, FoundFacts
  <2>3. (pc = "done") = FALSE
    BY <2>1
  <2> QED BY <2>1, <2>2, <2>3 DEF Answer!Init, Found
<1>2. Inv /\ OnceInv /\ OnceInv' /\ ReportsSolve /\ AnswersInv /\ AnswersInv' /\ [Next]_vars
        => [Answer!Next]_(Answer!vars)
  <2> SUFFICES ASSUME Inv, OnceInv, OnceInv', ReportsSolve, AnswersInv, AnswersInv', [Next]_vars
               PROVE  [Answer!Next]_(Answer!vars)
    OBVIOUS
  <2>1. ASSUME solutions' = solutions, outgoing' = outgoing, (pc' = "done") = (pc = "done")
        PROVE  [Answer!Next]_(Answer!vars)
    BY <2>1 DEF Answer!vars
  <2>2. CASE EarlyTerminate \/ StopDfs \/ LastDepth
    <3>1. pc # "done" /\ pc' = "done" /\ outgoing' = outgoing /\ solutions' = solutions
      BY <2>2 DEF EarlyTerminate, StopDfs, LastDepth, FinishDfs
    <3> QED BY <3>1, EndFinishes DEF Answer!Next
  <2>3. CASE StartSearch \/ NextDepth \/ Backtrack \/ EnterBox \/ ExpandUncached
             \/ CachePrune \/ CacheExpand
    <3>1. pc # "done" /\ pc' # "done" /\ outgoing' = outgoing /\ solutions' = solutions
      BY <2>3 DEF StartSearch, NextDepth, FinishDfs, Backtrack, EnterBox, ExpandUncached, CachePrune,
                  CacheExpand, LookUp, TakeEdge
    <3>2. (pc' = "done") = (pc = "done")
      BY <3>1
    <3> QED BY <2>1, <3>1, <3>2
  <2>4. CASE Leaf
    <3>1. pc # "done" /\ pc' # "done" /\ outgoing' = outgoing
      BY <2>4 DEF Leaf, TakeEdge
    <3>2. (pc' = "done") = (pc = "done")
      BY <3>1
    <3> QED BY <2>1, <2>4, <3>1, <3>2, LeafAnswersNew DEF Answer!Next
  <2>5. CASE Returned \/ UNCHANGED vars
    BY <2>1, <2>5 DEF Returned, vars
  <2> QED BY <2>2, <2>3, <2>4, <2>5 DEF Next
<1>3. Inv /\ FoundInv /\ [Next]_vars => FoundInv'
  BY CacheTrueNext, AnswersNext DEF FoundInv
<1>4. Init => OnceInv
  BY SettingsAssumption DEF Init, InitSearch, OnceInv, ReportedOnce, ReportsBefore
<1>5. FoundInv => AnswersInv
  BY DEF FoundInv
<1> QED
  BY <1>1, <1>2, <1>3, <1>4, <1>5, FoundInit, InvInit, InvNext, OnceNext, ReportsSound, PTL DEF Spec

=============================================================================
