-------------------------- MODULE BuildGraphProofs --------------------------
(***************************************************************************)
(* Proofs about BuildGraph, for boxes and word lists of any size.          *)
(***************************************************************************)
EXTENDS BuildGraph, WellFoundedInduction, TLAPS

\* Every edge leaves and enters a letter of its mask.
EdgesProper ==
  \A n \in Node : \A k \in 1 .. Len(nodes[n]) :
    {n, nodes[n][k].to} \subseteq nodes[n][k].wordHash

\* Every edge stands for some word.
EdgesUsed ==
  \A n \in Node : \A k \in 1 .. Len(nodes[n]) : VariantsOf(nodes[n][k]) # {}

Inv ==
  /\ list \in WordLists
  /\ TypeOK
  /\ EdgesProper /\ EdgesUsed /\ VariantsExact /\ WordsPlaced /\ EdgesDiffer

LEMMA Lists ==
  ASSUME list \in WordLists
  PROVE  /\ list \in Seq(Word) /\ Len(list) \in Nat
         /\ \A p \in 1 .. Len(list) :
              /\ list[p].front \in Node /\ list[p].back \in Node
              /\ list[p].hash \in SUBSET Node
              /\ {list[p].front, list[p].back} \subseteq list[p].hash
<1>1. list \in Seq(Word) /\ Len(list) \in Nat
  BY WordListsAssumption
<1>2. \A p \in 1 .. Len(list) : list[p] \in Word
  BY <1>1
<1> QED BY <1>1, <1>2, WordListsAssumption DEF Word

\* What TypeOK says of a node's vector.
LEMMA Vectors ==
  ASSUME TypeOK
  PROVE  /\ \A n \in Node : nodes[n] \in Seq(Edge) /\ Len(nodes[n]) \in Nat
         /\ \A n \in Node : \A k \in 1 .. Len(nodes[n]) :
              /\ nodes[n][k] \in Edge
              /\ nodes[n][k].variants \in Seq(Nat)
         /\ next \in Nat /\ next - 1 \in Nat
<1>1. \A n \in Node : nodes[n] \in Seq(Edge) /\ Len(nodes[n]) \in Nat
  BY DEF TypeOK
<1>2. \A n \in Node : \A k \in 1 .. Len(nodes[n]) : nodes[n][k] \in Edge
  BY <1>1
<1>3. next \in Nat /\ next - 1 \in Nat
  BY DEF TypeOK
<1> QED BY <1>1, <1>2, <1>3 DEF Edge

\* An appended element joins the elements of a sequence.
LEMMA AppendRange ==
  ASSUME NEW S, NEW s \in Seq(S), NEW x \in S
  PROVE  /\ Append(s, x) \in Seq(S)
         /\ { Append(s, x)[v] : v \in 1 .. Len(Append(s, x)) }
              = { s[v] : v \in 1 .. Len(s) } \cup {x}
<1> DEFINE t == Append(s, x)
           n == Len(s)
<1>1. /\ t \in Seq(S) /\ n \in Nat /\ Len(t) = n + 1 /\ t[n + 1] = x
      /\ \A v \in 1 .. n : t[v] = s[v]
  OBVIOUS
<1> HIDE DEF t, n
<1>2. \A v \in 1 .. n + 1 : v = n + 1 \/ v \in 1 .. n
  BY <1>1
<1>3. n + 1 \in 1 .. n + 1 /\ \A v \in 1 .. n : v \in 1 .. n + 1
  BY <1>1
<1>4. { t[v] : v \in 1 .. n + 1 } = { s[v] : v \in 1 .. n } \cup {x}
  BY <1>1, <1>2, <1>3
<1> QED BY <1>1, <1>4 DEF t, n

\* The words before the next one, then that one too.
LEMMA Positions1 ==
  ASSUME TypeOK
  PROVE  /\ \A p \in 1 .. next : p = next \/ p \in 1 .. next - 1
         /\ \A p \in 1 .. next - 1 : p \in 1 .. next /\ p # next
         /\ next \in 1 .. next
         /\ (next + 1) - 1 = next
BY DEF TypeOK

\* find_if finds the first of the positions there are.
LEMMA LowestExists ==
  ASSUME NEW S \in SUBSET Nat, S # {}
  PROVE  \E k \in S : \A l \in S : k <= l
<1> DEFINE R == { ss \in Nat \X Nat : ss[1] < ss[2] }
<1>1. IsWellFoundedOn(R, Nat)
  BY NatLessThanWellFounded, Zenon DEF OpToRel
<1>2. PICK k \in S : \A l \in S : ~(<<l, k>> \in R)
  <2> HIDE DEF R
  <2> QED BY <1>1, WFMin
<1>3. ASSUME NEW l \in S PROVE k <= l
  <2>1. k \in Nat /\ l \in Nat /\ <<l, k>> \in Nat \X Nat
        /\ <<l, k>>[1] = l /\ <<l, k>>[2] = k
    OBVIOUS
  <2>2. ~(l < k)
    BY <1>2, <2>1
  <2> QED BY <2>1, <2>2
<1> QED BY <1>3

LEMMA InvInit == Init => Inv
<1> SUFFICES ASSUME Init PROVE Inv
  OBVIOUS
<1>1. list \in WordLists /\ next = 1 /\ nodes = [n \in Node |-> <<>>]
  BY DEF Init, InitBuild
<1>2. TypeOK
  BY <1>1, Lists DEF TypeOK
<1>3. \A n \in Node : Len(nodes[n]) = 0
  BY <1>1
<1>4. EdgesProper /\ EdgesUsed /\ VariantsExact /\ EdgesDiffer
  BY <1>3 DEF EdgesProper, EdgesUsed, VariantsExact, EdgesDiffer
<1>5. WordsPlaced
  BY <1>1 DEF WordsPlaced
<1> QED BY <1>1, <1>2, <1>4, <1>5 DEF Inv

LEMMA NewEdgeStep == Inv /\ NewEdge => Inv'
<1> SUFFICES ASSUME Inv, NewEdge PROVE Inv'
  OBVIOUS
<1> DEFINE f == TheWord.front
           e == [wordHash |-> TheWord.hash, to |-> TheWord.back, variants |-> <<next>>]
           m == Len(nodes[f])
<1>1. /\ next <= Len(list) /\ ~Found
      /\ nodes' = [nodes EXCEPT ![f] = Append(@, e)]
      /\ next' = next + 1 /\ list' = list
  BY DEF NewEdge, MoreWords
<1>2. /\ next \in 1 .. Len(list) /\ f \in Node /\ TheWord.back \in Node
      /\ TheWord.hash \in SUBSET Node /\ {f, TheWord.back} \subseteq TheWord.hash
  BY <1>1, Lists, Vectors DEF Inv, TypeOK, TheWord
<1>3. e \in Edge /\ e.wordHash = TheWord.hash /\ e.to = TheWord.back
      /\ e.variants = <<next>>
  <2>1. <<next>> \in Seq(Nat)
    BY <1>2, Vectors DEF Inv
  <2> QED BY <1>2, <2>1 DEF Edge
<1>4. e.variants \in Seq(Nat) /\ { e.variants[v] : v \in 1 .. Len(e.variants) } = {next}
  BY <1>3, Vectors DEF Inv
<1> HIDE DEF e
<1>5. /\ m \in Nat /\ nodes[f] \in Seq(Edge)
      /\ \A n \in Node : n # f => nodes'[n] = nodes[n]
      /\ nodes'[f] = Append(nodes[f], e)
  BY <1>1, <1>2, Vectors DEF Inv, TypeOK
<1>6. /\ nodes'[f] \in Seq(Edge) /\ Len(nodes'[f]) = m + 1 /\ nodes'[f][m + 1] = e
      /\ \A k \in 1 .. m : nodes'[f][k] = nodes[f][k]
  BY <1>3, <1>5
<1> HIDE DEF f, m
<1>7. \A k \in 1 .. m + 1 : k = m + 1 \/ k \in 1 .. m
  BY <1>5
<1>8. TypeOK'
  <2>1. nodes' \in [Node -> Seq(Edge)]
    <3>1. \A n \in Node : nodes'[n] \in Seq(Edge)
      BY <1>5, <1>6, Vectors DEF Inv
    <3> QED BY <1>1, <3>1 DEF Inv, TypeOK
  <2> QED BY <1>1, <1>2, <2>1, Lists DEF Inv, TypeOK
\* Every edge of the new graph is an old one or the new one.
<1>9. ASSUME NEW n \in Node, NEW k \in 1 .. Len(nodes'[n])
      PROVE  \/ n = f /\ k = m + 1 /\ nodes'[n][k] = e
             \/ (n # f \/ k # m + 1) /\ k \in 1 .. Len(nodes[n]) /\ nodes'[n][k] = nodes[n][k]
  <2>1. CASE n # f
    BY <1>5, <2>1
  <2>2. CASE n = f
    <3>1. k = m + 1 \/ k \in 1 .. m
      BY <1>6, <1>7, <2>2
    <3> QED BY <1>5, <1>6, <2>2, <3>1 DEF m
  <2> QED BY <2>1, <2>2
<1>10. EdgesProper'
  <2> SUFFICES ASSUME NEW n \in Node, NEW k \in 1 .. Len(nodes'[n])
               PROVE  {n, nodes'[n][k].to} \subseteq nodes'[n][k].wordHash
    BY DEF EdgesProper
  <2> QED BY <1>2, <1>3, <1>9 DEF Inv, EdgesProper, f
\* No old edge is equivalent to the word.
<1>11. \A k \in 1 .. m : ~(nodes[f][k].wordHash = TheWord.hash /\ nodes[f][k].to = TheWord.back)
  BY <1>1 DEF Found, Equivalent, PrevOutgoing, f, m
<1>12. VariantsExact'
  <2>0. list' = list /\ next' - 1 = next
    BY <1>1, Positions1 DEF Inv
  <2> SUFFICES ASSUME NEW n \in Node, NEW k \in 1 .. Len(nodes'[n])
               PROVE  VariantsOf(nodes'[n][k]) = { p \in 1 .. next : /\ list[p].front = n
                                                /\ list[p].back = nodes'[n][k].to
                                                /\ list[p].hash = nodes'[n][k].wordHash }
    BY <2>0 DEF VariantsExact
  <2>1. CASE n = f /\ k = m + 1 /\ nodes'[n][k] = e
    <3>1. VariantsOf(nodes'[n][k]) = {next}
      BY <1>4, <2>1 DEF VariantsOf
    <3>2. ASSUME NEW p \in 1 .. next - 1, list[p].front = f
          PROVE  ~(list[p].back = e.to /\ list[p].hash = e.wordHash)
      <4>1. PICK l \in 1 .. Len(nodes[list[p].front]) : p \in VariantsOf(nodes[list[p].front][l])
        BY DEF Inv, WordsPlaced
      <4>2. l \in 1 .. m /\ p \in VariantsOf(nodes[f][l])
        BY <3>2, <4>1 DEF m
      <4>3. list[p].back = nodes[f][l].to /\ list[p].hash = nodes[f][l].wordHash
        BY <1>2, <3>2, <4>1 DEF Inv, VariantsExact
      <4> QED BY <1>3, <1>11, <4>2, <4>3
    <3>3. list[next].front = f /\ list[next].back = e.to /\ list[next].hash = e.wordHash
      BY <1>3 DEF f, TheWord
    <3> QED BY <2>1, <3>1, <3>2, <3>3, Positions1 DEF Inv
  <2>2. CASE (n # f \/ k # m + 1) /\ k \in 1 .. Len(nodes[n]) /\ nodes'[n][k] = nodes[n][k]
    <3>1. VariantsOf(nodes'[n][k]) = VariantsOf(nodes[n][k])
      BY <2>2 DEF VariantsOf
    <3>2. ~(/\ list[next].front = n /\ list[next].back = nodes[n][k].to
            /\ list[next].hash = nodes[n][k].wordHash)
      BY <1>11, <2>2 DEF f, m, TheWord
    <3>3. VariantsOf(nodes[n][k]) = { p \in 1 .. next - 1 : /\ list[p].front = n
                                 /\ list[p].back = nodes[n][k].to
                                 /\ list[p].hash = nodes[n][k].wordHash }
      BY <2>2 DEF Inv, VariantsExact
    <3> QED BY <2>2, <3>1, <3>2, <3>3, Positions1 DEF Inv
  <2> QED BY <1>9, <2>1, <2>2
<1>13. WordsPlaced'
  <2>0. list' = list /\ next' - 1 = next
    BY <1>1, Positions1 DEF Inv
  <2> SUFFICES ASSUME NEW p \in 1 .. next
               PROVE  \E k \in 1 .. Len(nodes'[list[p].front]) : p \in VariantsOf(nodes'[list[p].front][k])
    BY <2>0 DEF WordsPlaced
  <2>1. CASE p = next
    <3>1. list[p].front = f /\ m + 1 \in 1 .. Len(nodes'[f])
      BY <1>5, <1>6, <2>1 DEF f, TheWord
    <3>2. VariantsOf(nodes'[f][m + 1]) = {next}
      BY <1>4, <1>6 DEF VariantsOf
    <3> QED BY <2>1, <3>1, <3>2
  <2>2. CASE p \in 1 .. next - 1
    <3>1. PICK k \in 1 .. Len(nodes[list[p].front]) : p \in VariantsOf(nodes[list[p].front][k])
      BY <2>2 DEF Inv, WordsPlaced
    <3>2. list[p].front \in Node
      BY <1>2, <2>2, Lists DEF Inv
    <3>3. k \in 1 .. Len(nodes'[list[p].front]) /\ nodes'[list[p].front][k] = nodes[list[p].front][k]
      <4>1. CASE list[p].front = f
        <5>1. k \in 1 .. m /\ k \in 1 .. m + 1
          BY <1>5, <3>1, <4>1 DEF m
        <5> QED BY <1>6, <4>1, <5>1
      <4>2. CASE list[p].front # f
        BY <1>5, <3>1, <3>2, <4>2
      <4> QED BY <4>1, <4>2
    <3> QED BY <3>1, <3>3 DEF VariantsOf
  <2> QED BY <2>1, <2>2, Positions1 DEF Inv
<1>14. EdgesDiffer'
  <2> SUFFICES ASSUME NEW n \in Node, NEW k \in 1 .. Len(nodes'[n]),
                      NEW l \in 1 .. Len(nodes'[n]), k # l
               PROVE  \/ nodes'[n][k].to # nodes'[n][l].to
                      \/ nodes'[n][k].wordHash # nodes'[n][l].wordHash
    BY DEF EdgesDiffer
  <2>1. CASE n = f /\ k = m + 1
    <3>1. nodes'[n][k] = e /\ l \in 1 .. m /\ nodes'[n][l] = nodes[f][l]
      BY <1>6, <1>7, <2>1
    <3> QED BY <1>3, <1>11, <3>1
  <2>2. CASE n = f /\ l = m + 1
    <3>1. nodes'[n][l] = e /\ k \in 1 .. m /\ nodes'[n][k] = nodes[f][k]
      BY <1>6, <1>7, <2>2
    <3> QED BY <1>3, <1>11, <3>1
  <2>3. CASE n # f \/ (k # m + 1 /\ l # m + 1)
    <3>1. /\ k \in 1 .. Len(nodes[n]) /\ nodes'[n][k] = nodes[n][k]
          /\ l \in 1 .. Len(nodes[n]) /\ nodes'[n][l] = nodes[n][l]
      BY <1>9, <2>3
    <3> QED BY <2>3, <3>1 DEF Inv, EdgesDiffer
  <2> QED BY <2>1, <2>2, <2>3
<1>15. EdgesUsed'
  <2> SUFFICES ASSUME NEW n \in Node, NEW k \in 1 .. Len(nodes'[n])
               PROVE  VariantsOf(nodes'[n][k]) # {}
    BY DEF EdgesUsed
  <2>1. CASE nodes'[n][k] = e
    BY <1>4, <2>1 DEF VariantsOf
  <2>2. CASE k \in 1 .. Len(nodes[n]) /\ nodes'[n][k] = nodes[n][k]
    <3>1. VariantsOf(nodes[n][k]) # {}
      BY <2>2 DEF Inv, EdgesUsed
    <3> QED BY <2>2, <3>1
  <2> QED BY <1>9, <2>1, <2>2
<1> QED BY <1>1, <1>8, <1>10, <1>12, <1>13, <1>14, <1>15 DEF Inv

LEMMA AddVariantStep == Inv /\ AddVariant => Inv'
<1> SUFFICES ASSUME Inv, AddVariant PROVE Inv'
  OBVIOUS
<1> DEFINE f == TheWord.front
           g == FirstFound
           e == [nodes[f][g] EXCEPT !.variants = Append(nodes[f][g].variants, next)]
<1>1. /\ next <= Len(list) /\ Found
      /\ nodes' = [nodes EXCEPT ![f] = [nodes[f] EXCEPT ![g] = e]]
      /\ next' = next + 1 /\ list' = list
  BY DEF AddVariant, MoreWords
<1>2. next \in 1 .. Len(list) /\ f \in Node
  BY <1>1, Lists, Vectors DEF Inv, TypeOK, TheWord
<1>3. /\ g \in 1 .. Len(nodes[f])
      /\ nodes[f][g].wordHash = TheWord.hash /\ nodes[f][g].to = TheWord.back
  <2> DEFINE Good(k) == Equivalent(nodes[f][k])
             S == { k \in 1 .. Len(nodes[f]) : Good(k) }
  <2>1. S # {} /\ S \in SUBSET Nat
    BY <1>1 DEF Found, PrevOutgoing
  <2>2. \E k \in S : \A l \in S : k <= l
    <3> HIDE DEF S
    <3> QED BY <2>1, LowestExists
  <2>3. PICK k \in S : \A l \in S : k <= l
    BY <2>2
  <2>4. \A l \in 1 .. k - 1 : l \in 1 .. Len(nodes[f]) /\ ~(k <= l)
    BY <1>2, Vectors DEF Inv
  <2>5. k \in 1 .. Len(nodes[f]) /\ Good(k) /\ \A l \in 1 .. k - 1 : ~Good(l)
    BY <2>3, <2>4
  <2>6. g \in 1 .. Len(nodes[f]) /\ Good(g)
    BY <2>5 DEF FirstFound, PrevOutgoing
  <2> QED BY <2>6 DEF Equivalent
<1>4. nodes[f][g] \in Edge /\ nodes[f][g].variants \in Seq(Nat) /\ next \in Nat
  BY <1>2, <1>3, Vectors DEF Inv
<1>5. /\ e \in Edge /\ e.wordHash = TheWord.hash /\ e.to = TheWord.back
      /\ e.variants = Append(nodes[f][g].variants, next)
  <2> DEFINE old == nodes[f][g]
             more == Append(old.variants, next)
  <2>1. more \in Seq(Nat) /\ old \in Edge
    BY <1>4
  <2>2. e = [old EXCEPT !.variants = more]
    OBVIOUS
  <2>3. old.wordHash = TheWord.hash /\ old.to = TheWord.back
    BY <1>3
  <2>4. e.variants = more /\ e \in Edge /\ e.wordHash = old.wordHash /\ e.to = old.to
    <3> HIDE DEF old, more, e
    <3> QED BY <2>1, <2>2 DEF Edge
  <2> QED BY <2>3, <2>4
<1>6. VariantsOf(e) = VariantsOf(nodes[f][g]) \cup {next}
  <2> DEFINE s == nodes[f][g].variants
  <2>1. s \in Seq(Nat) /\ next \in Nat
    BY <1>4
  <2>2. e.variants = Append(s, next)
    BY <1>5
  <2> HIDE DEF s, e
  <2>3. { Append(s, next)[v] : v \in 1 .. Len(Append(s, next)) }
          = { s[v] : v \in 1 .. Len(s) } \cup {next}
    BY <2>1, AppendRange
  <2> QED BY <2>2, <2>3 DEF VariantsOf, s
<1> HIDE DEF e, g
<1>7. /\ nodes[f] \in Seq(Edge)
      /\ \A n \in Node : n # f => nodes'[n] = nodes[n]
      /\ nodes'[f] = [nodes[f] EXCEPT ![g] = e]
  BY <1>1, <1>2, Vectors DEF Inv, TypeOK
<1>8. /\ nodes'[f] \in Seq(Edge) /\ Len(nodes'[f]) = Len(nodes[f]) /\ nodes'[f][g] = e
      /\ \A k \in 1 .. Len(nodes[f]) : k # g => nodes'[f][k] = nodes[f][k]
  BY <1>3, <1>5, <1>7
<1> HIDE DEF f
<1>9. TypeOK'
  <2>1. nodes' \in [Node -> Seq(Edge)]
    <3>1. \A n \in Node : nodes'[n] \in Seq(Edge)
      BY <1>7, <1>8, Vectors DEF Inv
    <3> QED BY <1>1, <3>1 DEF Inv, TypeOK
  <2> QED BY <1>1, <1>2, <2>1, Lists DEF Inv, TypeOK
\* Every edge keeps its place, its target and its mask.
<1>10. ASSUME NEW n \in Node
       PROVE  /\ Len(nodes'[n]) = Len(nodes[n])
              /\ \A k \in 1 .. Len(nodes[n]) :
                   /\ nodes'[n][k].to = nodes[n][k].to
                   /\ nodes'[n][k].wordHash = nodes[n][k].wordHash
                   /\ ~(n = f /\ k = g) => nodes'[n][k] = nodes[n][k]
  <2>1. CASE n = f
    BY <1>3, <1>5, <1>8, <2>1 DEF f
  <2>2. CASE n # f
    BY <1>7, <2>2
  <2> QED BY <2>1, <2>2
<1>11. EdgesProper'
  BY <1>10 DEF Inv, EdgesProper
<1>12. EdgesDiffer'
  BY <1>10 DEF Inv, EdgesDiffer
<1>13. ASSUME NEW n \in Node, NEW k \in 1 .. Len(nodes[n])
       PROVE  VariantsOf(nodes'[n][k]) = IF n = f /\ k = g THEN VariantsOf(nodes[n][k]) \cup {next}
                                  ELSE VariantsOf(nodes[n][k])
  <2>1. CASE n = f /\ k = g
    BY <1>6, <1>8, <2>1
  <2>2. CASE ~(n = f /\ k = g)
    BY <1>10, <2>2
  <2> QED BY <2>1, <2>2
<1>14. /\ f = list[next].front /\ nodes[f][g].to = list[next].back
       /\ nodes[f][g].wordHash = list[next].hash
  BY <1>3 DEF f, TheWord
<1>15. VariantsExact'
  <2>0. list' = list /\ next' - 1 = next
    BY <1>1, Positions1 DEF Inv
  <2> SUFFICES ASSUME NEW n \in Node, NEW k \in 1 .. Len(nodes[n])
               PROVE  VariantsOf(nodes'[n][k]) = { p \in 1 .. next : /\ list[p].front = n
                                                /\ list[p].back = nodes[n][k].to
                                                /\ list[p].hash = nodes[n][k].wordHash }
    BY <2>0, <1>10 DEF VariantsExact
  <2>1. VariantsOf(nodes[n][k]) = { p \in 1 .. next - 1 : /\ list[p].front = n
                               /\ list[p].back = nodes[n][k].to
                               /\ list[p].hash = nodes[n][k].wordHash }
    BY DEF Inv, VariantsExact
  <2>2. CASE n = f /\ k = g
    BY <1>13, <1>14, <2>1, <2>2, Positions1 DEF Inv
  <2>3. CASE ~(n = f /\ k = g)
    <3>1. ~(/\ list[next].front = n /\ list[next].back = nodes[n][k].to
            /\ list[next].hash = nodes[n][k].wordHash)
      <4>1. n = f => \/ nodes[n][k].to # nodes[n][g].to
                     \/ nodes[n][k].wordHash # nodes[n][g].wordHash
        BY <1>3, <2>3 DEF Inv, EdgesDiffer, f
      <4> QED BY <1>14, <4>1
    <3> QED BY <1>13, <2>1, <2>3, <3>1, Positions1 DEF Inv
  <2> QED BY <2>2, <2>3
<1>16. WordsPlaced'
  <2>0. list' = list /\ next' - 1 = next
    BY <1>1, Positions1 DEF Inv
  <2> SUFFICES ASSUME NEW p \in 1 .. next
               PROVE  \E k \in 1 .. Len(nodes'[list[p].front]) : p \in VariantsOf(nodes'[list[p].front][k])
    BY <2>0 DEF WordsPlaced
  <2>1. list[p].front \in Node
    BY <1>2, Lists DEF Inv
  <2>2. CASE p = next
    <3>1. f \in Node /\ g \in 1 .. Len(nodes[f]) /\ next \in VariantsOf(nodes'[f][g])
      BY <1>2, <1>3, <1>13 DEF f
    <3> QED BY <1>10, <1>14, <2>2, <3>1
  <2>3. CASE p \in 1 .. next - 1
    <3>1. PICK k \in 1 .. Len(nodes[list[p].front]) : p \in VariantsOf(nodes[list[p].front][k])
      BY <2>3 DEF Inv, WordsPlaced
    <3> QED BY <1>10, <1>13, <2>1, <3>1
  <2> QED BY <2>2, <2>3, Positions1 DEF Inv
<1>17. EdgesUsed'
  <2> SUFFICES ASSUME NEW n \in Node, NEW k \in 1 .. Len(nodes[n])
               PROVE  VariantsOf(nodes'[n][k]) # {}
    BY <1>10 DEF EdgesUsed
  <2> QED BY <1>13 DEF Inv, EdgesUsed
<1> QED BY <1>1, <1>9, <1>11, <1>12, <1>15, <1>16, <1>17 DEF Inv

LEMMA InvNext == Inv /\ [Next]_buildVars => Inv'
<1>1. Inv /\ UNCHANGED buildVars => Inv'
  BY DEF buildVars, Inv, TypeOK, EdgesProper, EdgesUsed, VariantsExact, WordsPlaced, EdgesDiffer
<1> QED BY <1>1, NewEdgeStep, AddVariantStep DEF Next, Build

LEMMA InvAlways == Spec => []Inv
<1> QED BY InvInit, InvNext, PTL DEF Spec

\* The list is read within its bounds and the graph is over the box's letters.
THEOREM BuildTypeCorrect == Spec => []TypeOK
<1>1. Inv => TypeOK
  BY DEF Inv
<1> QED BY <1>1, InvAlways, PTL

\* Every edge has exactly the words of its class as variants.
THEOREM BuildVariantsExact == Spec => []VariantsExact
<1>1. Inv => VariantsExact
  BY DEF Inv
<1> QED BY <1>1, InvAlways, PTL

\* No word of the list is lost.
THEOREM BuildWordsPlaced == Spec => []WordsPlaced
<1>1. Inv => WordsPlaced
  BY DEF Inv
<1> QED BY <1>1, InvAlways, PTL

\* No class has two edges.
THEOREM BuildEdgesDiffer == Spec => []EdgesDiffer
<1>1. Inv => EdgesDiffer
  BY DEF Inv
<1> QED BY <1>1, InvAlways, PTL

\* What the builder leaves is a word graph, edge by edge.
LEMMA GraphBuilt ==
  ASSUME Inv
  PROVE  /\ BuildsWordGraph
         /\ \A n \in Node :
              /\ Len(Searchable(n)) = Len(nodes[n])
              /\ \A k \in 1 .. Len(nodes[n]) : Searchable(n)[k]
                   = [wordHash |-> nodes[n][k].wordHash, to |-> nodes[n][k].to]
<1> DEFINE graph == [n \in Node |-> Searchable(n)]
<1>1. ASSUME NEW n \in Node
      PROVE  /\ Searchable(n) \in Seq(WordEdge)
             /\ Len(Searchable(n)) = Len(nodes[n])
             /\ \A k \in 1 .. Len(nodes[n]) : Searchable(n)[k]
                  = [wordHash |-> nodes[n][k].wordHash, to |-> nodes[n][k].to]
  <2> DEFINE m == Len(nodes[n])
             s == Searchable(n)
  <2>1. m \in Nat /\ \A k \in 1 .. m : nodes[n][k] \in Edge
    BY Vectors DEF Inv
  <2>2. s = [k \in 1 .. m |-> [wordHash |-> nodes[n][k].wordHash, to |-> nodes[n][k].to]]
    BY DEF Searchable
  <2>3. s \in [1 .. m -> WordEdge]
    BY <2>1, <2>2 DEF Edge, WordEdge
  <2> HIDE DEF m, s
  <2>4. s \in Seq(WordEdge) /\ Len(s) = m
    BY <2>1, <2>3
  <2> QED BY <2>2, <2>4 DEF m, s
<1>2. graph \in [Node -> Seq(WordEdge)]
  BY <1>1
<1>3. ASSUME NEW n \in Node, NEW k \in 1 .. Len(graph[n])
      PROVE  {n, graph[n][k].to} \subseteq graph[n][k].wordHash
  <2>1. graph[n] = Searchable(n)
    OBVIOUS
  <2>2. k \in 1 .. Len(nodes[n]) /\ graph[n][k].to = nodes[n][k].to
        /\ graph[n][k].wordHash = nodes[n][k].wordHash
    <3> DEFINE s == graph[n]
    <3>1. /\ k \in 1 .. Len(s) /\ Len(s) = Len(nodes[n])
          /\ \A l \in 1 .. Len(nodes[n]) : s[l]
               = [wordHash |-> nodes[n][l].wordHash, to |-> nodes[n][l].to]
      BY <1>1, <1>3, <2>1
    <3> HIDE DEF s
    <3>2. s[k] = [wordHash |-> nodes[n][k].wordHash, to |-> nodes[n][k].to]
          /\ k \in 1 .. Len(nodes[n])
      BY <3>1
    <3> QED BY <3>2 DEF s
  <2> QED BY <2>2 DEF Inv, EdgesProper
<1> QED BY <1>1, <1>2, <1>3 DEF BuildsWordGraph, WordGraph

\* The search is given a graph of the kind its proofs assume.
THEOREM BuildIsWordGraph == Spec => []BuildsWordGraph
<1> QED BY GraphBuilt, InvAlways, PTL

=============================================================================
