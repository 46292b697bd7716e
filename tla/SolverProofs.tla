---------------------------- MODULE SolverProofs ----------------------------
(***************************************************************************)
(* Proofs about Solver and Bench, for boxes, alphabets, word lists and     *)
(* settings of any size.  What is proved of the filter, of the builder and *)
(* of the search holds where they run one after the other; their results   *)
(* are put together to what the game itself says of the printed chains,    *)
(* and to what the second solver of the benchmarks answers.                *)
(***************************************************************************)
EXTENDS Bench, TLAPS

\* What the builder and the search may be given.
ProperLists ==
  { l \in Seq(Builder!Word) :
      \A k \in 1 .. Len(l) : {l[k].front, l[k].back} \subseteq l[k].hash }

WordGraphs == { g \in [Node -> Seq(WordEdge)] : WordGraph(g) }

FilterP == INSTANCE WordFilterProofs

BuilderP == INSTANCE BuildGraphProofs WITH list <- WordList, WordLists <- ProperLists

SearchP == INSTANCE SolveRawProofs WITH outgoing <- Graph, Graphs <- WordGraphs

(***************************************************************************)
(* A foreign letter that is a word of its own passes the filter and is     *)
(* looked up as a node that there is not (index.hpp:218-259): what follows *)
(* is about lists without such words.                                      *)
(***************************************************************************)
OneLetterWordsInBox ==
  \A in \in Inputs : \A b \in 0 .. Len(in.csv) :
    Filter!IsWord(in.csv, b, 1) => Filter!InBox(in.characters, in.csv[b + 1])

LEMMA Assumptions ==
  /\ FilterP!InputsAssumption /\ FilterP!SeparatorAssumption /\ FilterP!IndexAssumption
  /\ FilterP!BoxCharsAssumption
  /\ BuilderP!WordListsAssumption /\ BuilderP!BoxCharsAssumption
  /\ SearchP!SettingsAssumption /\ SearchP!CacheAssumption /\ SearchP!GraphsAssumption
  /\ SearchP!BoxCharsAssumption
<1>1. FilterP!InputsAssumption /\ FilterP!SeparatorAssumption
  BY SolverAssumption DEF FilterP!InputsAssumption, FilterP!SeparatorAssumption,
    FilterP!BoxCharsView, BoxCharsView, FilterP!IsWordEnds, Filter!IsWordEnds,
    FilterP!Lists, Filter!Lists, FilterP!SeparatorsIn, Filter!SeparatorsIn,
    FilterP!Increasing, Filter!Increasing
<1>2. /\ FilterP!IndexAssumption /\ FilterP!BoxCharsAssumption
      /\ BuilderP!BoxCharsAssumption /\ SearchP!BoxCharsAssumption
  BY IndexAssumption, BoxCharsAssumption DEF FilterP!IndexAssumption,
    FilterP!BoxCharsAssumption, BuilderP!BoxCharsAssumption, SearchP!BoxCharsAssumption
<1>3. BuilderP!WordListsAssumption
  BY DEF BuilderP!WordListsAssumption, ProperLists, Builder!Word, BuilderP!Word,
    Builder!Node, BuilderP!Node
<1>4. SearchP!SettingsAssumption /\ SearchP!CacheAssumption
  BY SolverAssumption DEF SearchP!SettingsAssumption, SearchP!CacheAssumption,
    SearchP!NotReached, Search!NotReached
<1>5. SearchP!GraphsAssumption
  BY DEF SearchP!GraphsAssumption, WordGraphs, WordGraph, SearchP!WordGraph,
    SearchP!Node, Node, SearchP!WordEdge, WordEdge
<1> QED BY <1>1, <1>2, <1>3, <1>4, <1>5

-----------------------------------------------------------------------------
(***************************************************************************)
(* One after the other: each part starts on what the one before has left   *)
(* for good.                                                               *)
(***************************************************************************)
SearchInv == SearchP!Inv /\ SearchP!ReportsSolve

\* What was traced so far, in the order of the solutions.
Traced ==
  \E n \in 0 .. Len(solutions) :
    /\ chains = [c \in 1 .. n |-> TraceSolution(solutions[c])]
    /\ n # 0 => pc = "done"

SolverInv ==
  /\ FilterP!Inv
  /\ Builder!InitBuild \/ (Filter!Filtered /\ BuilderP!Inv)
  /\ Search!InitSearch \/ (Filter!Filtered /\ Builder!Built /\ SearchInv)
  /\ Traced

LEMMA FilterSteps ==
  ASSUME [Next]_vars
  PROVE  [FilterP!Next]_(FilterP!filterVars)
<1>1. CASE FilterWords
  BY <1>1 DEF FilterWords, Filter!Filter, Filter!SkipEmpty, Filter!TakeWord, Filter!NextLetter,
    Filter!Drop, Filter!Keep, Filter!HashLetter, Filter!NextWord, Filter!MoreWords, Filter!Size,
    Filter!End, Filter!CharAt, Filter!Overlap, Filter!Index, Filter!BitFlags,
    Filter!CharFilterMasks, Filter!CompressionIndex, Filter!PlacesOf, Filter!Side, Filter!Node,
    FilterP!Next, FilterP!Filter, FilterP!SkipEmpty, FilterP!TakeWord, FilterP!NextLetter,
    FilterP!Drop, FilterP!Keep, FilterP!HashLetter, FilterP!NextWord, FilterP!MoreWords,
    FilterP!Size, FilterP!End, FilterP!CharAt, FilterP!Overlap, FilterP!Index, FilterP!BitFlags,
    FilterP!CharFilterMasks, FilterP!CompressionIndex, FilterP!PlacesOf, FilterP!Side,
    FilterP!Node
<1>2. ASSUME UNCHANGED filterVars PROVE UNCHANGED FilterP!filterVars
  BY <1>2 DEF filterVars, FilterP!filterVars
<1> QED BY <1>1, <1>2 DEF Next, BuildGraph, SearchGraph, Trace, vars, filterVars

\* The filter is not entered again.
LEMMA FilteredStays ==
  ASSUME Filter!Filtered, [Next]_vars
  PROVE  UNCHANGED filterVars /\ Filter!Filtered' /\ UNCHANGED <<WordList, Index>>
<1>1. ~Filter!Filter
  BY DEF Filter!Filtered, Filter!Filter, Filter!SkipEmpty, Filter!TakeWord, Filter!NextLetter,
    Filter!Drop, Filter!Keep, Filter!HashLetter
<1>2. UNCHANGED filterVars
  BY <1>1 DEF Next, FilterWords, BuildGraph, SearchGraph, Trace, vars
<1> QED BY <1>2 DEF filterVars, Filter!Filtered, Filter!MoreWords, WordList, Index, Letters

LEMMA BuildSteps ==
  ASSUME BuildGraph, Filter!Filtered
  PROVE  BuilderP!Next
<1>1. UNCHANGED WordList
  BY FilteredStays DEF Next
<1> QED BY <1>1 DEF BuildGraph,
    Builder!Build, Builder!NewEdge, Builder!AddVariant, Builder!Found, Builder!FirstFound,
    Builder!Equivalent, Builder!PrevOutgoing, Builder!TheWord, Builder!MoreWords,
    BuilderP!Next, BuilderP!Build, BuilderP!NewEdge, BuilderP!AddVariant, BuilderP!Found,
    BuilderP!FirstFound, BuilderP!Equivalent, BuilderP!PrevOutgoing, BuilderP!TheWord,
    BuilderP!MoreWords

LEMMA SearchSteps ==
  ASSUME SearchGraph
  PROVE  SearchP!Next
BY DEF SearchGraph, Search!Next, SearchP!Next,
    Search!EarlyTerminate, Search!StartSearch, Search!StopDfs, Search!NextDepth,
    Search!LastDepth, Search!Backtrack, Search!EnterBox, Search!Leaf, Search!ExpandUncached,
    Search!CachePrune, Search!CacheExpand, Search!Returned,
    Search!FinishDfs, Search!TakeEdge, Search!LookUp, Search!Push, Search!Prune, Search!CallDfs,
    Search!Superseded, Search!NextKey, Search!KeyOf, Search!DeleteBit, Search!Top, Search!AtEnd,
    Search!NextEdge, Search!PathWithTop, Search!PathView, Search!PathSize, Search!ExtendedHash,
    Search!Advanced, Search!EarlyTerminateInstance, Search!StopFn, Search!FirstDepth,
    Search!MoreDepths, Search!vars, Search!dfsVars, Search!Outgoing, Search!RouterEdges,
    Search!Router, Search!EdgeAt, Search!WordRefs, Search!SolutionMask, Search!Node,
    SearchP!EarlyTerminate, SearchP!StartSearch, SearchP!StopDfs, SearchP!NextDepth,
    SearchP!LastDepth, SearchP!Backtrack, SearchP!EnterBox, SearchP!Leaf, SearchP!ExpandUncached,
    SearchP!CachePrune, SearchP!CacheExpand, SearchP!Returned,
    SearchP!FinishDfs, SearchP!TakeEdge, SearchP!LookUp, SearchP!Push, SearchP!Prune,
    SearchP!CallDfs, SearchP!Superseded, SearchP!NextKey, SearchP!KeyOf, SearchP!DeleteBit,
    SearchP!Top, SearchP!AtEnd, SearchP!NextEdge, SearchP!PathWithTop, SearchP!PathView,
    SearchP!PathSize, SearchP!ExtendedHash, SearchP!Advanced, SearchP!EarlyTerminateInstance,
    SearchP!StopFn, SearchP!FirstDepth, SearchP!MoreDepths, SearchP!vars, SearchP!dfsVars,
    SearchP!Outgoing, SearchP!RouterEdges, SearchP!Router, SearchP!EdgeAt, SearchP!WordRefs,
    SearchP!SolutionMask, SearchP!Node

-----------------------------------------------------------------------------
(***************************************************************************)
(* Letters, indices and words.                                             *)
(***************************************************************************)
\* What the box and the list of an input are.
LEMMA InputFacts ==
  ASSUME input \in Inputs
  PROVE  /\ input.characters \in [1 .. BoxChars -> Letter]
         /\ input.csv \in Seq(Letter \cup {Separator}) /\ Len(input.csv) \in Nat
         /\ BoxLetters \subseteq Letter
         /\ \A m \in Node : m + 1 \in 1 .. BoxChars /\ input.characters[m + 1] \in BoxLetters
         /\ \A k \in 1 .. BoxChars : k - 1 \in Node /\ (k - 1) + 1 = k
<1>1. input.characters \in [1 .. BoxChars -> Letter] /\ input.csv \in Seq(Letter \cup {Separator})
  BY SolverAssumption DEF BoxCharsView
<1>2. /\ \A m \in Node : m + 1 \in 1 .. BoxChars
      /\ \A k \in 1 .. BoxChars : k - 1 \in Node /\ (k - 1) + 1 = k
  BY BoxCharsAssumption DEF Node
<1>3. \A k \in 1 .. BoxChars : input.characters[k] \in Letter /\ input.characters[k] \in BoxLetters
  BY <1>1 DEF BoxLetters
<1>4. BoxLetters \subseteq Letter
  BY <1>3 DEF BoxLetters
<1>5. Len(input.csv) \in Nat
  BY <1>1
<1> QED BY <1>1, <1>2, <1>3, <1>4, <1>5

\* A letter of the box has the index of one of its places, no other letter has
\* the index of a place.
LEMMA IndexFacts ==
  ASSUME input \in Inputs, NEW c \in Letter
  PROVE  /\ c \in BoxLetters => Index[c] \in Node /\ input.characters[Index[c] + 1] = c
         /\ Index[c] \in Node => c \in BoxLetters
         /\ Filter!InBox(input.characters, c) <=> c \in BoxLetters
<1> DEFINE P == PlacesOf(input.characters, c)
<1>1. /\ P # {} => Index[c] \in P
      /\ P = {} => Index[c] = InvalidCharFlag
  BY FilterP!IndexOf, Assumptions DEF FilterP!InBox, FilterP!PlacesOf, PlacesOf,
    FilterP!Node, Node, FilterP!CompressionIndex, CompressionIndex, Index
<1>2. \A k \in P : k \in Node /\ input.characters[k + 1] = c
  BY DEF PlacesOf
<1>3. c \in BoxLetters <=> P # {}
  BY InputFacts DEF PlacesOf, BoxLetters
<1>4. InvalidCharFlag \notin Node
  BY IndexAssumption, BoxCharsAssumption DEF Node
<1>5. Filter!InBox(input.characters, c) <=> P # {}
  BY DEF Filter!InBox, Filter!PlacesOf, PlacesOf, Filter!Node, Node
<1> QED BY <1>1, <1>2, <1>3, <1>4, <1>5

\* In a box of different letters every place is the index of its letter.
LEMMA DifferentFacts ==
  ASSUME input \in Inputs, AllDifferent, NEW m \in Node
  PROVE  Index[input.characters[m + 1]] = m
<1> DEFINE c == input.characters[m + 1]
           n == Index[c]
<1>1. c \in BoxLetters /\ c \in Letter /\ m + 1 \in 1 .. BoxChars
  BY InputFacts
<1>2. n \in Node /\ input.characters[n + 1] = c
  BY <1>1, IndexFacts
<1>3. n + 1 \in 1 .. BoxChars
  BY <1>2, InputFacts
<1>4. n + 1 = m + 1
  BY <1>1, <1>2, <1>3 DEF AllDifferent
<1> HIDE DEF n
<1>5. n = m
  BY <1>2, <1>4, BoxCharsAssumption DEF Node
<1> QED BY <1>5 DEF n

\* A letter that is typed twice leaves a place that is no letter's index.
LEMMA DoubledFacts ==
  ASSUME input \in Inputs, ~AllDifferent
  PROVE  \E m \in Node : \A c \in Letter : Index[c] # m
<1>1. PICK k \in 1 .. BoxChars, l \in 1 .. BoxChars :
        k # l /\ input.characters[k] = input.characters[l]
  BY DEF AllDifferent
<1> DEFINE d == input.characters[k]
           m == IF Index[d] = k - 1 THEN l - 1 ELSE k - 1
<1>2. m \in Node /\ Index[d] # m /\ input.characters[m + 1] = d
  <2>1. k - 1 # l - 1
    BY <1>1
  <2> QED BY <1>1, <2>1, InputFacts
<1> HIDE DEF m
<1>3. ASSUME NEW c \in Letter, Index[c] = m PROVE FALSE
  <2>1. input.characters[m + 1] = c
    BY <1>2, <1>3, IndexFacts
  <2> QED BY <1>2, <1>3, <2>1
<1> QED BY <1>2, <1>3

\* The filter of the proofs and that of Solver are the same.
LEMMA SameFilter ==
  /\ \A csv, b, n : FilterP!IsWord(csv, b, n) <=> Filter!IsWord(csv, b, n)
  /\ \A ch : FilterP!CompressionIndex(ch) = CompressionIndex(ch)
  /\ \A ch : Filter!CompressionIndex(ch) = CompressionIndex(ch)
  /\ \A ch, c : FilterP!InBox(ch, c) <=> Filter!InBox(ch, c)
  /\ \A in, b, n : FilterP!Playable(in, b, n) <=> Filter!Playable(in, b, n)
<1>1. \A csv, b, n : FilterP!IsWord(csv, b, n) <=> Filter!IsWord(csv, b, n)
  BY DEF FilterP!IsWord, Filter!IsWord
<1>2. /\ \A ch, c : FilterP!PlacesOf(ch, c) = PlacesOf(ch, c)
      /\ \A ch, c : Filter!PlacesOf(ch, c) = PlacesOf(ch, c)
  BY DEF FilterP!PlacesOf, Filter!PlacesOf, PlacesOf, FilterP!Node, Filter!Node, Node
<1>3. /\ \A ch : FilterP!CompressionIndex(ch) = CompressionIndex(ch)
      /\ \A ch : Filter!CompressionIndex(ch) = CompressionIndex(ch)
  BY DEF FilterP!CompressionIndex, Filter!CompressionIndex, CompressionIndex,
    FilterP!PlacesOf, Filter!PlacesOf, PlacesOf, FilterP!Node, Filter!Node, Node
<1>4. \A ch, c : FilterP!InBox(ch, c) <=> Filter!InBox(ch, c)
  BY <1>2 DEF FilterP!InBox, Filter!InBox
<1>5. \A ch, c : FilterP!SideOf(ch, c) = Filter!SideOf(ch, c)
  BY <1>3 DEF FilterP!SideOf, Filter!SideOf
<1>6. \A in, b, n : FilterP!Playable(in, b, n) <=> Filter!Playable(in, b, n)
  BY <1>4, <1>5 DEF FilterP!Playable, Filter!Playable
<1> QED BY <1>1, <1>3, <1>4, <1>6

\* What the filter's invariant says, in the letters of the words.
LEMMA WordFacts ==
  ASSUME FilterP!Inv, OneLetterWordsInBox, NEW k \in 1 .. Len(words)
  PROVE  LET s == Letters(words[k])
         IN /\ s \in Seq(Letter) /\ Len(s) \in Nat \ {0}
            /\ s \in ListedWords
            /\ \A l \in 1 .. Len(s) : s[l] \in BoxLetters /\ Index[s[l]] \in Node
            /\ \A l \in 1 .. Len(s) - 1 :
                 Index[s[l]] \div CharsPerSide # Index[s[l + 1]] \div CharsPerSide
            /\ wordHashes[k] = { Index[s[l]] : l \in 1 .. Len(s) }
<1> DEFINE v == words[k]
           b == v.begin
           n == v.size
           N == Len(input.csv)
           s == Letters(v)
<1>1. /\ input \in Inputs /\ words \in Seq([begin : 0 .. N, size : 0 .. N])
      /\ \A c, m \in 0 .. N :
           (\E j \in 1 .. Len(words) : words[j] = [begin |-> c, size |-> m])
             => Filter!IsWord(input.csv, c, m) /\ Filter!Playable(input, c, m)
  <2>1. input \in Inputs /\ words \in Seq([begin : 0 .. N, size : 0 .. N])
    BY DEF FilterP!Inv, FilterP!TypeOK, FilterP!View
  <2>2. \A c, m \in 0 .. N :
          (\E j \in 1 .. Len(words) : words[j] = [begin |-> c, size |-> m])
            => FilterP!IsWord(input.csv, c, m) /\ FilterP!Playable(input, c, m)
    BY DEF FilterP!Inv, FilterP!ExactTo
  <2> QED BY <2>1, <2>2, SameFilter
<1>2. N \in Nat /\ input.csv \in Seq(Letter \cup {Separator})
  BY <1>1, InputFacts
<1>3. v \in [begin : 0 .. N, size : 0 .. N]
  <2> DEFINE V == [begin : 0 .. N, size : 0 .. N]
  <2>1. words \in Seq(V)
    BY <1>1
  <2> HIDE DEF V
  <2>2. words[k] \in V
    BY <2>1
  <2> QED BY <2>2 DEF V
<1>4. b \in 0 .. N /\ n \in 0 .. N /\ v = [begin |-> b, size |-> n]
  BY <1>3
<1>5. Filter!IsWord(input.csv, b, n) /\ Filter!Playable(input, b, n)
  BY <1>1, <1>4
<1>6. s = [l \in 1 .. n |-> input.csv[b + l]]
  BY DEF Letters
<1> HIDE DEF v, b, n, N, s
<1>7. n \in Nat \ {0} /\ b + n <= N
      /\ \A l \in 1 .. n : input.csv[b + l] \in Letter
  <2>1. /\ n > 0 /\ b + n <= Len(input.csv)
        /\ \A l \in b + 1 .. b + n : input.csv[l] # Separator
    BY <1>5 DEF Filter!IsWord
  <2>2. ASSUME NEW l \in 1 .. n PROVE input.csv[b + l] \in Letter
    <3>1. b + l \in b + 1 .. b + n /\ b + l \in 1 .. Len(input.csv)
      BY <1>2, <1>4, <2>1 DEF N
    <3> QED BY <1>2, <2>1, <3>1
  <2> QED BY <1>4, <2>1, <2>2 DEF N
<1>8. s \in Seq(Letter) /\ Len(s) = n /\ \A l \in 1 .. n : s[l] = input.csv[b + l]
  BY <1>6, <1>7
<1>9. s \in ListedWords
  <2>1. v \in [begin : 0 .. N, size : 1 .. N] /\ Filter!IsWord(input.csv, v.begin, v.size)
    BY <1>2, <1>4, <1>5, <1>7
  <2> QED BY <2>1 DEF ListedWords, s, N
<1>10. ASSUME NEW l \in 1 .. n PROVE s[l] \in BoxLetters
  <2>1. Filter!InBox(input.characters, input.csv[b + l])
    <3>1. CASE n = 1
      <4>1. l = 1
        BY <3>1
      <4> QED BY <1>1, <1>4, <1>5, <3>1, <4>1 DEF OneLetterWordsInBox, N
    <3>2. CASE n > 1
      <4>1. b + l \in b + 1 .. b + n
        BY <1>4, <1>7
      <4> QED BY <1>5, <3>2, <4>1 DEF Filter!Playable
    <3> QED BY <1>7, <3>1, <3>2
  <2> QED BY <1>1, <1>7, <1>8, <2>1, IndexFacts
<1>11. \A l \in 1 .. n : Index[s[l]] \in Node
  BY <1>1, <1>7, <1>8, <1>10, IndexFacts
<1>12. ASSUME NEW l \in 1 .. n - 1
       PROVE  Index[s[l]] \div CharsPerSide # Index[s[l + 1]] \div CharsPerSide
  <2>1. /\ n > 1 /\ b + (l + 1) \in b + 2 .. b + n /\ (b + (l + 1)) - 1 = b + l
        /\ l \in 1 .. n /\ l + 1 \in 1 .. n
    BY <1>4, <1>7
  <2>2. Filter!SideOf(input.characters, input.csv[b + l])
          # Filter!SideOf(input.characters, input.csv[b + (l + 1)])
    BY <1>5, <2>1 DEF Filter!Playable
  <2>3. s[l] = input.csv[b + l] /\ s[l + 1] = input.csv[b + (l + 1)]
    BY <1>8, <2>1
  <2>4. \A c : Filter!SideOf(input.characters, c) = Index[c] \div CharsPerSide
    BY DEF Filter!SideOf, Filter!CompressionIndex, Filter!PlacesOf, Filter!Node,
      Index, CompressionIndex, PlacesOf, Node
  <2> QED BY <2>2, <2>3, <2>4
<1>13. wordHashes[k] = { Index[s[l]] : l \in 1 .. n }
  <2> DEFINE S == { input.csv[b + l] : l \in 1 .. n }
  <2>1. \A c \in S : FilterP!InBox(input.characters, c)
    <3>1. \A l \in 1 .. n : Filter!InBox(input.characters, input.csv[b + l])
      BY <1>1, <1>7, <1>8, <1>10, IndexFacts
    <3> QED BY <3>1 DEF FilterP!InBox, Filter!InBox, FilterP!PlacesOf, Filter!PlacesOf,
      FilterP!Node, Filter!Node
  <2>2. wordHashes[k] = { FilterP!CompressionIndex(input.characters)[c] : c \in S }
    BY <2>1 DEF FilterP!Inv, FilterP!HashesFit, FilterP!Fits, b, n, v
  <2>3. FilterP!CompressionIndex(input.characters) = Index
    BY DEF FilterP!CompressionIndex, FilterP!PlacesOf, FilterP!Node, Index, CompressionIndex,
      PlacesOf, Node
  <2>4. { Index[c] : c \in S } = { Index[s[l]] : l \in 1 .. n }
    BY <1>8
  <2> QED BY <2>2, <2>3, <2>4
<1> QED BY <1>7, <1>8, <1>9, <1>10, <1>11, <1>12, <1>13 DEF s, v

\* The list the builder is given is one its proofs are about.
LEMMA ListFacts ==
  ASSUME FilterP!Inv, OneLetterWordsInBox
  PROVE  /\ WordList \in ProperLists /\ Len(WordList) = Len(words) /\ Len(words) \in Nat
         /\ \A k \in 1 .. Len(words) :
              /\ WordList[k].front = Index[Letters(words[k])[1]]
              /\ WordList[k].back = Index[LastOf(Letters(words[k]))]
              /\ WordList[k].hash = wordHashes[k]
<1> DEFINE n == Len(words)
           W(k) == [front |-> Index[Letters(words[k])[1]],
                    back  |-> Index[LastOf(Letters(words[k]))],
                    hash  |-> wordHashes[k]]
<1>1. n \in Nat
  BY DEF FilterP!Inv, FilterP!TypeOK
<1>2. WordList = [k \in 1 .. n |-> W(k)]
  BY DEF WordList
<1>3. ASSUME NEW k \in 1 .. n
      PROVE  W(k) \in Builder!Word /\ {W(k).front, W(k).back} \subseteq W(k).hash
  <2> DEFINE s == Letters(words[k])
             h == wordHashes[k]
             x == Index[s[1]]
             y == Index[LastOf(s)]
  <2>1. /\ s \in Seq(Letter) /\ Len(s) \in Nat \ {0}
        /\ \A l \in 1 .. Len(s) : Index[s[l]] \in Node
        /\ h = { Index[s[l]] : l \in 1 .. Len(s) }
    BY <1>3, WordFacts
  <2> HIDE DEF s, h
  <2>2. 1 \in 1 .. Len(s) /\ Len(s) \in 1 .. Len(s)
    BY <2>1
  <2>3. x \in Node /\ y \in Node /\ x \in h /\ y \in h /\ h \subseteq Node
    BY <2>1, <2>2 DEF LastOf
  <2>4. W(k) = [front |-> x, back |-> y, hash |-> h]
    BY DEF s, h
  <2> HIDE DEF W, x, y
  <2> QED BY <2>3, <2>4 DEF Builder!Word, Builder!Node, Node
<1> HIDE DEF n, W
<1>4. WordList \in Seq(Builder!Word) /\ Len(WordList) = n /\ \A k \in 1 .. n : WordList[k] = W(k)
  BY <1>1, <1>2, <1>3
<1>5. WordList \in ProperLists
  BY <1>3, <1>4 DEF ProperLists
<1>6. \A k \in 1 .. n : /\ W(k).front = Index[Letters(words[k])[1]]
                       /\ W(k).back = Index[LastOf(Letters(words[k]))]
                       /\ W(k).hash = wordHashes[k]
  BY DEF W
<1> QED BY <1>1, <1>4, <1>5, <1>6 DEF n

LEMMA SolverInit == Init => SolverInv
<1> SUFFICES ASSUME Init PROVE SolverInv
  OBVIOUS
<1>1. FilterP!Init
  BY DEF Init, Filter!InitFilter, FilterP!Init, FilterP!InitFilter
<1>2. FilterP!Inv
  BY <1>1, FilterP!InvInit, Assumptions
<1>3. Traced
  <2>1. solutions = <<>> /\ chains = <<>>
    BY DEF Init, Search!InitSearch
  <2>2. 0 \in 0 .. Len(solutions) /\ chains = [c \in 1 .. 0 |-> TraceSolution(solutions[c])]
    BY <2>1
  <2> QED BY <2>2 DEF Traced
<1> QED BY <1>2, <1>3 DEF Init, SolverInv

\* The builder starts on a list it is proved for.
LEMMA BuilderStarted ==
  ASSUME SolverInv, OneLetterWordsInBox, Filter!Filtered
  PROVE  BuilderP!Inv
<1>1. CASE Builder!InitBuild
  <2>1. BuilderP!Init
    BY <1>1, ListFacts DEF SolverInv, BuilderP!Init, BuilderP!InitBuild, Builder!InitBuild,
      BuilderP!Node, Builder!Node
  <2> QED BY <2>1, BuilderP!InvInit, Assumptions
<1> QED BY <1>1 DEF SolverInv

\* So does the search.
LEMMA GraphFacts ==
  ASSUME BuilderP!Inv
  PROVE  /\ Graph \in WordGraphs /\ WordGraph(Graph) /\ Builder!BuildsWordGraph
         /\ \A n \in Node :
              /\ Len(Graph[n]) = Len(nodes[n])
              /\ \A k \in 1 .. Len(nodes[n]) :
                   Graph[n][k] = [wordHash |-> nodes[n][k].wordHash, to |-> nodes[n][k].to]
<1>1. /\ BuilderP!BuildsWordGraph
      /\ \A n \in BuilderP!Node :
           /\ Len(BuilderP!Searchable(n)) = Len(nodes[n])
           /\ \A k \in 1 .. Len(nodes[n]) : BuilderP!Searchable(n)[k]
                = [wordHash |-> nodes[n][k].wordHash, to |-> nodes[n][k].to]
  BY BuilderP!GraphBuilt, Assumptions
<1>2. BuilderP!Node = Node /\ Builder!Node = Node
  BY DEF BuilderP!Node, Builder!Node, Node
<1>3. \A n : BuilderP!Searchable(n) = Builder!Searchable(n)
  BY DEF BuilderP!Searchable, Builder!Searchable
<1>4. Graph = [n \in Node |-> BuilderP!Searchable(n)]
  BY <1>3 DEF Graph
<1>5. WordGraph(Graph)
  BY <1>1, <1>2, <1>4 DEF BuilderP!BuildsWordGraph, BuilderP!WordGraph, WordGraph,
    BuilderP!WordEdge, WordEdge
<1>6. Builder!BuildsWordGraph
  BY <1>2, <1>5 DEF Builder!BuildsWordGraph, Builder!WordGraph, WordGraph,
    Builder!WordEdge, WordEdge, Graph
<1>7. Graph \in WordGraphs
  BY <1>5 DEF WordGraphs, WordGraph
<1> QED BY <1>1, <1>2, <1>4, <1>5, <1>6, <1>7

LEMMA SearchStarts ==
  ASSUME SolverInv, OneLetterWordsInBox, Filter!Filtered, Search!InitSearch
  PROVE  SearchP!Init
BY BuilderStarted, GraphFacts DEF SearchP!Init, SearchP!InitSearch, Search!InitSearch,
  SearchP!CacheKey, Search!CacheKey, SearchP!Node, Search!Node, SearchP!NotReached,
  Search!NotReached

LEMMA SearchStarted ==
  ASSUME SolverInv, OneLetterWordsInBox, Filter!Filtered, Builder!Built
  PROVE  SearchInv
<1>1. CASE Search!InitSearch
  BY <1>1, SearchStarts, SearchP!InvInit, SearchP!ReportsInit, Assumptions DEF SearchInv
<1> QED BY <1>1 DEF SolverInv

LEMMA BuilderKept ==
  ASSUME BuilderP!Inv, UNCHANGED <<WordList, buildVars>>
  PROVE  BuilderP!Inv' /\ Graph' = Graph
<1>1. BuilderP!Inv'
  BY BuilderP!InvNext, Assumptions DEF buildVars, BuilderP!buildVars
<1>2. Graph' = Graph
  BY DEF Graph, Builder!Searchable, buildVars
<1> QED BY <1>1, <1>2

\* A search that has not started has found nothing, so nothing is traced.
LEMMA NothingTraced ==
  ASSUME Traced, pc # "done"
  PROVE  chains = <<>>
<1>1. PICK n \in 0 .. Len(solutions) :
        chains = [c \in 1 .. n |-> TraceSolution(solutions[c])] /\ (n # 0 => pc = "done")
  BY DEF Traced
<1> QED BY <1>1

LEMMA TracedNothing ==
  /\ chains = <<>> /\ Len(solutions) \in Nat => Traced
  /\ chains' = <<>> /\ Len(solutions') \in Nat => Traced'
<1>1. \A n \in Nat : 0 \in 0 .. n
  OBVIOUS
<1>2. /\ <<>> = [c \in 1 .. 0 |-> TraceSolution(solutions[c])]
      /\ <<>> = [c \in 1 .. 0 |-> TraceSolution(solutions[c])']
  OBVIOUS
<1> QED BY <1>1, <1>2 DEF Traced

LEMMA TracedKept ==
  ASSUME Traced, UNCHANGED <<filterVars, buildVars, searchVars, chains>>
  PROVE  Traced'
<1>1. \A p : TraceSolution(p)' = TraceSolution(p)
  BY DEF TraceSolution, filterVars, buildVars
<1>2. UNCHANGED <<solutions, pc, chains>>
  BY DEF searchVars
<1>3. \A c : TraceSolution(solutions[c])' = TraceSolution(solutions[c])
  BY <1>1, <1>2 DEF TraceSolution, filterVars, buildVars
<1> QED BY <1>2, <1>3 DEF Traced

\* One more chain.
LEMMA TraceStep ==
  ASSUME Traced, Trace, Len(solutions) \in Nat
  PROVE  Traced'
<1>1. PICK n \in 0 .. Len(solutions) : chains = [c \in 1 .. n |-> TraceSolution(solutions[c])]
  BY DEF Traced
<1> DEFINE F(c) == TraceSolution(solutions[c])
           m == Len(solutions)
<1>2. chains = [c \in 1 .. n |-> F(c)] /\ m \in Nat /\ n \in 0 .. m
  BY <1>1
<1>3. /\ pc = "done" /\ pc' = pc /\ Len(chains) < m
      /\ chains' = Append(chains, F(Len(chains) + 1))
      /\ UNCHANGED <<nodes, words, solutions>>
  BY DEF Trace, filterVars, buildVars, searchVars
<1>4. \A c : TraceSolution(solutions[c])' = F(c)
  BY <1>3 DEF TraceSolution
<1> HIDE DEF F, m
<1>5. Len(chains) = n
  BY <1>2
<1>6. chains' = [c \in 1 .. n + 1 |-> F(c)] /\ n + 1 \in 0 .. m
  BY <1>2, <1>3, <1>5
<1>7. chains' = [c \in 1 .. n + 1 |-> TraceSolution(solutions[c])'] /\ m' = m
  BY <1>3, <1>4, <1>6 DEF m
<1> QED BY <1>3, <1>6, <1>7 DEF Traced, m

LEMMA SolverNext ==
  ASSUME OneLetterWordsInBox
  PROVE  SolverInv /\ [Next]_vars => SolverInv'
<1> SUFFICES ASSUME SolverInv, [Next]_vars PROVE SolverInv'
  OBVIOUS
<1>1. FilterP!Inv'
  BY FilterSteps, FilterP!InvNext, Assumptions DEF SolverInv
<1>2. CASE FilterWords
  <2>1. ~Filter!Filtered
    BY <1>2 DEF FilterWords, Filter!Filtered, Filter!Filter, Filter!SkipEmpty, Filter!TakeWord,
      Filter!NextLetter, Filter!Drop, Filter!Keep, Filter!HashLetter
  <2>2. Builder!InitBuild /\ Search!InitSearch /\ UNCHANGED <<buildVars, searchVars, chains>>
    BY <1>2, <2>1 DEF FilterWords, SolverInv
  <2>3. Builder!InitBuild' /\ Search!InitSearch'
    BY <2>2 DEF Builder!InitBuild, Search!InitSearch, buildVars, searchVars
  <2>4. chains' = <<>> /\ Len(solutions') \in Nat
    BY <2>2, <2>3, NothingTraced DEF SolverInv, Search!InitSearch
  <2>5. Traced'
    BY <2>4, TracedNothing
  <2> QED BY <1>1, <2>3, <2>5 DEF SolverInv
<1>3. CASE BuildGraph
  <2>1. /\ Filter!Filtered /\ Filter!Filtered' /\ UNCHANGED <<WordList, searchVars, chains>>
        /\ BuilderP!Inv
    BY <1>3, FilteredStays, BuilderStarted DEF BuildGraph
  <2>2. BuilderP!Inv'
    BY <1>3, <2>1, BuildSteps, BuilderP!InvNext, Assumptions
  <2>3. ~Builder!Built
    BY <1>3 DEF BuildGraph, Builder!Built, Builder!Build, Builder!NewEdge, Builder!AddVariant
  <2>4. Search!InitSearch /\ Search!InitSearch'
    BY <2>1, <2>3 DEF SolverInv, Search!InitSearch, searchVars
  <2>5. chains' = <<>> /\ Len(solutions') \in Nat
    BY <2>1, <2>4, NothingTraced DEF SolverInv, Search!InitSearch
  <2>6. Traced'
    BY <2>5, TracedNothing
  <2> QED BY <1>1, <2>1, <2>2, <2>4, <2>6 DEF SolverInv
<1>4. CASE SearchGraph
  <2>1. /\ Filter!Filtered /\ Filter!Filtered' /\ Builder!Built
        /\ UNCHANGED <<WordList, buildVars, chains>>
        /\ BuilderP!Inv /\ SearchInv /\ pc # "done"
    BY <1>4, FilteredStays, BuilderStarted, SearchStarted DEF SearchGraph
  <2>2. BuilderP!Inv' /\ Builder!Built'
    BY <2>1, BuilderKept DEF Builder!Built, Builder!MoreWords, buildVars
  <2>3. SearchInv'
    BY <1>4, <2>1, SearchSteps, SearchP!InvNext, SearchP!ReportsNext, Assumptions DEF SearchInv
  <2>4. chains' = <<>>
    BY <2>1, NothingTraced DEF SolverInv
  <2>5. Len(solutions') \in Nat
    BY <2>3 DEF SearchInv, SearchP!Inv, SearchP!TypeOK
  <2>6. Traced'
    BY <2>4, <2>5, TracedNothing
  <2> QED BY <1>1, <2>1, <2>2, <2>3, <2>6 DEF SolverInv
<1>5. CASE Trace \/ UNCHANGED vars
  <2>1. UNCHANGED <<filterVars, buildVars, searchVars>>
    BY <1>5 DEF Trace, vars
  <2>2. WordList' = WordList /\ (Filter!Filtered' <=> Filter!Filtered)
        /\ (Builder!Built' <=> Builder!Built)
    BY <2>1 DEF filterVars, buildVars, WordList, Index, Letters, Filter!Filtered,
      Filter!MoreWords, Builder!Built, Builder!MoreWords
  <2>3. Builder!InitBuild' \/ (Filter!Filtered' /\ BuilderP!Inv')
    BY <2>1, <2>2, BuilderKept DEF SolverInv, Builder!InitBuild, buildVars
  <2>4. Search!InitSearch' \/ (Filter!Filtered' /\ Builder!Built' /\ SearchInv')
    <3>1. CASE Search!InitSearch
      BY <2>1, <3>1 DEF Search!InitSearch, searchVars
    <3>2. CASE Filter!Filtered /\ Builder!Built /\ SearchInv
      <4>1. Graph' = Graph
        BY <2>1 DEF Graph, Builder!Searchable, buildVars
      <4>2. UNCHANGED SearchP!vars
        BY <2>1, <4>1 DEF SearchP!vars, searchVars
      <4>3. SearchInv'
        BY <3>2, <4>2, SearchP!InvNext, SearchP!ReportsNext, Assumptions DEF SearchInv
      <4> QED BY <2>2, <3>2, <4>3
    <3> QED BY <3>1, <3>2 DEF SolverInv
  <2>5. Traced'
    <3>1. CASE Trace
      <4>1. SearchInv
        BY <3>1 DEF Trace, SolverInv, Search!InitSearch
      <4>2. Len(solutions) \in Nat
        BY <4>1 DEF SearchInv, SearchP!Inv, SearchP!TypeOK
      <4> QED BY <3>1, <4>2, TraceStep DEF SolverInv
    <3>2. CASE UNCHANGED vars
      BY <3>2, TracedKept DEF SolverInv, vars
    <3> QED BY <1>5, <3>1, <3>2
  <2> QED BY <1>1, <2>3, <2>4, <2>5 DEF SolverInv
<1> QED BY <1>2, <1>3, <1>4, <1>5 DEF Next

\* The graph that is searched is the kind the search is proved for, for every
\* list without foreign letters that are words of their own.
THEOREM SearchedGraphSound ==
  ASSUME OneLetterWordsInBox
  PROVE  Spec => []GraphIsWordGraph
<1>1. SolverInv => GraphIsWordGraph
  BY BuilderStarted, GraphFacts DEF GraphIsWordGraph
<1> QED BY <1>1, SolverInit, SolverNext, PTL DEF Spec

-----------------------------------------------------------------------------
(***************************************************************************)
(* From edges back to words.                                               *)
(***************************************************************************)
\* The q-th word belongs to edge e of node n.
Behind(q, n, e) ==
  /\ q \in 1 .. Len(words)
  /\ Index[Letters(words[q])[1]] = n /\ Index[LastOf(Letters(words[q]))] = e.to
  /\ wordHashes[q] = e.wordHash

\* The words behind an edge of the graph that is searched.
LEMMA EdgeFacts ==
  ASSUME SolverInv, OneLetterWordsInBox, Filter!Filtered, Builder!Built,
         NEW n \in Node, NEW k \in 1 .. Len(nodes[n])
  PROVE  /\ Len(nodes[n][k].variants) \in Nat \ {0}
         /\ \A v \in 1 .. Len(nodes[n][k].variants) : Behind(nodes[n][k].variants[v], n, nodes[n][k])
<1> DEFINE e == nodes[n][k]
           V == e.variants
           N == Len(words)
<1>1. BuilderP!Inv
  BY BuilderStarted
<1>2. /\ Len(WordList) = N /\ N \in Nat
      /\ \A q \in 1 .. N : /\ WordList[q].front = Index[Letters(words[q])[1]]
                           /\ WordList[q].back = Index[LastOf(Letters(words[q]))]
                           /\ WordList[q].hash = wordHashes[q]
  BY ListFacts DEF SolverInv
<1>3. next - 1 = N
  <2>1. next \in 1 .. Len(WordList) + 1
    BY <1>1 DEF BuilderP!Inv, BuilderP!TypeOK
  <2>2. ~(next <= Len(WordList))
    BY DEF Builder!Built, Builder!MoreWords
  <2> QED BY <1>2, <2>1, <2>2
<1>4. n \in BuilderP!Node
  BY DEF BuilderP!Node, Node
<1>5. V \in Seq(Nat)
  BY <1>1, <1>4, BuilderP!Vectors, Assumptions DEF BuilderP!Inv
<1>6. { V[v] : v \in 1 .. Len(V) } =
        { q \in 1 .. N : /\ WordList[q].front = n /\ WordList[q].back = e.to
                         /\ WordList[q].hash = e.wordHash }
  <2>1. BuilderP!VariantsOf(nodes[n][k]) =
          { q \in 1 .. next - 1 : /\ WordList[q].front = n /\ WordList[q].back = nodes[n][k].to
                                  /\ WordList[q].hash = nodes[n][k].wordHash }
    BY <1>1, <1>4 DEF BuilderP!Inv, BuilderP!VariantsExact
  <2>2. BuilderP!VariantsOf(nodes[n][k]) = { V[v] : v \in 1 .. Len(V) }
    BY DEF BuilderP!VariantsOf
  <2> HIDE DEF V
  <2> QED BY <1>3, <2>1, <2>2
<1>7. { V[v] : v \in 1 .. Len(V) } # {}
  BY <1>1, <1>4 DEF BuilderP!Inv, BuilderP!EdgesUsed, BuilderP!VariantsOf
<1> HIDE DEF V, e, N
<1>8. Len(V) \in Nat \ {0}
  BY <1>5, <1>7
<1>9. ASSUME NEW v \in 1 .. Len(V)
      PROVE  /\ V[v] \in 1 .. N /\ WordList[V[v]].front = n /\ WordList[V[v]].back = e.to
             /\ WordList[V[v]].hash = e.wordHash
  BY <1>6
<1> QED BY <1>2, <1>8, <1>9 DEF V, e, N, Behind

\* Every word of the list is behind some edge of the graph.
LEMMA PlacedFacts ==
  ASSUME SolverInv, OneLetterWordsInBox, Filter!Filtered, Builder!Built,
         NEW q \in 1 .. Len(words)
  PROVE  LET s == Letters(words[q])
         IN /\ Index[s[1]] \in Node
            /\ \E k \in 1 .. Len(nodes[Index[s[1]]]) :
                 /\ nodes[Index[s[1]]][k].to = Index[LastOf(s)]
                 /\ nodes[Index[s[1]]][k].wordHash = wordHashes[q]
<1> DEFINE s == Letters(words[q])
           n == Index[s[1]]
<1>1. BuilderP!Inv
  BY BuilderStarted
<1>2. /\ Len(WordList) = Len(words) /\ Len(words) \in Nat
      /\ WordList[q].front = n /\ WordList[q].back = Index[LastOf(s)]
      /\ WordList[q].hash = wordHashes[q]
  BY ListFacts DEF SolverInv
<1>3. q \in 1 .. next - 1
  <2>1. next \in 1 .. Len(WordList) + 1
    BY <1>1 DEF BuilderP!Inv, BuilderP!TypeOK
  <2>2. ~(next <= Len(WordList))
    BY DEF Builder!Built, Builder!MoreWords
  <2> QED BY <1>2, <2>1, <2>2
<1>4. n \in Node
  <2>1. Len(s) \in Nat \ {0} /\ \A l \in 1 .. Len(s) : Index[s[l]] \in Node
    BY WordFacts DEF SolverInv
  <2> HIDE DEF s
  <2> QED BY <2>1
<1>5. n \in BuilderP!Node
  BY <1>4 DEF BuilderP!Node, Node
<1> HIDE DEF n, s
<1>6. PICK k \in 1 .. Len(nodes[n]) : q \in BuilderP!VariantsOf(nodes[n][k])
  BY <1>1, <1>2, <1>3 DEF BuilderP!Inv, BuilderP!WordsPlaced
<1>7. WordList[q].back = nodes[n][k].to /\ WordList[q].hash = nodes[n][k].wordHash
  BY <1>1, <1>5, <1>6 DEF BuilderP!Inv, BuilderP!VariantsExact
<1> QED BY <1>2, <1>4, <1>6, <1>7 DEF n, s

\* What the search says of a solution, in edges of the builder.
LEMMA SolutionFacts ==
  ASSUME SolverInv, OneLetterWordsInBox, pc = "done", NEW c \in 1 .. Len(solutions)
  PROVE  LET p == solutions[c]
             edge(j) == nodes[p[j].node][p[j].pos]
         IN /\ Filter!Filtered /\ Builder!Built
            /\ Len(p) \in Nat /\ Len(p) - 1 \in MinSolutionSize .. MaxSearchSize
            /\ \A j \in 2 .. Len(p) : p[j].node \in Node /\ p[j].pos \in 1 .. Len(nodes[p[j].node])
            /\ \A j \in 2 .. Len(p) - 1 : edge(j).to = p[j + 1].node
            /\ UNION { edge(j).wordHash : j \in 2 .. Len(p) } = Node
<1> DEFINE p == solutions[c]
           n == Len(p)
           edge(j) == nodes[p[j].node][p[j].pos]
           at(j) == SearchP!EdgeAt(Graph, p[j])
<1>1. Filter!Filtered /\ Builder!Built /\ SearchInv
  BY DEF SolverInv, Search!InitSearch
<1>2. SearchP!IsSolution(Graph, p)
  BY <1>1 DEF SearchInv, SearchP!ReportsSolve
<1>3. BuilderP!Inv
  BY <1>1, BuilderStarted
<1>4. n \in Nat
  <2>1. solutions \in Seq(Seq(SearchP!EdgeRef))
    BY <1>1 DEF SearchInv, SearchP!Inv, SearchP!TypeOK
  <2>2. p \in Seq(SearchP!EdgeRef)
    BY <2>1
  <2> QED BY <2>2
<1>5. n - 1 \in MinSolutionSize .. MaxSearchSize
  BY <1>2, <1>4, SolverAssumption DEF SearchP!IsSolution
<1>6. ASSUME NEW j \in 2 .. n
      PROVE  /\ p[j].node \in Node /\ p[j].pos \in 1 .. Len(nodes[p[j].node])
             /\ at(j).to = edge(j).to /\ at(j).wordHash = edge(j).wordHash
  <2>1. j \in 1 .. n
    BY <1>4
  <2>2. SearchP!Refers(Graph, p[j]) /\ p[j].node # SearchP!Router
    BY <1>2, <2>1 DEF SearchP!IsSolution
  <2>3. p[j].node \in Node /\ p[j].pos \in Nat \ {0}
    BY <2>2 DEF SearchP!Refers, SearchP!EdgeRef, SearchP!Place, SearchP!Router, SearchP!Node, Node
  <2>4. SearchP!Outgoing(Graph, p[j].node) = Graph[p[j].node]
    BY <2>2 DEF SearchP!Outgoing
  <2>5. p[j].pos <= Len(Graph[p[j].node]) /\ at(j) = Graph[p[j].node][p[j].pos]
    BY <2>2, <2>4 DEF SearchP!Refers, SearchP!EdgeAt
  <2>6. Len(Graph[p[j].node]) = Len(nodes[p[j].node]) /\ Len(nodes[p[j].node]) \in Nat
    <3>1. p[j].node \in BuilderP!Node
      BY <2>3 DEF BuilderP!Node, Node
    <3> QED BY <1>3, <2>3, <3>1, GraphFacts, BuilderP!Vectors, Assumptions DEF BuilderP!Inv
  <2>7. p[j].pos \in 1 .. Len(nodes[p[j].node])
    BY <2>3, <2>5, <2>6
  <2>8. Graph[p[j].node][p[j].pos] = [wordHash |-> edge(j).wordHash, to |-> edge(j).to]
    BY <1>3, <2>3, <2>7, GraphFacts
  <2> HIDE DEF at, edge, p
  <2> QED BY <2>3, <2>5, <2>7, <2>8
<1>7. ASSUME NEW j \in 2 .. n - 1 PROVE edge(j).to = p[j + 1].node
  <2>1. j \in 2 .. n /\ j \in 1 .. n - 1
    BY <1>4
  <2>2. at(j).to = p[j + 1].node
    BY <1>2, <2>1 DEF SearchP!IsSolution, SearchP!Linked
  <2> QED BY <1>6, <2>1, <2>2
<1>8. at(1).wordHash = {}
  <2>1. 1 \in 1 .. n
    BY <1>4, <1>5, SolverAssumption
  <2>2. SearchP!Refers(Graph, p[1]) /\ p[1].node = SearchP!Router
    BY <1>2, <2>1 DEF SearchP!IsSolution
  <2>3. SearchP!Outgoing(Graph, p[1].node) = SearchP!RouterEdges
    BY <2>2 DEF SearchP!Outgoing
  <2>4. p[1].pos \in 1 .. BoxChars
    BY <2>2, <2>3, BoxCharsAssumption DEF SearchP!Refers, SearchP!EdgeRef, SearchP!RouterEdges
  <2>5. at(1) = SearchP!RouterEdges[p[1].pos]
    BY <2>3 DEF SearchP!EdgeAt
  <2>6. SearchP!RouterEdges[p[1].pos] = [wordHash |-> {}, to |-> p[1].pos - 1]
    BY <2>4 DEF SearchP!RouterEdges
  <2> HIDE DEF at
  <2> QED BY <2>5, <2>6
<1>9. UNION { at(j).wordHash : j \in 1 .. n } = Node
  BY <1>2 DEF SearchP!IsSolution, SearchP!PathHash, SearchP!SolutionMask, SearchP!Node, Node
<1> HIDE DEF at, edge
<1>10. UNION { edge(j).wordHash : j \in 2 .. n } = Node
  <2>1. \A j \in 1 .. n : j = 1 \/ j \in 2 .. n
    BY <1>4
  <2>2. \A j \in 2 .. n : j \in 1 .. n
    BY <1>4
  <2> HIDE DEF n
  <2>3. ASSUME NEW m \in Node PROVE \E j \in 2 .. n : m \in edge(j).wordHash
    <3>1. PICK j \in 1 .. n : m \in at(j).wordHash
      BY <1>9
    <3> QED BY <1>6, <1>8, <2>1, <3>1
  <2>4. ASSUME NEW j \in 2 .. n PROVE edge(j).wordHash \subseteq Node
    BY <1>6, <1>9, <2>2
  <2> QED BY <2>3, <2>4
<1> QED BY <1>1, <1>4, <1>5, <1>6, <1>7, <1>10 DEF edge

\* What was traced is at most what was found, each chain its own solution.
LEMMA TracedFacts ==
  ASSUME SolverInv, NEW c \in 1 .. Len(chains)
  PROVE  pc = "done" /\ c \in 1 .. Len(solutions) /\ chains[c] = TraceSolution(solutions[c])
<1>1. PICK n \in 0 .. Len(solutions) :
        chains = [d \in 1 .. n |-> TraceSolution(solutions[d])] /\ (n # 0 => pc = "done")
  BY DEF SolverInv, Traced
<1>2. pc = "done"
  BY NothingTraced DEF SolverInv
<1>3. Len(solutions) \in Nat
  <2>1. SearchInv
    BY <1>2 DEF SolverInv, Search!InitSearch
  <2> QED BY <2>1 DEF SearchInv, SearchP!Inv, SearchP!TypeOK
<1> DEFINE F(d) == TraceSolution(solutions[d])
           m == Len(solutions)
<1>4. chains = [d \in 1 .. n |-> F(d)] /\ n \in 0 .. m /\ m \in Nat
  BY <1>1, <1>3
<1> HIDE DEF F, m
<1>5. c \in 1 .. n /\ c \in 1 .. m /\ chains[c] = F(c)
  BY <1>4
<1> QED BY <1>2, <1>5 DEF F, m

LEMMA DoubledUnsolved ==
  ASSUME SolverInv, OneLetterWordsInBox, NEW c \in 1 .. Len(chains)
  PROVE  AllDifferent
<1> SUFFICES ASSUME ~AllDifferent PROVE FALSE
  OBVIOUS
<1>1. input \in Inputs
  BY DEF SolverInv, FilterP!Inv
<1>2. PICK m \in Node : \A a \in Letter : Index[a] # m
  BY <1>1, DoubledFacts
<1> DEFINE p == solutions[c]
           n == Len(p)
           edge(j) == nodes[p[j].node][p[j].pos]
<1>3. pc = "done" /\ c \in 1 .. Len(solutions)
  BY TracedFacts
<1>4. /\ Filter!Filtered /\ Builder!Built
      /\ \A j \in 2 .. n : p[j].node \in Node /\ p[j].pos \in 1 .. Len(nodes[p[j].node])
      /\ UNION { edge(j).wordHash : j \in 2 .. n } = Node
  BY <1>3, SolutionFacts
<1>5. PICK j \in 2 .. n : m \in edge(j).wordHash
  BY <1>4
<1>6. PICK q \in 1 .. Len(words) : wordHashes[q] = edge(j).wordHash
  <2> DEFINE V == edge(j).variants
  <2>1. /\ Len(V) \in Nat \ {0}
        /\ \A v \in 1 .. Len(V) : V[v] \in 1 .. Len(words) /\ wordHashes[V[v]] = edge(j).wordHash
    <3> DEFINE x == p[j].node
               y == p[j].pos
    <3>1. x \in Node /\ y \in 1 .. Len(nodes[x]) /\ edge(j) = nodes[x][y]
      BY <1>4
    <3>2. Filter!Filtered /\ Builder!Built
      BY <1>4
    <3> HIDE DEF x, y, edge
    <3>3. /\ Len(nodes[x][y].variants) \in Nat \ {0}
          /\ \A v \in 1 .. Len(nodes[x][y].variants) :
               Behind(nodes[x][y].variants[v], x, nodes[x][y])
      BY <3>1, <3>2, EdgeFacts
    <3> QED BY <3>1, <3>3 DEF Behind
  <2> HIDE DEF V
  <2>2. 1 \in 1 .. Len(V)
    BY <2>1
  <2> QED BY <2>1, <2>2
<1> DEFINE s == Letters(words[q])
<1>7. s \in Seq(Letter) /\ wordHashes[q] = { Index[s[l]] : l \in 1 .. Len(s) }
  BY WordFacts DEF SolverInv
<1> HIDE DEF edge, s
<1>8. PICK l \in 1 .. Len(s) : Index[s[l]] = m
  BY <1>5, <1>6, <1>7
<1>9. s[l] \in Letter
  BY <1>7
<1> QED BY <1>2, <1>8, <1>9

\* A box with a letter typed twice is never answered.
THEOREM DoubleLetterNeverSolved ==
  ASSUME OneLetterWordsInBox
  PROVE  Spec => []DoubleLetterUnsolved
<1>1. SolverInv => DoubleLetterUnsolved
  <2> SUFFICES ASSUME SolverInv, ~AllDifferent PROVE chains = <<>>
    BY DEF DoubleLetterUnsolved
  <2>1. PICK n \in 0 .. Len(solutions) : chains = [d \in 1 .. n |-> TraceSolution(solutions[d])]
    BY DEF SolverInv, Traced
  <2>2. n \in Nat
    OBVIOUS
  <2>3. Len(chains) = n
    BY <2>1, <2>2
  <2>4. ~(n >= 1)
    <3> SUFFICES ASSUME n >= 1 PROVE FALSE
      OBVIOUS
    <3>1. 1 \in 1 .. Len(chains)
      BY <2>2, <2>3
    <3> QED BY <3>1, DoubledUnsolved
  <2>5. n = 0
    BY <2>2, <2>4
  <2> QED BY <2>1, <2>5
<1> QED BY <1>1, SolverInit, SolverNext, PTL DEF Spec

\* In a box of different letters a word that passed the filter can be played.
LEMMA WordPlayable ==
  ASSUME SolverInv, OneLetterWordsInBox, AllDifferent, NEW q \in 1 .. Len(words)
  PROVE  IsPlayable(Letters(words[q]))
<1> DEFINE s == Letters(words[q])
<1>1. /\ s \in Seq(Letter) /\ Len(s) \in Nat \ {0}
      /\ \A l \in 1 .. Len(s) : s[l] \in BoxLetters /\ Index[s[l]] \in Node
      /\ \A l \in 1 .. Len(s) - 1 :
           Index[s[l]] \div CharsPerSide # Index[s[l + 1]] \div CharsPerSide
  BY WordFacts DEF SolverInv
<1> HIDE DEF s
<1>2. input \in Inputs
  BY DEF SolverInv, FilterP!Inv
<1>3. ASSUME NEW l \in 1 .. Len(s) - 1, Beside(s[l], s[l + 1]) PROVE FALSE
  <2>1. PICK k \in Node, m \in Node :
          /\ k \div CharsPerSide = m \div CharsPerSide
          /\ input.characters[k + 1] = s[l] /\ input.characters[m + 1] = s[l + 1]
    BY <1>3 DEF Beside
  <2>2. Index[s[l]] = k /\ Index[s[l + 1]] = m
    BY <1>2, <2>1, DifferentFacts
  <2> QED BY <1>1, <2>1, <2>2
<1> QED BY <1>1, <1>3 DEF IsPlayable, s

\* What is traced of a solution: for each edge but the router's its words.
LEMMA ChainFacts ==
  ASSUME SolverInv, OneLetterWordsInBox, NEW c \in 1 .. Len(chains)
  PROVE  LET p == solutions[c]
             n == Len(p) - 1
             edge(k) == nodes[p[k + 1].node][p[k + 1].pos]
         IN /\ n \in Nat /\ n \in MinSolutionSize .. MaxSearchSize /\ Len(chains[c]) = n
            /\ \A k \in 1 .. n :
                 /\ Len(edge(k).variants) \in Nat \ {0}
                 /\ \A v \in 1 .. Len(edge(k).variants) :
                      Behind(edge(k).variants[v], p[k + 1].node, edge(k))
                 /\ chains[c][k] =
                      [v \in 1 .. Len(edge(k).variants) |-> words[edge(k).variants[v]]]
<1> DEFINE p == solutions[c]
           n == Len(p) - 1
           edge(k) == nodes[p[k + 1].node][p[k + 1].pos]
           chain == chains[c]
<1>1. /\ pc = "done" /\ c \in 1 .. Len(solutions)
      /\ chain = [k \in 1 .. n |-> [v \in 1 .. Len(edge(k).variants) |-> words[edge(k).variants[v]]]]
  BY TracedFacts DEF TraceSolution
<1>2. /\ Filter!Filtered /\ Builder!Built /\ n \in Nat /\ n \in MinSolutionSize .. MaxSearchSize
      /\ \A k \in 1 .. n : p[k + 1].node \in Node /\ p[k + 1].pos \in 1 .. Len(nodes[p[k + 1].node])
  <2>1. /\ Filter!Filtered /\ Builder!Built
        /\ Len(p) \in Nat /\ n \in MinSolutionSize .. MaxSearchSize
        /\ \A j \in 2 .. Len(p) : p[j].node \in Node /\ p[j].pos \in 1 .. Len(nodes[p[j].node])
    BY <1>1, SolutionFacts
  <2>2. n \in Nat /\ \A k \in 1 .. n : k + 1 \in 2 .. Len(p)
    BY <2>1, SolverAssumption
  <2> QED BY <2>1, <2>2
<1>3. ASSUME NEW k \in 1 .. n
      PROVE  /\ Len(edge(k).variants) \in Nat \ {0}
             /\ \A v \in 1 .. Len(edge(k).variants) :
                  Behind(edge(k).variants[v], p[k + 1].node, edge(k))
  <2> DEFINE x == p[k + 1].node
             y == p[k + 1].pos
  <2>1. x \in Node /\ y \in 1 .. Len(nodes[x]) /\ Filter!Filtered /\ Builder!Built
    BY <1>2
  <2> HIDE DEF x, y
  <2>2. /\ Len(nodes[x][y].variants) \in Nat \ {0}
        /\ \A v \in 1 .. Len(nodes[x][y].variants) :
             Behind(nodes[x][y].variants[v], x, nodes[x][y])
    BY <2>1, EdgeFacts
  <2> QED BY <2>2 DEF x, y
<1>4. /\ Len(chain) = n
      /\ \A k \in 1 .. n : chain[k] = [v \in 1 .. Len(edge(k).variants) |-> words[edge(k).variants[v]]]
  <2> DEFINE F(k) == [v \in 1 .. Len(edge(k).variants) |-> words[edge(k).variants[v]]]
  <2>1. chain = [k \in 1 .. n |-> F(k)] /\ n \in Nat
    BY <1>1, <1>2
  <2> HIDE DEF chain, n, F
  <2>2. Len(chain) = n /\ \A k \in 1 .. n : chain[k] = F(k)
    BY <2>1
  <2> QED BY <2>2 DEF F
<1> HIDE DEF edge, chain
<1> QED BY <1>2, <1>3, <1>4 DEF edge, chain

\* A choice of one variant for each word of a chain, as words of the list.
LEMMA GameFacts ==
  ASSUME SolverInv, OneLetterWordsInBox, NEW c \in 1 .. Len(chains), NEW game \in GamesOf(chains[c])
  PROVE  LET p == solutions[c]
             edge(k) == nodes[p[k + 1].node][p[k + 1].pos]
         IN \E q : /\ game = [k \in 1 .. Len(p) - 1 |-> Letters(words[q[k]])]
                   /\ \A k \in 1 .. Len(p) - 1 : Behind(q[k], p[k + 1].node, edge(k))
<1> DEFINE p == solutions[c]
           n == Len(p) - 1
           edge(k) == nodes[p[k + 1].node][p[k + 1].pos]
           chain == chains[c]
<1>1. /\ n \in Nat /\ Len(chain) = n
      /\ \A k \in 1 .. n :
           /\ Len(edge(k).variants) \in Nat \ {0}
           /\ \A v \in 1 .. Len(edge(k).variants) :
                Behind(edge(k).variants[v], p[k + 1].node, edge(k))
           /\ chain[k] = [v \in 1 .. Len(edge(k).variants) |-> words[edge(k).variants[v]]]
  BY ChainFacts
<1>2. PICK f \in [1 .. n -> 1 .. Len(words)] :
        /\ \A k \in 1 .. n : f[k] <= Len(chain[k])
        /\ game = [k \in 1 .. n |-> Letters(chain[k][f[k]])]
  BY <1>1 DEF GamesOf
<1> DEFINE q == [k \in 1 .. n |-> edge(k).variants[f[k]]]
<1>3. ASSUME NEW k \in 1 .. n
      PROVE  /\ chain[k][f[k]] = words[q[k]]
             /\ Behind(q[k], p[k + 1].node, edge(k))
  <2> DEFINE m == Len(edge(k).variants)
             V == edge(k).variants
  <2>1. m \in Nat /\ chain[k] = [v \in 1 .. m |-> words[V[v]]]
    BY <1>1
  <2>2. f[k] \in 1 .. Len(words) /\ f[k] <= Len(chain[k])
    BY <1>2
  <2> HIDE DEF m, V, chain
  <2>3. f[k] \in 1 .. m /\ chain[k][f[k]] = words[V[f[k]]]
    BY <2>1, <2>2
  <2>4. Behind(V[f[k]], p[k + 1].node, edge(k))
    BY <1>1, <2>3 DEF m, V
  <2>5. q[k] = V[f[k]]
    BY DEF V
  <2> QED BY <2>3, <2>4, <2>5
<1>4. game = [k \in 1 .. n |-> Letters(words[q[k]])]
  BY <1>2, <1>3
<1> HIDE DEF q, edge
<1> QED BY <1>3, <1>4 DEF edge

LEMMA GameWins ==
  ASSUME SolverInv, OneLetterWordsInBox, NEW c \in 1 .. Len(chains), NEW game \in GamesOf(chains[c])
  PROVE  Wins(game)
<1> DEFINE p == solutions[c]
           n == Len(p) - 1
           node(k) == p[k + 1].node
           edge(k) == nodes[p[k + 1].node][p[k + 1].pos]
<1>1. PICK q : /\ game = [k \in 1 .. n |-> Letters(words[q[k]])]
               /\ \A k \in 1 .. n : Behind(q[k], node(k), edge(k))
  BY GameFacts
<1>2. /\ n \in Nat
      /\ \A k \in 1 .. n - 1 : edge(k).to = node(k + 1)
      /\ UNION { edge(k).wordHash : k \in 1 .. n } = Node
  <2> DEFINE e(j) == nodes[p[j].node][p[j].pos]
  <2>1. /\ Len(p) \in Nat /\ n \in MinSolutionSize .. MaxSearchSize
        /\ \A j \in 2 .. Len(p) - 1 : e(j).to = p[j + 1].node
        /\ UNION { e(j).wordHash : j \in 2 .. Len(p) } = Node
    BY TracedFacts, SolutionFacts
  <2>2. n \in Nat /\ n = Len(p) - 1
    BY <2>1, SolverAssumption
  <2>3. ASSUME NEW k \in 1 .. n - 1 PROVE edge(k).to = node(k + 1)
    <3>1. k + 1 \in 2 .. Len(p) - 1
      BY <2>1, <2>2
    <3> QED BY <2>1, <3>1
  <2>4. UNION { e(j).wordHash : j \in 2 .. Len(p) } = UNION { e(k + 1).wordHash : k \in 1 .. n }
    <3> DEFINE N == Len(p)
    <3>1. N \in Nat /\ n = N - 1
      BY <2>1
    <3> HIDE DEF e, n, N
    <3>2. \A j \in 2 .. N : j - 1 \in 1 .. n /\ (j - 1) + 1 = j
      BY <3>1
    <3>3. \A k \in 1 .. n : k + 1 \in 2 .. N
      BY <3>1
    <3>4. { e(j).wordHash : j \in 2 .. N } = { e(k + 1).wordHash : k \in 1 .. n }
      <4>1. ASSUME NEW h, h \in { e(j).wordHash : j \in 2 .. N }
            PROVE  h \in { e(k + 1).wordHash : k \in 1 .. n }
        <5>1. PICK j \in 2 .. N : h = e(j).wordHash
          BY <4>1
        <5>2. j - 1 \in 1 .. n /\ h = e((j - 1) + 1).wordHash
          BY <3>2, <5>1
        <5> QED BY <5>2
      <4>2. ASSUME NEW h, h \in { e(k + 1).wordHash : k \in 1 .. n }
            PROVE  h \in { e(j).wordHash : j \in 2 .. N }
        BY <3>3, <4>2
      <4> QED BY <4>1, <4>2
    <3> QED BY <3>4 DEF N
  <2> QED BY <2>1, <2>2, <2>3, <2>4
<1> HIDE DEF n, edge, node
<1>3. Len(game) = n /\ \A k \in 1 .. n : game[k] = Letters(words[q[k]])
  BY <1>1, <1>2
<1>4. input \in Inputs /\ AllDifferent
  BY DoubledUnsolved DEF SolverInv, FilterP!Inv
<1>5. ASSUME NEW k \in 1 .. n
      PROVE  /\ game[k] \in Seq(Letter) /\ Len(game[k]) \in Nat \ {0}
             /\ game[k] \in ListedWords /\ IsPlayable(game[k])
             /\ \A l \in 1 .. Len(game[k]) : game[k][l] \in BoxLetters /\ game[k][l] \in Letter
             /\ edge(k).wordHash = { Index[game[k][l]] : l \in 1 .. Len(game[k]) }
             /\ Index[game[k][1]] = node(k) /\ Index[LastOf(game[k])] = edge(k).to
  <2> DEFINE s == Letters(words[q[k]])
  <2>1. /\ q[k] \in 1 .. Len(words) /\ Index[s[1]] = node(k) /\ Index[LastOf(s)] = edge(k).to
        /\ wordHashes[q[k]] = edge(k).wordHash
    BY <1>1 DEF Behind
  <2>2. /\ s \in Seq(Letter) /\ Len(s) \in Nat \ {0} /\ s \in ListedWords
        /\ \A l \in 1 .. Len(s) : s[l] \in BoxLetters
        /\ wordHashes[q[k]] = { Index[s[l]] : l \in 1 .. Len(s) }
    BY <2>1, WordFacts DEF SolverInv
  <2>3. IsPlayable(s)
    BY <1>4, <2>1, WordPlayable
  <2>4. game[k] = s
    BY <1>3
  <2> HIDE DEF s
  <2>5. \A l \in 1 .. Len(s) : s[l] \in Letter
    BY <2>2
  <2> QED BY <2>1, <2>2, <2>3, <2>4, <2>5
\* Letters of the box that have the same index are the same.
<1>6. ASSUME NEW a \in BoxLetters, NEW b \in BoxLetters, Index[a] = Index[b] PROVE a = b
  BY <1>4, <1>6, InputFacts, IndexFacts
<1>7. ASSUME NEW k \in 1 .. n - 1 PROVE LastOf(game[k]) = game[k + 1][1]
  <2>1. k \in 1 .. n /\ k + 1 \in 1 .. n
    BY <1>2
  <2>2. LastOf(game[k]) \in BoxLetters
    <3>1. Len(game[k]) \in 1 .. Len(game[k])
      BY <1>5, <2>1
    <3> QED BY <1>5, <2>1, <3>1 DEF LastOf
  <2>3. game[k + 1][1] \in BoxLetters
    <3>1. 1 \in 1 .. Len(game[k + 1])
      BY <1>5, <2>1
    <3> QED BY <1>5, <2>1, <3>1
  <2>4. Index[LastOf(game[k])] = Index[game[k + 1][1]]
    BY <1>2, <1>5, <2>1
  <2> QED BY <1>6, <2>2, <2>3, <2>4
<1>8. UNION { LettersOf(game[k]) : k \in 1 .. n } = BoxLetters
  <2>1. ASSUME NEW k \in 1 .. n, NEW a \in LettersOf(game[k]) PROVE a \in BoxLetters
    BY <1>5 DEF LettersOf
  <2>2. ASSUME NEW a \in BoxLetters PROVE \E k \in 1 .. n : a \in LettersOf(game[k])
    <3>1. Index[a] \in Node
      BY <1>4, InputFacts, IndexFacts
    <3>2. PICK k \in 1 .. n : Index[a] \in edge(k).wordHash
      BY <1>2, <3>1
    <3>3. PICK l \in 1 .. Len(game[k]) : Index[a] = Index[game[k][l]]
      BY <1>5, <3>2
    <3>4. a = game[k][l]
      BY <1>5, <1>6, <3>3
    <3> QED BY <3>4 DEF LettersOf
  <2> QED BY <2>1, <2>2
<1> QED BY <1>3, <1>5, <1>7, <1>8 DEF Wins

\* Whatever variant is chosen for each word of a printed chain, the game is
\* won within the words searched (solver.hpp:149-247).
THEOREM PrintedChainsWin ==
  ASSUME OneLetterWordsInBox
  PROVE  Spec => []ChainsWin
<1>1. SolverInv => ChainsWin
  <2> SUFFICES ASSUME SolverInv, NEW c \in 1 .. Len(chains)
               PROVE  /\ Len(chains[c]) \in MinSolutionSize .. MaxSearchSize
                      /\ \A k \in 1 .. Len(chains[c]) : chains[c][k] # <<>>
                      /\ \A game \in GamesOf(chains[c]) : Wins(game)
    BY DEF ChainsWin
  <2> DEFINE p == solutions[c]
             n == Len(p) - 1
             edge(k) == nodes[p[k + 1].node][p[k + 1].pos]
             chain == chains[c]
  <2>1. /\ n \in Nat /\ n \in MinSolutionSize .. MaxSearchSize /\ Len(chain) = n
        /\ \A k \in 1 .. n :
             /\ Len(edge(k).variants) \in Nat \ {0}
             /\ chain[k] = [v \in 1 .. Len(edge(k).variants) |-> words[edge(k).variants[v]]]
    BY ChainFacts
  <2>2. ASSUME NEW k \in 1 .. n PROVE chain[k] # <<>>
    <3> DEFINE m == Len(edge(k).variants)
               F(v) == words[edge(k).variants[v]]
    <3>1. m \in Nat \ {0} /\ chain[k] = [v \in 1 .. m |-> F(v)]
      BY <2>1
    <3> HIDE DEF m, F, chain
    <3>2. Len(chain[k]) = m
      BY <3>1
    <3> QED BY <3>1, <3>2
  <2>3. \A game \in GamesOf(chains[c]) : Wins(game)
    BY GameWins
  <2> HIDE DEF n, edge
  <2> QED BY <2>1, <2>2, <2>3
<1> QED BY <1>1, SolverInit, SolverNext, PTL DEF Spec

-----------------------------------------------------------------------------
(***************************************************************************)
(* "no solution": a game that wins has words of the list that can all be   *)
(* played, each of them passed the filter, lies behind an edge, and the    *)
(* edges are a chain that the search would have answered.                  *)
(***************************************************************************)
\* What pruning keeps of the search, once it has started.
FoundSoFar == Search!InitSearch \/ SearchP!FoundInv

LEMMA FoundSteps ==
  ASSUME OneLetterWordsInBox, MinSolutionSize <= 2
  PROVE  SolverInv /\ FoundSoFar /\ [Next]_vars => FoundSoFar'
<1> SUFFICES ASSUME SolverInv, FoundSoFar, [Next]_vars PROVE FoundSoFar'
  OBVIOUS
<1>1. CASE FilterWords \/ BuildGraph
  <2>1. ~Filter!Filtered \/ ~Builder!Built
    BY <1>1 DEF FilterWords, BuildGraph, Filter!Filtered, Filter!Filter, Filter!SkipEmpty,
      Filter!TakeWord, Filter!NextLetter, Filter!Drop, Filter!Keep, Filter!HashLetter,
      Builder!Built, Builder!Build, Builder!NewEdge, Builder!AddVariant
  <2>2. Search!InitSearch /\ UNCHANGED searchVars
    BY <1>1, <2>1 DEF FilterWords, BuildGraph, SolverInv
  <2> QED BY <2>2 DEF FoundSoFar, Search!InitSearch, searchVars
<1>2. CASE SearchGraph
  <2>1. Filter!Filtered /\ Builder!Built /\ SearchInv
    BY <1>2, SearchStarted DEF SearchGraph
  <2>2. SearchP!FoundInv
    BY <2>1, SearchStarts, SearchP!FoundInit, Assumptions DEF FoundSoFar
  <2>3. SearchP!FoundInv'
    BY <1>2, <2>1, <2>2, SearchSteps, SearchP!FoundNext, Assumptions DEF SearchInv
  <2> QED BY <2>3 DEF FoundSoFar
<1>3. CASE Trace \/ UNCHANGED vars
  <2>1. UNCHANGED <<filterVars, buildVars, searchVars>>
    BY <1>3 DEF Trace, vars
  <2>2. CASE Search!InitSearch
    BY <2>1, <2>2 DEF FoundSoFar, Search!InitSearch, searchVars
  <2>3. CASE SearchP!FoundInv /\ ~Search!InitSearch
    <3>1. SearchInv
      BY <2>3 DEF SolverInv
    <3>2. Graph' = Graph
      BY <2>1 DEF Graph, Builder!Searchable, buildVars
    <3>3. UNCHANGED SearchP!vars
      BY <2>1, <3>2 DEF SearchP!vars, searchVars
    <3>4. SearchP!FoundInv'
      BY <2>3, <3>1, <3>3, SearchP!FoundNext, Assumptions DEF SearchInv
    <3> QED BY <3>4 DEF FoundSoFar
  <2> QED BY <2>2, <2>3 DEF FoundSoFar
<1> QED BY <1>1, <1>2, <1>3 DEF Next

\* The letters of a listed word that can be played.
LEMMA PlayableFacts ==
  ASSUME input \in Inputs, NEW s \in ListedWords, IsPlayable(s)
  PROVE  /\ Len(s) \in Nat \ {0}
         /\ \A l \in 1 .. Len(s) : s[l] \in BoxLetters /\ s[l] \in Letter /\ Index[s[l]] \in Node
<1> DEFINE N == Len(input.csv)
<1>1. PICK v \in [begin : 0 .. N, size : 1 .. N] : s = Letters(v)
  BY DEF ListedWords
<1>2. N \in Nat
  BY InputFacts
<1>3. Len(s) = v.size /\ v.size \in Nat \ {0}
  BY <1>1, <1>2 DEF Letters
<1>4. \A l \in 1 .. Len(s) : s[l] \in BoxLetters
  BY DEF IsPlayable
<1> QED BY <1>3, <1>4, InputFacts, IndexFacts

\* A listed word that can be played is kept by the filter.
LEMMA ListedKept ==
  ASSUME FilterP!Inv, Filter!Filtered, NEW s \in ListedWords, IsPlayable(s)
  PROVE  \E q \in 1 .. Len(words) : Letters(words[q]) = s
<1> DEFINE N == Len(input.csv)
<1>1. PICK v \in [begin : 0 .. N, size : 1 .. N] :
        s = Letters(v) /\ Filter!IsWord(input.csv, v.begin, v.size)
  BY DEF ListedWords
<1> DEFINE b == v.begin
           n == v.size
<1>2. input \in Inputs /\ N \in Nat
  BY InputFacts DEF FilterP!Inv
<1>3. b \in 0 .. N /\ n \in 1 .. N /\ n \in Nat \ {0} /\ v = [begin |-> b, size |-> n]
  BY <1>1, <1>2
<1>4. Filter!IsWord(input.csv, b, n) /\ Len(s) = n /\ \A l \in 1 .. n : s[l] = input.csv[b + l]
  BY <1>1, <1>3 DEF Letters
<1> HIDE DEF b, n, N
<1>5. \A l \in 1 .. n : s[l] \in BoxLetters /\ s[l] \in Letter /\ Index[s[l]] \in Node
  BY <1>2, <1>4, PlayableFacts
<1>6. ASSUME NEW l \in b + 1 .. b + n
      PROVE  Filter!InBox(input.characters, input.csv[l])
  <2>1. l - b \in 1 .. n /\ b + (l - b) = l
    BY <1>3
  <2>2. input.csv[l] \in BoxLetters /\ input.csv[l] \in Letter
    BY <1>4, <1>5, <2>1
  <2> QED BY <1>2, <2>2, IndexFacts
<1>7. ASSUME NEW l \in b + 2 .. b + n
      PROVE  Filter!SideOf(input.characters, input.csv[l - 1])
               # Filter!SideOf(input.characters, input.csv[l])
  <2> DEFINE k == l - 1 - b
  <2>1. k \in 1 .. n - 1 /\ k \in 1 .. n /\ k + 1 \in 1 .. n
        /\ b + k = l - 1 /\ b + (k + 1) = l
    BY <1>3
  <2> HIDE DEF k
  <2>2. s[k] = input.csv[l - 1] /\ s[k + 1] = input.csv[l]
    BY <1>4, <2>1
  <2>3. \A c : Filter!SideOf(input.characters, c) = Index[c] \div CharsPerSide
    BY DEF Filter!SideOf, Filter!CompressionIndex, Filter!PlacesOf, Filter!Node,
      Index, CompressionIndex, PlacesOf, Node
  <2>4. /\ Index[s[k]] \in Node /\ input.characters[Index[s[k]] + 1] = s[k]
        /\ Index[s[k + 1]] \in Node /\ input.characters[Index[s[k + 1]] + 1] = s[k + 1]
    BY <1>2, <1>5, <2>1, IndexFacts
  <2>5. ~Beside(s[k], s[k + 1])
    BY <1>4, <2>1 DEF IsPlayable
  <2>6. Index[s[k]] \div CharsPerSide # Index[s[k + 1]] \div CharsPerSide
    BY <2>4, <2>5 DEF Beside
  <2> QED BY <2>2, <2>3, <2>6
<1>8. Filter!Playable(input, b, n)
  BY <1>6, <1>7 DEF Filter!Playable
<1>9. begin = N + 1
  <2>1. FilterP!Filtered
    BY DEF Filter!Filtered, FilterP!Filtered, Filter!MoreWords, FilterP!MoreWords
  <2> QED BY <2>1, FilterP!AllRead, Assumptions DEF N
<1>10. b < begin /\ b \in 0 .. N /\ n \in 0 .. N
  BY <1>2, <1>3, <1>9
<1>11. PICK q \in 1 .. Len(words) : words[q] = [begin |-> b, size |-> n]
  <2>1. FilterP!IsWord(input.csv, b, n) /\ FilterP!Playable(input, b, n)
    BY <1>4, <1>8, SameFilter
  <2>2. FilterP!ExactTo(input, words, begin)
    BY DEF FilterP!Inv
  <2> QED BY <1>10, <2>1, <2>2 DEF FilterP!ExactTo, N
<1> QED BY <1>1, <1>3, <1>11

\* It lies behind an edge of the graph that is searched.
LEMMA ListedEdge ==
  ASSUME SolverInv, OneLetterWordsInBox, Filter!Filtered, Builder!Built,
         NEW s \in ListedWords, IsPlayable(s)
  PROVE  \E r \in SearchP!WordRefs(Graph) :
           /\ r.node = Index[s[1]]
           /\ SearchP!EdgeAt(Graph, r).to = Index[LastOf(s)]
           /\ SearchP!EdgeAt(Graph, r).wordHash = { Index[s[l]] : l \in 1 .. Len(s) }
<1>1. PICK q \in 1 .. Len(words) : Letters(words[q]) = s
  BY ListedKept DEF SolverInv
<1>2. wordHashes[q] = { Index[s[l]] : l \in 1 .. Len(s) }
  <2> DEFINE t == Letters(words[q])
  <2>1. wordHashes[q] = { Index[t[l]] : l \in 1 .. Len(t) }
    BY WordFacts DEF SolverInv
  <2>2. t = s
    BY <1>1
  <2> HIDE DEF t
  <2> QED BY <2>1, <2>2
<1> DEFINE n == Index[s[1]]
<1>3. /\ n \in Node
      /\ \E k \in 1 .. Len(nodes[n]) :
           nodes[n][k].to = Index[LastOf(s)] /\ nodes[n][k].wordHash = wordHashes[q]
  BY <1>1, PlacedFacts
<1> HIDE DEF n
<1>4. PICK k \in 1 .. Len(nodes[n]) :
        nodes[n][k].to = Index[LastOf(s)] /\ nodes[n][k].wordHash = wordHashes[q]
  BY <1>3
<1>5. Len(Graph[n]) = Len(nodes[n]) /\ Graph[n][k].wordHash = nodes[n][k].wordHash
      /\ Graph[n][k].to = nodes[n][k].to
  <2>1. BuilderP!Inv
    BY BuilderStarted
  <2>2. /\ Len(Graph[n]) = Len(nodes[n])
        /\ Graph[n][k] = [wordHash |-> nodes[n][k].wordHash, to |-> nodes[n][k].to]
    BY <1>3, <1>4, <2>1, GraphFacts
  <2> QED BY <2>2
<1> DEFINE r == [node |-> n, pos |-> k]
<1>6. r \in SearchP!WordRefs(Graph)
  BY <1>3, <1>4, <1>5 DEF SearchP!WordRefs, SearchP!Node, Node
<1>7. SearchP!EdgeAt(Graph, r) = Graph[n][k]
  BY <1>3, BoxCharsAssumption DEF SearchP!EdgeAt, SearchP!Outgoing, SearchP!Router, Node
<1> QED BY <1>2, <1>4, <1>5, <1>6, <1>7 DEF n

\* A game that wins is a covering chain of the graph that is searched.
LEMMA WinCovers ==
  ASSUME SolverInv, OneLetterWordsInBox, Filter!Filtered, Builder!Built, AllDifferent,
         NEW k \in Nat, NEW game \in [1 .. k -> { s \in ListedWords : IsPlayable(s) }],
         Wins(game)
  PROVE  SearchP!CoveringChains(Graph, k) # {}
<1>1. input \in Inputs
  BY DEF SolverInv, FilterP!Inv
<1> DEFINE Fits(j, r) ==
             /\ r.node = Index[game[j][1]]
             /\ SearchP!EdgeAt(Graph, r).to = Index[LastOf(game[j])]
             /\ SearchP!EdgeAt(Graph, r).wordHash = { Index[game[j][l]] : l \in 1 .. Len(game[j]) }
<1>2. ASSUME NEW j \in 1 .. k
      PROVE  /\ Len(game[j]) \in Nat \ {0}
             /\ \A l \in 1 .. Len(game[j]) : game[j][l] \in BoxLetters /\ Index[game[j][l]] \in Node
             /\ \E r \in SearchP!WordRefs(Graph) : Fits(j, r)
  <2> DEFINE s == game[j]
  <2>1. s \in ListedWords /\ IsPlayable(s)
    OBVIOUS
  <2> HIDE DEF s
  <2>2. \E r \in SearchP!WordRefs(Graph) :
          /\ r.node = Index[s[1]]
          /\ SearchP!EdgeAt(Graph, r).to = Index[LastOf(s)]
          /\ SearchP!EdgeAt(Graph, r).wordHash = { Index[s[l]] : l \in 1 .. Len(s) }
    BY <2>1, ListedEdge
  <2>3. /\ Len(s) \in Nat \ {0}
        /\ \A l \in 1 .. Len(s) : s[l] \in BoxLetters /\ Index[s[l]] \in Node
    BY <1>1, <2>1, PlayableFacts
  <2> QED BY <2>2, <2>3 DEF s
<1> DEFINE c == [j \in 1 .. k |-> CHOOSE r \in SearchP!WordRefs(Graph) : Fits(j, r)]
<1> HIDE DEF Fits
<1>3. ASSUME NEW j \in 1 .. k PROVE c[j] \in SearchP!WordRefs(Graph) /\ Fits(j, c[j])
  BY <1>2
<1>4. c \in [1 .. k -> SearchP!WordRefs(Graph)]
  BY <1>3
<1> HIDE DEF c
<1>5. /\ Len(game) = k
      /\ \A j \in 1 .. k - 1 : LastOf(game[j]) = game[j + 1][1]
      /\ UNION { LettersOf(game[j]) : j \in 1 .. k } = BoxLetters
  BY DEF Wins
<1>6. SearchP!Linked(Graph, c, k)
  <2>1. ASSUME NEW j \in 1 .. k - 1
        PROVE  SearchP!EdgeAt(Graph, c[j]).to = c[j + 1].node
    <3>1. j \in 1 .. k /\ j + 1 \in 1 .. k
      OBVIOUS
    <3>2. LastOf(game[j]) = game[j + 1][1]
      BY <1>5
    <3> QED BY <1>3, <3>1, <3>2 DEF Fits
  <2> QED BY <2>1 DEF SearchP!Linked
<1>7. SearchP!PathHash(Graph, c, k) = Node
  <2> DEFINE H(j) == SearchP!EdgeAt(Graph, c[j]).wordHash
  <2>1. \A j \in 1 .. k : H(j) = { Index[game[j][l]] : l \in 1 .. Len(game[j]) }
    BY <1>3 DEF Fits
  <2> HIDE DEF H
  <2>2. \A j \in 1 .. k : H(j) \subseteq Node
    BY <1>2, <2>1
  <2>3. ASSUME NEW m \in Node PROVE \E j \in 1 .. k : m \in H(j)
    <3>1. input.characters[m + 1] \in BoxLetters /\ Index[input.characters[m + 1]] = m
      BY <1>1, InputFacts, DifferentFacts
    <3>2. PICK j \in 1 .. k : input.characters[m + 1] \in LettersOf(game[j])
      BY <1>5, <3>1
    <3>3. PICK l \in 1 .. Len(game[j]) : input.characters[m + 1] = game[j][l]
      BY <3>2 DEF LettersOf
    <3> QED BY <2>1, <3>1, <3>3
  <2>4. UNION { H(j) : j \in 1 .. k } = Node
    BY <2>2, <2>3
  <2> QED BY <2>4 DEF H, SearchP!PathHash
<1>8. c \in SearchP!CoveringChains(Graph, k)
  BY <1>4, <1>6, <1>7 DEF SearchP!CoveringChains, SearchP!SolutionMask, SearchP!Node, Node
<1> QED BY <1>8

\* "no solution" (main.cpp:34-35) is the truth: in a box of different letters
\* it is printed only if no game of the list wins within the words searched.
THEOREM NoSolutionTrue ==
  ASSUME OneLetterWordsInBox, MinSolutionSize <= 2
  PROVE  Spec => []NoSolutionHonest
<1>1. SolverInv /\ FoundSoFar => NoSolutionHonest
  <2> SUFFICES ASSUME SolverInv, FoundSoFar, Answered, chains = <<>>, AllDifferent,
                      NEW k \in MinSolutionSize .. MaxSearchSize,
                      NEW game \in [1 .. k -> { s \in ListedWords : IsPlayable(s) }],
                      Wins(game)
               PROVE  FALSE
    BY DEF NoSolutionHonest
  <2>1. pc = "done" /\ Len(solutions) = 0
    BY DEF Answered
  <2>2. Filter!Filtered /\ Builder!Built /\ SearchInv /\ SearchP!FoundInv
    BY <2>1 DEF SolverInv, FoundSoFar, Search!InitSearch
  <2>3. SearchP!FinalWordsComplete
    BY <2>2, SearchP!FoundMeans, Assumptions DEF SearchInv
  <2>4. ~SearchP!StopFn
    BY <2>1, SolverAssumption DEF SearchP!StopFn
  <2>5. k \in Nat
    BY SolverAssumption
  <2>6. PICK c : c \in SearchP!CoveringChains(Graph, k)
    BY <2>2, <2>5, WinCovers
  <2>7. \E j \in 1 .. Len(solutions) : TRUE
    BY <2>1, <2>3, <2>4, <2>6 DEF SearchP!FinalWordsComplete
  <2> QED BY <2>1, <2>7
<1>2. Init => FoundSoFar
  BY DEF Init, FoundSoFar
<1> QED BY <1>1, <1>2, SolverInit, SolverNext, FoundSteps, PTL DEF Spec

-----------------------------------------------------------------------------
(***************************************************************************)
(* The two solvers agree (Bench).  The first one: for every game that wins *)
(* a chain with no more words is printed, also if the limit was hit.       *)
(***************************************************************************)
ShortestSoFar == Search!InitSearch \/ SearchP!ShorterAnswered

LEMMA ShortestSteps ==
  ASSUME OneLetterWordsInBox, MinSolutionSize <= 2
  PROVE  SolverInv /\ FoundSoFar /\ ShortestSoFar /\ [Next]_vars => ShortestSoFar'
<1> SUFFICES ASSUME SolverInv, FoundSoFar, ShortestSoFar, [Next]_vars PROVE ShortestSoFar'
  OBVIOUS
<1>1. CASE FilterWords \/ BuildGraph
  <2>1. ~Filter!Filtered \/ ~Builder!Built
    BY <1>1 DEF FilterWords, BuildGraph, Filter!Filtered, Filter!Filter, Filter!SkipEmpty,
      Filter!TakeWord, Filter!NextLetter, Filter!Drop, Filter!Keep, Filter!HashLetter,
      Builder!Built, Builder!Build, Builder!NewEdge, Builder!AddVariant
  <2>2. Search!InitSearch /\ UNCHANGED searchVars
    BY <1>1, <2>1 DEF FilterWords, BuildGraph, SolverInv
  <2> QED BY <2>2 DEF ShortestSoFar, Search!InitSearch, searchVars
<1>2. CASE SearchGraph
  <2>1. Filter!Filtered /\ Builder!Built /\ SearchInv
    BY <1>2, SearchStarted DEF SearchGraph
  <2>2. SearchP!FoundInv /\ SearchP!ShorterAnswered
    <3>1. Search!InitSearch => SearchP!FoundInv /\ SearchP!ShorterAnswered
      BY <2>1, SearchStarts, SearchP!FoundInit, SearchP!ShorterInit, Assumptions
    <3> QED BY <3>1 DEF FoundSoFar, ShortestSoFar
  <2>3. SearchP!ShorterAnswered'
    BY <1>2, <2>1, <2>2, SearchSteps, SearchP!ShorterNext, Assumptions DEF SearchInv
  <2> QED BY <2>3 DEF ShortestSoFar
<1>3. CASE Trace \/ UNCHANGED vars
  <2>1. UNCHANGED <<filterVars, buildVars, searchVars>>
    BY <1>3 DEF Trace, vars
  <2>2. CASE Search!InitSearch
    BY <2>1, <2>2 DEF ShortestSoFar, Search!InitSearch, searchVars
  <2>3. CASE SearchP!FoundInv /\ SearchP!ShorterAnswered /\ ~Search!InitSearch
    <3>1. SearchInv
      BY <2>3 DEF SolverInv
    <3>2. Graph' = Graph
      BY <2>1 DEF Graph, Builder!Searchable, buildVars
    <3>3. UNCHANGED SearchP!vars
      BY <2>1, <3>2 DEF SearchP!vars, searchVars
    <3>4. SearchP!ShorterAnswered'
      BY <2>3, <3>1, <3>3, SearchP!ShorterNext, Assumptions DEF SearchInv
    <3> QED BY <3>4 DEF ShortestSoFar
  <2> QED BY <2>2, <2>3 DEF FoundSoFar, ShortestSoFar
<1> QED BY <1>1, <1>2, <1>3 DEF Next

LEMMA WinPrinted ==
  ASSUME SolverInv, FoundSoFar, ShortestSoFar, OneLetterWordsInBox, Answered, AllDifferent,
         NEW k \in MinSolutionSize .. MaxSearchSize,
         NEW game \in [1 .. k -> { s \in ListedWords : IsPlayable(s) }],
         Wins(game)
  PROVE  \E c \in 1 .. Len(chains) : Len(chains[c]) <= k
<1>1. pc = "done" /\ Len(chains) = Len(solutions) /\ k \in Nat
  BY SolverAssumption DEF Answered
<1>2. /\ Filter!Filtered /\ Builder!Built /\ SearchInv
      /\ SearchP!FoundInv /\ SearchP!ShorterAnswered
  BY <1>1 DEF SolverInv, FoundSoFar, ShortestSoFar, Search!InitSearch
<1>3. SearchP!CoveringChains(Graph, k) # {}
  BY <1>1, <1>2, WinCovers
<1>4. PICK c \in 1 .. Len(solutions) : Len(solutions[c]) <= k + 1
  BY <1>1, <1>2, <1>3, SearchP!ShortestReturned, Assumptions DEF SearchInv
<1>5. c \in 1 .. Len(chains)
  BY <1>1, <1>4
<1>6. PICK n : n = Len(solutions[c]) - 1
  OBVIOUS
<1>7. n \in Nat /\ Len(chains[c]) = n
  BY <1>5, <1>6, ChainFacts
<1>8. solutions[c] \in Seq(SearchP!EdgeRef)
  BY <1>2, <1>4 DEF SearchInv, SearchP!Inv, SearchP!TypeOK
<1>9. Len(solutions[c]) \in Nat
  BY <1>8
<1>10. n <= k
  <2> DEFINE m == Len(solutions[c])
  <2>1. m \in Nat /\ m <= k + 1 /\ n = m - 1
    BY <1>4, <1>6, <1>9
  <2> HIDE DEF m
  <2> QED BY <1>1, <2>1
<1> QED BY <1>5, <1>7, <1>10

\* Each printed chain is a game that wins, with as many words.
LEMMA PrintedWins ==
  ASSUME SolverInv, OneLetterWordsInBox, AllDifferent, NEW c \in 1 .. Len(chains)
  PROVE  /\ Len(chains[c]) \in Nat /\ Len(chains[c]) \in MinSolutionSize .. MaxSearchSize
         /\ \E game \in [1 .. Len(chains[c]) -> { s \in ListedWords : IsPlayable(s) }] : Wins(game)
<1> DEFINE p == solutions[c]
           n == Len(p) - 1
           edge(k) == nodes[p[k + 1].node][p[k + 1].pos]
           chain == chains[c]
<1>1. /\ n \in Nat /\ n \in MinSolutionSize .. MaxSearchSize /\ Len(chain) = n
      /\ \A k \in 1 .. n :
           /\ Len(edge(k).variants) \in Nat \ {0}
           /\ \A v \in 1 .. Len(edge(k).variants) :
                Behind(edge(k).variants[v], p[k + 1].node, edge(k))
           /\ chain[k] = [v \in 1 .. Len(edge(k).variants) |-> words[edge(k).variants[v]]]
  BY ChainFacts
<1> HIDE DEF n, edge, chain
<1>2. ASSUME NEW k \in 1 .. n PROVE Len(chain[k]) \in Nat \ {0} /\ 1 \in 1 .. Len(words)
  <2> DEFINE m == Len(edge(k).variants)
             V == edge(k).variants
  <2>1. m \in Nat \ {0} /\ chain[k] = [v \in 1 .. m |-> words[V[v]]]
    BY <1>1
  <2>2. \A v \in 1 .. m : V[v] \in 1 .. Len(words)
    <3>1. \A q, x, e : Behind(q, x, e) => q \in 1 .. Len(words)
      BY DEF Behind
    <3>2. \A v \in 1 .. m : Behind(V[v], p[k + 1].node, edge(k))
      BY <1>1
    <3> HIDE DEF m, V
    <3> QED BY <3>1, <3>2
  <2> HIDE DEF m, V
  <2>3. V[1] \in 1 .. Len(words)
    <3>1. 1 \in 1 .. m
      BY <2>1
    <3> QED BY <2>2, <3>1
  <2>4. Len(words) \in Nat
    BY DEF SolverInv, FilterP!Inv, FilterP!TypeOK
  <2>5. Len(chain[k]) = m
    BY <2>1
  <2>6. 1 \in 1 .. Len(words)
    BY <2>3, <2>4
  <2> QED BY <2>1, <2>5, <2>6
<1> DEFINE f == [k \in 1 .. n |-> 1]
           game == [k \in 1 .. n |-> Letters(chain[k][f[k]])]
<1>3. f \in [1 .. n -> 1 .. Len(words)] /\ \A k \in 1 .. n : f[k] <= Len(chain[k])
  BY <1>2
<1> HIDE DEF f
<1>4. game \in GamesOf(chains[c])
  BY <1>1, <1>3 DEF GamesOf, chain
<1>5. Wins(game)
  BY <1>4, GameWins
<1>6. Len(game) = n /\ n \in Nat
  BY <1>1
<1>7. game \in [1 .. n -> { s \in ListedWords : IsPlayable(s) }]
  <2>1. \A k \in 1 .. n : game[k] \in ListedWords /\ IsPlayable(game[k])
    BY <1>5, <1>6 DEF Wins
  <2> QED BY <2>1
<1> HIDE DEF game
<1> QED BY <1>1, <1>5, <1>7 DEF chain

-----------------------------------------------------------------------------
(***************************************************************************)
(* The second one: what it reads of the text and of the box.               *)
(***************************************************************************)
LEMMA FirstIs ==
  ASSUME NEW S, S \subseteq Nat, S # {}
  PROVE  Gpt!First(S) \in S /\ \A l \in S : Gpt!First(S) <= l
<1>1. PICK x \in S : \A y \in S : x <= y
  BY BuilderP!LowestExists, Assumptions
<1> QED BY <1>1 DEF Gpt!First

\* Both read the same words.
LEMMA GptWords ==
  ASSUME input \in Inputs
  PROVE  /\ \A k \in Gpt!WordStarts(input.csv) :
              /\ Gpt!WordAt(input.csv, k) \in ListedWords
              /\ Gpt!WordAt(input.csv, k)[1] = input.csv[k]
         /\ \A s \in ListedWords :
              \E k \in Gpt!WordStarts(input.csv) : Gpt!WordAt(input.csv, k) = s
<1> DEFINE N == Len(input.csv)
           csv == input.csv
           Ends(k) == { e \in k .. N : e = N \/ csv[e + 1] = Separator }
           End(k) == Gpt!First(Ends(k))
<1>1. N \in Nat /\ csv \in Seq(Letter \cup {Separator})
  BY InputFacts
<1>2. /\ \A k : Gpt!WordAt(csv, k) = SubSeq(csv, k, End(k))
      /\ Gpt!WordStarts(csv) =
           { k \in 1 .. N : csv[k] # Separator /\ (k = 1 \/ csv[k - 1] = Separator) }
  BY DEF Gpt!WordAt, Gpt!WordStarts
<1>3. ListedWords =
        { Letters(v) : v \in { u \in [begin : 0 .. N, size : 1 .. N] :
                                 Filter!IsWord(csv, u.begin, u.size) } }
  BY DEF ListedWords
<1>4. \A v : Letters(v) = [j \in 1 .. v.size |-> csv[v.begin + j]]
  BY DEF Letters
<1> HIDE DEF N, csv
<1>5. ASSUME NEW k \in 1 .. N, NEW e \in k .. N
      PROVE  SubSeq(csv, k, e) = Letters([begin |-> k - 1, size |-> e - k + 1])
  <2>1. SubSeq(csv, k, e) = [j \in 1 .. e - k + 1 |-> csv[k + j - 1]]
    BY <1>1, <1>5
  <2>2. \A j \in 1 .. e - k + 1 : k + j - 1 = (k - 1) + j
    BY <1>1
  <2> QED BY <1>4, <2>1, <2>2
<1>6. ASSUME NEW k \in Gpt!WordStarts(csv)
      PROVE  /\ Gpt!WordAt(csv, k) \in ListedWords
             /\ Gpt!WordAt(csv, k)[1] = csv[k]
  <2>1. k \in 1 .. N /\ csv[k] # Separator /\ (k = 1 \/ csv[k - 1] = Separator)
    BY <1>2
  <2>2. Ends(k) \subseteq Nat /\ N \in Ends(k)
    BY <1>1, <2>1
  <2>3. End(k) \in Ends(k) /\ \A l \in Ends(k) : End(k) <= l
    BY <2>2, FirstIs
  <2>4. PICK e \in k .. N :
          /\ e = End(k) /\ (e = N \/ csv[e + 1] = Separator)
          /\ \A l \in k .. e - 1 : csv[l + 1] # Separator
    <3>1. End(k) \in k .. N /\ (End(k) = N \/ csv[End(k) + 1] = Separator)
      BY <2>3
    <3>2. \A l \in k .. End(k) - 1 : l \in k .. N /\ ~(End(k) <= l)
      BY <1>1, <2>1, <3>1
    <3>3. \A l \in k .. End(k) - 1 : csv[l + 1] # Separator
      BY <2>3, <3>2
    <3> HIDE DEF End
    <3> QED BY <3>1, <3>3
  <2> DEFINE b == k - 1
             n == e - k + 1
  <2>5. b \in 0 .. N /\ n \in 1 .. N /\ b + n = e /\ b + 1 = k
    BY <1>1, <2>1
  <2>6. \A j \in b + 1 .. b + n : csv[j] # Separator
    <3>1. ASSUME NEW j \in k + 1 .. e PROVE csv[j] # Separator
      <4>1. j - 1 \in k .. e - 1 /\ (j - 1) + 1 = j
        BY <2>1
      <4> QED BY <2>4, <4>1
    <3>2. \A j \in b + 1 .. b + n : j = k \/ j \in k + 1 .. e
      BY <2>1, <2>5
    <3> QED BY <2>1, <3>1, <3>2
  <2>7. Filter!IsWord(csv, b, n)
    <3>1. b = 0 \/ csv[b] = Separator
      BY <2>1
    <3>2. n > 0 /\ b + n <= Len(csv) /\ (b + n = Len(csv) \/ csv[b + n + 1] = Separator)
      <4>1. n \in Nat /\ n > 0 /\ e <= N /\ b + n = e
        BY <1>1, <2>1, <2>5
      <4> HIDE DEF b, n
      <4>2. b + n <= N /\ (b + n = N \/ csv[b + n + 1] = Separator)
        BY <2>4, <4>1
      <4> QED BY <4>1, <4>2 DEF N, csv
    <3> HIDE DEF b, n
    <3> QED BY <2>6, <3>1, <3>2 DEF Filter!IsWord, csv
  <2>8. Gpt!WordAt(csv, k) = Letters([begin |-> b, size |-> n])
    BY <1>2, <1>5, <2>1, <2>4
  <2> DEFINE u == [begin |-> b, size |-> n]
  <2>9. u \in [begin : 0 .. N, size : 1 .. N] /\ u.begin = b /\ u.size = n
    BY <2>5
  <2>10. Letters(u)[1] = csv[k]
    <3>1. Letters(u) = [j \in 1 .. n |-> csv[b + j]]
      BY <1>4, <2>9
    <3>2. 1 \in 1 .. n
      BY <2>5
    <3> QED BY <2>5, <3>1, <3>2
  <2>11. Letters(u) \in ListedWords
    <3> HIDE DEF u, b, n
    <3> QED BY <1>3, <2>7, <2>9
  <2> QED BY <2>8, <2>10, <2>11
<1>7. ASSUME NEW s \in ListedWords
      PROVE  \E k \in Gpt!WordStarts(csv) : Gpt!WordAt(csv, k) = s
  <2>1. PICK v \in [begin : 0 .. N, size : 1 .. N] :
          s = Letters(v) /\ Filter!IsWord(csv, v.begin, v.size)
    BY <1>3
  <2>2. PICK b \in 0 .. N, n \in 1 .. N : v = [begin |-> b, size |-> n]
    BY <2>1
  <2>3. /\ b + n <= N
        /\ b = 0 \/ csv[b] = Separator
        /\ b + n = N \/ csv[b + n + 1] = Separator
        /\ \A j \in b + 1 .. b + n : csv[j] # Separator
    BY <2>1, <2>2 DEF Filter!IsWord, N, csv
  <2> DEFINE k == b + 1
             e == b + n
  <2>4. k \in 1 .. N /\ e \in k .. N /\ k - 1 = b /\ e - k + 1 = n
    BY <1>1, <2>3
  <2>5. k \in Gpt!WordStarts(csv)
    <3>1. csv[k] # Separator
      BY <2>3, <2>4
    <3>2. k = 1 \/ csv[k - 1] = Separator
      BY <2>3, <2>4
    <3> HIDE DEF k
    <3> QED BY <1>2, <2>4, <3>1, <3>2
  <2>6. e \in Ends(k)
    BY <2>3, <2>4
  <2>7. ASSUME NEW l \in Ends(k), l < e PROVE FALSE
    <3>1. l \in k .. N /\ l + 1 \in b + 1 .. b + n /\ l # N
      BY <1>1, <2>4, <2>7
    <3> QED BY <2>3, <2>7, <3>1
  <2>8. End(k) = e
    <3>1. Ends(k) \subseteq Nat
      BY <1>1, <2>4
    <3>2. End(k) \in Ends(k) /\ \A l \in Ends(k) : End(k) <= l
      BY <2>6, <3>1, FirstIs
    <3>3. End(k) <= e /\ ~(End(k) < e) /\ End(k) \in Nat /\ e \in Nat
      BY <2>4, <2>6, <2>7, <3>1, <3>2
    <3> HIDE DEF End, e
    <3> QED BY <3>3
  <2>9. Gpt!WordAt(csv, k) = Letters([begin |-> k - 1, size |-> e - k + 1])
    BY <1>2, <1>5, <2>4, <2>8
  <2> QED BY <2>1, <2>2, <2>4, <2>5, <2>9
<1> QED BY <1>6, <1>7 DEF csv

\* The words the second solver keeps: those of three letters and more that
\* can be played.
LongPlayables == { s \in ListedWords : IsPlayable(s) /\ Len(s) >= 3 }

LEMMA GptSides ==
  ASSUME input \in Inputs, AllDifferent
  PROVE  /\ Gpt!LettersIn(input.characters) = BoxLetters
         /\ DOMAIN Gpt!CharToSide(input.characters) = BoxLetters
         /\ \A a, b \in BoxLetters :
              Gpt!CharToSide(input.characters)[a] = Gpt!CharToSide(input.characters)[b]
                <=> Beside(a, b)
<1> DEFINE box == input.characters
           Places(c) == { k \in DOMAIN box : box[k] = c }
           Last(c) == CHOOSE k \in Places(c) : \A l \in Places(c) : l <= k
<1>1. box \in [1 .. BoxChars -> Letter] /\ DOMAIN box = 1 .. BoxChars
  BY InputFacts
<1>2. Gpt!LettersIn(box) = BoxLetters
  BY <1>1 DEF Gpt!LettersIn, BoxLetters
<1>3. Gpt!CharToSide(box) = [c \in BoxLetters |-> (Last(c) - 1) \div CharsPerSide]
  BY <1>2 DEF Gpt!CharToSide
<1>4. ASSUME NEW k \in 1 .. BoxChars PROVE Last(box[k]) = k
  <2>1. Places(box[k]) = {k}
    BY <1>1 DEF AllDifferent
  <2>2. k <= k
    OBVIOUS
  <2> HIDE DEF Places
  <2>3. \A l \in Places(box[k]) : l = k
    BY <2>1
  <2>4. k \in Places(box[k]) /\ \A l \in Places(box[k]) : l <= k
    BY <2>1, <2>2
  <2> QED BY <2>3, <2>4
<1>5. \A m \in Node : m + 1 \in 1 .. BoxChars /\ (m + 1) - 1 = m
  BY BoxCharsAssumption DEF Node
<1>6. \A a \in BoxLetters : \E m \in Node : a = box[m + 1] /\ Last(a) - 1 = m
  <2> SUFFICES ASSUME NEW a \in BoxLetters PROVE \E m \in Node : a = box[m + 1] /\ Last(a) - 1 = m
    OBVIOUS
  <2>1. PICK k \in 1 .. BoxChars : a = box[k]
    BY DEF BoxLetters
  <2>2. k - 1 \in Node /\ (k - 1) + 1 = k
    BY InputFacts
  <2>3. Last(a) = k
    BY <1>4, <2>1
  <2> HIDE DEF Last, box
  <2> QED BY <2>1, <2>2, <2>3
<1> HIDE DEF Last
<1>7. ASSUME NEW a \in BoxLetters, NEW b \in BoxLetters
      PROVE  Gpt!CharToSide(box)[a] = Gpt!CharToSide(box)[b] <=> Beside(a, b)
  <2>1. PICK m \in Node : a = box[m + 1] /\ Last(a) - 1 = m
    BY <1>6
  <2>2. PICK n \in Node : b = box[n + 1] /\ Last(b) - 1 = n
    BY <1>6
  <2>3. /\ Gpt!CharToSide(box)[a] = m \div CharsPerSide
        /\ Gpt!CharToSide(box)[b] = n \div CharsPerSide
    BY <1>3, <2>1, <2>2
  <2>4. ASSUME Beside(a, b) PROVE m \div CharsPerSide = n \div CharsPerSide
    <3>1. PICK k \in Node, l \in Node :
            /\ k \div CharsPerSide = l \div CharsPerSide
            /\ box[k + 1] = a /\ box[l + 1] = b
      BY <2>4 DEF Beside
    <3>2. Last(a) = k + 1 /\ Last(b) = l + 1
      BY <1>4, <1>5, <3>1
    <3>3. m = k /\ n = l
      BY <1>5, <2>1, <2>2, <3>2
    <3> QED BY <3>1, <3>3
  <2>5. ASSUME m \div CharsPerSide = n \div CharsPerSide PROVE Beside(a, b)
    BY <2>1, <2>2, <2>5 DEF Beside
  <2> QED BY <2>3, <2>4, <2>5
<1> QED BY <1>2, <1>3, <1>7

LEMMA GptValid ==
  ASSUME input \in Inputs, AllDifferent, NEW s \in ListedWords
  PROVE  Gpt!IsValid(input.characters, s) <=> s \in LongPlayables
<1>1. Len(s) \in Nat
  BY InputFacts DEF ListedWords, Letters
<1>2. \A k \in 1 .. Len(s) - 1 : k \in 1 .. Len(s) /\ k + 1 \in 1 .. Len(s)
  BY <1>1
<1>3. (\A k \in 1 .. Len(s) : s[k] \in BoxLetters) =>
        \A k \in 1 .. Len(s) - 1 :
          Gpt!CharToSide(input.characters)[s[k]] # Gpt!CharToSide(input.characters)[s[k + 1]]
            <=> ~Beside(s[k], s[k + 1])
  BY <1>2, GptSides
<1> QED BY <1>3, GptSides DEF Gpt!IsValid, LongPlayables, IsPlayable

-----------------------------------------------------------------------------
(***************************************************************************)
(* Its search: n words that begin with a letter, follow each other and     *)
(* bring a mask to all the letters of the box.                             *)
(***************************************************************************)
Closes(p, n, char, mask) ==
  /\ p \in [1 .. n -> LongPlayables]
  /\ n > 0 => p[1][1] = char
  /\ \A k \in 1 .. n - 1 : LastOf(p[k]) = p[k + 1][1]
  /\ mask \cup UNION { LettersOf(p[k]) : k \in 1 .. n } = BoxLetters

\* What a call of dfs returns with so many words left: such words, if any.
Exact(found, left, char, mask) ==
  /\ \A p \in found : \E n \in 0 .. left : Closes(p, n, char, mask)
  /\ \A n \in 0 .. left : \A p : Closes(p, n, char, mask) => found # {}

LEMMA LongFacts ==
  ASSUME input \in Inputs, NEW s \in LongPlayables
  PROVE  /\ s \in ListedWords /\ Len(s) \in Nat \ {0}
         /\ s[1] \in Letter /\ s[1] \in BoxLetters /\ LastOf(s) \in Letter
         /\ LettersOf(s) \subseteq BoxLetters /\ LettersOf(s) \subseteq Letter
         /\ Gpt!LettersIn(s) = LettersOf(s)
<1>1. s \in ListedWords /\ IsPlayable(s)
  BY DEF LongPlayables
<1>2. /\ Len(s) \in Nat \ {0}
      /\ \A l \in 1 .. Len(s) : s[l] \in BoxLetters /\ s[l] \in Letter
  BY <1>1, PlayableFacts
<1>3. 1 \in 1 .. Len(s) /\ Len(s) \in 1 .. Len(s)
  BY <1>2
<1>4. DOMAIN s = 1 .. Len(s)
  <2>1. PICK v : s = Letters(v) /\ v.size \in Nat
    BY <1>1, InputFacts DEF ListedWords
  <2> QED BY <2>1 DEF Letters
<1> QED BY <1>1, <1>2, <1>3, <1>4 DEF LastOf, LettersOf, Gpt!LettersIn

LEMMA ClosesMore ==
  ASSUME input \in Inputs, NEW w0 \in LongPlayables, NEW n \in Nat, NEW mask, NEW rest,
         Closes(rest, n, LastOf(w0), mask \cup LettersOf(w0))
  PROVE  Closes(<<w0>> \o rest, n + 1, w0[1], mask)
<1> DEFINE p == <<w0>> \o rest
<1>1. /\ rest \in [1 .. n -> LongPlayables]
      /\ n > 0 => rest[1][1] = LastOf(w0)
      /\ \A k \in 1 .. n - 1 : LastOf(rest[k]) = rest[k + 1][1]
      /\ (mask \cup LettersOf(w0)) \cup UNION { LettersOf(rest[k]) : k \in 1 .. n } = BoxLetters
  BY DEF Closes
<1>2. /\ p \in [1 .. n + 1 -> LongPlayables] /\ p[1] = w0
      /\ \A k \in 1 .. n : p[k + 1] = rest[k]
  <2>1. rest \in Seq(LongPlayables) /\ Len(rest) = n /\ <<w0>> \in Seq(LongPlayables)
    BY <1>1
  <2>2. p \in Seq(LongPlayables) /\ Len(p) = n + 1
    BY <2>1
  <2>3. p[1] = w0 /\ \A k \in 1 .. n : p[k + 1] = rest[k]
    BY <2>1
  <2> HIDE DEF p
  <2> QED BY <2>2, <2>3
<1> HIDE DEF p
<1>3. \A k \in 1 .. n + 1 : k = 1 \/ (k - 1 \in 1 .. n /\ (k - 1) + 1 = k)
  OBVIOUS
<1>4. ASSUME NEW k \in 1 .. (n + 1) - 1 PROVE LastOf(p[k]) = p[k + 1][1]
  <2>1. CASE k = 1
    <3>1. 1 \in 1 .. n /\ n > 0
      BY <2>1
    <3> QED BY <1>1, <1>2, <2>1, <3>1
  <2>2. CASE k # 1
    <3>1. k - 1 \in 1 .. n - 1 /\ k - 1 \in 1 .. n /\ k \in 1 .. n /\ (k - 1) + 1 = k
      BY <2>2
    <3>2. p[k] = rest[k - 1] /\ p[k + 1] = rest[k]
      BY <1>2, <3>1
    <3>3. LastOf(rest[k - 1]) = rest[k][1]
      BY <1>1, <3>1
    <3> QED BY <3>2, <3>3
  <2> QED BY <2>1, <2>2
<1>5. UNION { LettersOf(p[k]) : k \in 1 .. n + 1 }
        = LettersOf(w0) \cup UNION { LettersOf(rest[k]) : k \in 1 .. n }
  <2>1. \A k \in 1 .. n : k + 1 \in 1 .. n + 1
    OBVIOUS
  <2>2. 1 \in 1 .. n + 1
    OBVIOUS
  <2>3. ASSUME NEW k \in 1 .. n + 1, NEW a \in LettersOf(p[k])
        PROVE  a \in LettersOf(w0) \cup UNION { LettersOf(rest[j]) : j \in 1 .. n }
    BY <1>2, <1>3
  <2>4. ASSUME NEW a \in LettersOf(w0) \cup UNION { LettersOf(rest[j]) : j \in 1 .. n }
        PROVE  \E k \in 1 .. n + 1 : a \in LettersOf(p[k])
    BY <1>2, <2>1, <2>2
  <2> QED BY <2>3, <2>4
<1>6. mask \cup UNION { LettersOf(p[k]) : k \in 1 .. n + 1 } = BoxLetters
  BY <1>1, <1>5
<1> QED BY <1>2, <1>4, <1>6 DEF Closes, p

LEMMA ClosesLess ==
  ASSUME NEW n \in Nat, NEW char, NEW mask, NEW p, Closes(p, n + 1, char, mask)
  PROVE  /\ p[1] \in LongPlayables /\ p[1][1] = char
         /\ \E rest : Closes(rest, n, LastOf(p[1]), mask \cup LettersOf(p[1]))
<1> DEFINE rest == [k \in 1 .. n |-> p[k + 1]]
<1>1. /\ p \in [1 .. n + 1 -> LongPlayables]
      /\ p[1][1] = char
      /\ \A k \in 1 .. (n + 1) - 1 : LastOf(p[k]) = p[k + 1][1]
      /\ mask \cup UNION { LettersOf(p[k]) : k \in 1 .. n + 1 } = BoxLetters
  BY DEF Closes
<1>2. 1 \in 1 .. n + 1 /\ \A k \in 1 .. n : k + 1 \in 1 .. n + 1
  OBVIOUS
<1>3. rest \in [1 .. n -> LongPlayables] /\ \A k \in 1 .. n : rest[k] = p[k + 1]
  BY <1>1, <1>2
<1> HIDE DEF rest
<1>4. n > 0 => rest[1][1] = LastOf(p[1])
  <2> SUFFICES ASSUME n > 0 PROVE rest[1][1] = LastOf(p[1])
    OBVIOUS
  <2>1. 1 \in 1 .. n /\ 1 \in 1 .. (n + 1) - 1 /\ 1 + 1 = 2
    OBVIOUS
  <2> QED BY <1>1, <1>3, <2>1
<1>5. ASSUME NEW k \in 1 .. n - 1 PROVE LastOf(rest[k]) = rest[k + 1][1]
  <2>1. k \in 1 .. n /\ k + 1 \in 1 .. n /\ k + 1 \in 1 .. (n + 1) - 1
    OBVIOUS
  <2>2. rest[k] = p[k + 1] /\ rest[k + 1] = p[(k + 1) + 1]
    BY <1>3, <2>1
  <2>3. LastOf(p[k + 1]) = p[(k + 1) + 1][1]
    BY <1>1, <2>1
  <2> QED BY <2>2, <2>3
<1>6. (mask \cup LettersOf(p[1])) \cup UNION { LettersOf(rest[k]) : k \in 1 .. n } = BoxLetters
  <2>1. \A k \in 1 .. n + 1 : k = 1 \/ (k - 1 \in 1 .. n /\ (k - 1) + 1 = k)
    OBVIOUS
  <2>2. ASSUME NEW k \in 1 .. n + 1, NEW a \in LettersOf(p[k])
        PROVE  a \in LettersOf(p[1]) \cup UNION { LettersOf(rest[j]) : j \in 1 .. n }
    BY <1>3, <2>1
  <2>3. ASSUME NEW a \in LettersOf(p[1]) \cup UNION { LettersOf(rest[j]) : j \in 1 .. n }
        PROVE  \E k \in 1 .. n + 1 : a \in LettersOf(p[k])
    BY <1>2, <1>3
  <2>4. UNION { LettersOf(p[k]) : k \in 1 .. n + 1 }
          = LettersOf(p[1]) \cup UNION { LettersOf(rest[k]) : k \in 1 .. n }
    BY <2>2, <2>3
  <2> QED BY <1>1, <2>4
<1>7. Closes(rest, n, LastOf(p[1]), mask \cup LettersOf(p[1]))
  BY <1>3, <1>4, <1>5, <1>6 DEF Closes
<1>8. p[1] \in LongPlayables
  BY <1>1, <1>2
<1> QED BY <1>1, <1>7, <1>8

LEMMA ClosesNone ==
  /\ \A char, mask : mask = BoxLetters => Closes(<<>>, 0, char, mask)
  /\ \A p, char, mask : Closes(p, 0, char, mask) => mask = BoxLetters
<1>1. ~(0 > 0) /\ 1 .. 0 = {} /\ 1 .. 0 - 1 = {}
  OBVIOUS
<1>2. \A p : UNION { LettersOf(p[k]) : k \in 1 .. 0 } = {}
  BY <1>1
<1>3. ASSUME NEW p, NEW char, NEW mask
      PROVE  Closes(p, 0, char, mask)
               <=> p \in [1 .. 0 -> LongPlayables] /\ mask = BoxLetters
  BY <1>1, <1>2 DEF Closes
<1> DEFINE none == <<>>
<1>4. none \in [1 .. 0 -> LongPlayables]
  OBVIOUS
<1> HIDE DEF none
<1>5. \A char, mask : mask = BoxLetters => Closes(none, 0, char, mask)
  BY <1>3, <1>4
<1>6. \A p, char, mask : Closes(p, 0, char, mask) => mask = BoxLetters
  BY <1>3
<1> QED BY <1>5, <1>6 DEF none

\* One call is exact if the calls it makes are.
LEMMA DfsExact ==
  ASSUME input \in Inputs, AllDifferent,
         NEW left \in Nat, NEW deeper, NEW char \in Letter, NEW mask \in SUBSET Letter,
         left > 0 => \A c \in Letter : \A m \in SUBSET Letter : Exact(deeper[c][m], left - 1, c, m)
  PROVE  Exact(Gpt!Dfs(input.characters, input.csv, left, deeper, char, mask), left, char, mask)
<1> DEFINE box == input.characters
           csv == input.csv
           word(k) == Gpt!WordAt(csv, k)
           next0(k) == deeper[word(k)[Len(word(k))]][mask \cup Gpt!LettersIn(word(k))]
           ways(k) == { <<word(k)>> \o rest : rest \in next0(k) }
           good == { k \in Gpt!ValidWords(box, csv, char) : ways(k) # {} }
           found == Gpt!Dfs(box, csv, left, deeper, char, mask)
<1>1. found = IF mask = BoxLetters THEN { <<>> }
              ELSE IF left = 0 \/ good = {} THEN {}
              ELSE ways(Gpt!First(good))
  <2>1. found = IF mask = Gpt!LettersIn(box) THEN { <<>> }
                ELSE IF left = 0 \/ good = {} THEN {}
                ELSE ways(Gpt!First(good))
    BY DEF Gpt!Dfs
  <2>2. Gpt!LettersIn(box) = BoxLetters
    BY GptSides
  <2> HIDE DEF found, good, ways, box
  <2> QED BY <2>1, <2>2
<1>2. ASSUME NEW k \in Gpt!ValidWords(box, csv, char)
      PROVE  /\ k \in Nat /\ word(k) \in LongPlayables /\ word(k)[1] = char
             /\ next0(k) = deeper[LastOf(word(k))][mask \cup LettersOf(word(k))]
             /\ LastOf(word(k)) \in Letter /\ mask \cup LettersOf(word(k)) \in SUBSET Letter
  <2>1. /\ k \in Gpt!WordStarts(csv) /\ Gpt!IsValid(box, word(k)) /\ csv[k] = char
    BY DEF Gpt!ValidWords
  <2>2. k \in Nat
    BY <2>1 DEF Gpt!WordStarts
  <2>3. word(k) \in LongPlayables /\ word(k)[1] = char
    BY <2>1, GptWords, GptValid
  <2>4. next0(k) = deeper[LastOf(word(k))][mask \cup LettersOf(word(k))]
    BY <2>3, LongFacts DEF LastOf
  <2> HIDE DEF next0, word
  <2> QED BY <2>2, <2>3, <2>4, LongFacts
<1>3. ASSUME NEW w0 \in LongPlayables, w0[1] = char
      PROVE  \E k \in Gpt!ValidWords(box, csv, char) : word(k) = w0
  <2>1. w0 \in ListedWords
    BY DEF LongPlayables
  <2>2. PICK k \in Gpt!WordStarts(csv) : word(k) = w0
    BY <2>1, GptWords
  <2>3. csv[k] = char
    BY <1>3, <2>2, GptWords
  <2>4. Gpt!IsValid(box, word(k))
    BY <2>1, <2>2, GptValid
  <2> QED BY <2>2, <2>3, <2>4 DEF Gpt!ValidWords
<1> HIDE DEF box, csv, word, next0, found
<1>4. CASE mask = BoxLetters
  <2>1. found = { <<>> }
    BY <1>1, <1>4
  <2>2. 0 \in 0 .. left /\ Closes(<<>>, 0, char, mask)
    BY <1>4, ClosesNone
  <2> QED BY <2>1, <2>2 DEF Exact, found, box, csv
<1>5. CASE mask # BoxLetters /\ left = 0
  <2>1. found = {} /\ \A n \in 0 .. left : n = 0
    BY <1>1, <1>5
  <2> QED BY <1>5, <2>1, ClosesNone DEF Exact, found, box, csv
<1>6. CASE mask # BoxLetters /\ left # 0
  <2>1. left > 0 /\ left - 1 \in Nat
    BY <1>6
  <2>2. ASSUME NEW k \in Gpt!ValidWords(box, csv, char)
        PROVE  Exact(next0(k), left - 1, LastOf(word(k)), mask \cup LettersOf(word(k)))
    BY <1>2, <2>1
  <2>3. ASSUME NEW p \in found
        PROVE  \E n \in 0 .. left : Closes(p, n, char, mask)
    <3>1. good # {} /\ found = ways(Gpt!First(good))
      BY <1>1, <1>6, <2>3
    <3>2. good \subseteq Nat /\ good \subseteq Gpt!ValidWords(box, csv, char)
      BY <1>2
    <3>3. PICK k \in Gpt!ValidWords(box, csv, char) : found = ways(k)
      <4> HIDE DEF good, ways
      <4> QED BY <3>1, <3>2, FirstIs
    <3>4. PICK rest \in next0(k) : p = <<word(k)>> \o rest
      BY <2>3, <3>3
    <3>5. PICK n \in 0 .. left - 1 : Closes(rest, n, LastOf(word(k)), mask \cup LettersOf(word(k)))
      BY <2>2, <3>4 DEF Exact
    <3>6. n \in Nat /\ n + 1 \in 0 .. left
      BY <2>1
    <3>7. Closes(p, n + 1, char, mask)
      BY <1>2, <3>4, <3>5, <3>6, ClosesMore
    <3> QED BY <3>6, <3>7
  <2>4. ASSUME NEW n \in 0 .. left, NEW p, Closes(p, n, char, mask)
        PROVE  found # {}
    <3>1. n # 0
      BY <1>6, <2>4, ClosesNone
    <3>2. PICK m \in Nat : m + 1 = n
      <4>1. n - 1 \in Nat /\ (n - 1) + 1 = n
        BY <3>1
      <4> QED BY <4>1
    <3>3. m \in 0 .. left - 1
      BY <3>2
    <3>4. Closes(p, m + 1, char, mask)
      BY <2>4, <3>2
    <3>5. /\ p[1] \in LongPlayables /\ p[1][1] = char
          /\ \E rest : Closes(rest, m, LastOf(p[1]), mask \cup LettersOf(p[1]))
      BY <3>4, ClosesLess
    <3>6. PICK k \in Gpt!ValidWords(box, csv, char) : word(k) = p[1]
      BY <1>3, <3>5
    <3>7. next0(k) # {}
      BY <2>2, <3>3, <3>5, <3>6 DEF Exact
    <3>8. ways(k) # {}
      BY <3>7
    <3>9. k \in good
      BY <3>8
    <3>10. good \subseteq Nat
      BY <1>2
    <3>11. Gpt!First(good) \in good
      <4> HIDE DEF good
      <4> QED BY <3>9, <3>10, FirstIs
    <3>12. ways(Gpt!First(good)) # {}
      BY <3>11
    <3> QED BY <1>1, <1>6, <3>9, <3>12
  <2> QED BY <2>3, <2>4 DEF Exact, found, box, csv
<1> QED BY <1>4, <1>5, <1>6

\* The recursion is well defined, down from the number of words left.
LEMMA GptUnfolds ==
  ASSUME NEW box, NEW csv
  PROVE  \A left \in 0 .. 3 : \A char \in Letter : \A mask \in SUBSET Letter :
           Gpt!GptSearch(box, csv)[left][char][mask]
             = Gpt!Dfs(box, csv, left, Gpt!GptSearch(box, csv)[left - 1], char, mask)
<1> DEFINE Level(left, deeper) ==
             [char \in Letter |->
                [mask \in SUBSET Letter |-> Gpt!Dfs(box, csv, left, deeper, char, mask)]]
           IsSearch(w0) == w0 = [left \in 0 .. 3 |-> Level(left, w0[left - 1])]
           search == CHOOSE w0 : IsSearch(w0)
           level0 == Level(0, <<>>)
           level1 == Level(1, level0)
           level2 == Level(2, level1)
           level3 == Level(3, level2)
           levels == [left \in 0 .. 3 |-> IF left = 0 THEN level0 ELSE IF left = 1 THEN level1
                                          ELSE IF left = 2 THEN level2 ELSE level3]
<1>1. \A d, e : Level(0, d) = Level(0, e)
  <2>1. \A d, e, char, mask : Gpt!Dfs(box, csv, 0, d, char, mask) = Gpt!Dfs(box, csv, 0, e, char, mask)
    <3> SUFFICES ASSUME NEW d, NEW char, NEW mask
                 PROVE  Gpt!Dfs(box, csv, 0, d, char, mask)
                          = IF mask = Gpt!LettersIn(box) THEN { <<>> } ELSE {}
      OBVIOUS
    <3> QED BY DEF Gpt!Dfs
  <2> QED BY <2>1
<1>2. \A left \in 0 .. 3 : left = 0 \/ left = 1 \/ left = 2 \/ left = 3
  OBVIOUS
<1> HIDE DEF Level
<1>3. /\ levels[0] = level0 /\ levels[1] = level1 /\ levels[2] = level2 /\ levels[3] = level3
  OBVIOUS
<1>4. levels = [left \in 0 .. 3 |-> levels[left]]
  OBVIOUS
<1> HIDE DEF levels
<1>5. ASSUME NEW left \in 0 .. 3 PROVE levels[left] = Level(left, levels[left - 1])
  <2>1. 1 - 1 = 0 /\ 2 - 1 = 1 /\ 3 - 1 = 2
    OBVIOUS
  <2>2. CASE left = 0
    BY <1>1, <1>3, <2>2
  <2>3. CASE left = 1
    BY <1>3, <2>1, <2>3
  <2>4. CASE left = 2
    BY <1>3, <2>1, <2>4
  <2>5. CASE left = 3
    BY <1>3, <2>1, <2>5
  <2> QED BY <1>2, <2>2, <2>3, <2>4, <2>5
<1>6. IsSearch(levels)
  BY <1>4, <1>5
<1>7. IsSearch(search)
  <2> HIDE DEF IsSearch
  <2> QED BY <1>6
<1>8. Gpt!GptSearch(box, csv) = search
  BY DEF Gpt!GptSearch, Level
<1> HIDE DEF search
<1>9. \A left \in 0 .. 3 : search[left] = Level(left, search[left - 1])
  BY <1>7
<1>10. \A left, deeper : \A char \in Letter : \A mask \in SUBSET Letter :
         Level(left, deeper)[char][mask] = Gpt!Dfs(box, csv, left, deeper, char, mask)
  BY DEF Level
<1> QED BY <1>8, <1>9, <1>10

LEMMA GptSearchExact ==
  ASSUME input \in Inputs, AllDifferent
  PROVE  \A left \in 0 .. 3 : \A char \in Letter : \A mask \in SUBSET Letter :
           Exact(Gpt!GptSearch(input.characters, input.csv)[left][char][mask], left, char, mask)
<1> DEFINE search == Gpt!GptSearch(input.characters, input.csv)
           Done(left) == \A char \in Letter : \A mask \in SUBSET Letter :
                           Exact(search[left][char][mask], left, char, mask)
<1>1. \A left \in 0 .. 3 : \A char \in Letter : \A mask \in SUBSET Letter :
        search[left][char][mask]
          = Gpt!Dfs(input.characters, input.csv, left, search[left - 1], char, mask)
  BY GptUnfolds
<1> HIDE DEF search
<1>2. ASSUME NEW left \in 0 .. 3, left > 0 => Done(left - 1) PROVE Done(left)
  <2> SUFFICES ASSUME NEW char \in Letter, NEW mask \in SUBSET Letter
               PROVE  Exact(search[left][char][mask], left, char, mask)
    OBVIOUS
  <2>1. PICK deeper : deeper = search[left - 1]
    OBVIOUS
  <2>2. left > 0 => \A c \in Letter : \A m \in SUBSET Letter : Exact(deeper[c][m], left - 1, c, m)
    BY <1>2, <2>1
  <2>3. left \in Nat
    OBVIOUS
  <2>4. Exact(Gpt!Dfs(input.characters, input.csv, left, deeper, char, mask), left, char, mask)
    BY <2>2, <2>3, DfsExact
  <2> QED BY <1>1, <2>1, <2>4
<1> HIDE DEF Done
<1>3. 0 \in 0 .. 3 /\ ~(0 > 0)
  OBVIOUS
<1>4. Done(0)
  BY <1>2, <1>3
<1>5. 1 \in 0 .. 3 /\ 1 - 1 = 0 /\ 2 \in 0 .. 3 /\ 2 - 1 = 1 /\ 3 \in 0 .. 3 /\ 3 - 1 = 2
  OBVIOUS
<1>6. Done(1)
  BY <1>2, <1>4, <1>5
<1>7. Done(2)
  BY <1>2, <1>5, <1>6
<1>8. Done(3)
  BY <1>2, <1>5, <1>7
<1>9. \A left \in 0 .. 3 : left = 0 \/ left = 1 \/ left = 2 \/ left = 3
  OBVIOUS
<1>10. \A left \in 0 .. 3 : Done(left)
  BY <1>4, <1>6, <1>7, <1>8, <1>9
<1> QED BY <1>10 DEF Done, search

\* Deepening finds as few words as there can be, and none only if there are
\* none of up to three.
Closed(n, p) == \E char \in BoxLetters : Closes(p, n, char, {})

LEMMA GptRunExact ==
  ASSUME input \in Inputs, AllDifferent
  PROVE  \/ /\ GptSolution = <<>>
            /\ \A n \in 1 .. 3 : \A p : ~Closed(n, p)
         \/ /\ GptSolution # <<>>
            /\ \E n \in 1 .. 3 : /\ Closed(n, GptSolution)
                                 /\ \A m \in 1 .. 3 : m < n => \A p : ~Closed(m, p)
<1> DEFINE box == input.characters
           ways(d, k) == Gpt!GptSearch(box, input.csv)[d][box[k]][{}]
           starts(d) == { k \in DOMAIN box : ways(d, k) # {} }
           depths == { d \in 1 .. 3 : starts(d) # {} }
           first == Gpt!First(depths)
           start == Gpt!First(starts(first))
<1>1. GptSolution = IF depths = {} THEN <<>> ELSE CHOOSE path0 \in ways(first, start) : TRUE
  BY DEF GptSolution, Gpt!GptRun
<1>2. /\ DOMAIN box = 1 .. BoxChars
      /\ \A k \in DOMAIN box : box[k] \in Letter /\ box[k] \in BoxLetters
      /\ \A char \in BoxLetters : \E k \in DOMAIN box : box[k] = char
      /\ BoxLetters # {}
  <2>1. DOMAIN box = 1 .. BoxChars /\ \A k \in DOMAIN box : box[k] \in Letter
    BY InputFacts
  <2>2. BoxLetters = { box[k] : k \in 1 .. BoxChars } /\ 1 \in 1 .. BoxChars
    BY BoxCharsAssumption DEF BoxLetters
  <2> HIDE DEF box
  <2> QED BY <2>1, <2>2
<1>3. \A d \in 1 .. 3 : \A k \in DOMAIN box : Exact(ways(d, k), d, box[k], {})
  <2>1. {} \in SUBSET Letter /\ \A d \in 1 .. 3 : d \in 0 .. 3
    OBVIOUS
  <2> QED BY <1>2, <2>1, GptSearchExact
<1> HIDE DEF box, ways
<1>4. ASSUME NEW d \in 1 .. 3, NEW n \in 1 .. d, NEW p, Closed(n, p)
      PROVE  d \in depths
  <2>1. PICK k \in DOMAIN box : Closes(p, n, box[k], {})
    BY <1>2, <1>4 DEF Closed
  <2>2. n \in 0 .. d
    OBVIOUS
  <2>3. ways(d, k) # {}
    BY <1>3, <2>1, <2>2 DEF Exact
  <2> QED BY <2>3
<1>5. CASE depths = {}
  <2>1. ASSUME NEW n \in 1 .. 3, NEW p, Closed(n, p) PROVE FALSE
    <3>1. n \in 1 .. n
      OBVIOUS
    <3> HIDE DEF depths
    <3> QED BY <1>4, <1>5, <2>1, <3>1
  <2>2. GptSolution = <<>>
    BY <1>1, <1>5
  <2> QED BY <2>1, <2>2
<1>6. CASE depths # {}
  <2>1. depths \subseteq Nat
    OBVIOUS
  <2>2. first \in depths /\ \A d \in depths : first <= d
    <3> HIDE DEF depths
    <3> QED BY <1>6, <2>1, FirstIs
  <2>3. first \in 1 .. 3 /\ starts(first) # {}
    BY <2>2
  <2>4. starts(first) \subseteq Nat /\ starts(first) \subseteq DOMAIN box
    <3> HIDE DEF first
    <3> QED BY <1>2
  <2>5. start \in starts(first)
    <3> HIDE DEF starts, first
    <3> QED BY <2>3, <2>4, FirstIs
  <2>6. start \in DOMAIN box /\ ways(first, start) # {}
    BY <2>5
  <2> HIDE DEF starts, start
  <2>7. GptSolution \in ways(first, start)
    <3>1. GptSolution = CHOOSE path0 \in ways(first, start) : TRUE
      BY <1>1, <1>6
    <3> HIDE DEF first
    <3> QED BY <2>6, <3>1
  <2> HIDE DEF first
  <2>8. PICK n \in 0 .. first : Closes(GptSolution, n, box[start], {})
    BY <1>3, <2>3, <2>6, <2>7 DEF Exact
  <2>9. n # 0
    BY <1>2, <2>8, ClosesNone
  <2>10. n \in 1 .. 3 /\ n <= first
    BY <2>3, <2>8, <2>9
  <2>11. Closed(n, GptSolution)
    BY <1>2, <2>6, <2>8 DEF Closed
  <2>12. GptSolution # <<>>
    <3>1. 1 \in 1 .. n /\ GptSolution \in [1 .. n -> LongPlayables]
      BY <2>8, <2>10 DEF Closes
    <3>2. 1 \in DOMAIN GptSolution
      BY <3>1
    <3> QED BY <3>2
  <2>13. ASSUME NEW m \in 1 .. 3, m < n, NEW p, Closed(m, p) PROVE FALSE
    <3>1. m \in 1 .. m /\ ~(first <= m)
      BY <2>3, <2>10, <2>13
    <3> HIDE DEF depths
    <3> QED BY <1>4, <2>2, <2>13, <3>1
  <2> QED BY <2>10, <2>11, <2>12, <2>13
<1> QED BY <1>5, <1>6

\* Games that win are what it looks for, if no shorter word can be played.
LEMMA ClosedWins ==
  ASSUME input \in Inputs, \A s \in ListedWords : IsPlayable(s) => Len(s) >= 3
  PROVE  /\ \A n \in Nat : \A p : Closed(n, p) =>
              /\ p \in [1 .. n -> { s \in ListedWords : IsPlayable(s) }]
              /\ Len(p) = n /\ Wins(p)
         /\ \A n \in Nat \ {0} : \A p \in [1 .. n -> { s \in ListedWords : IsPlayable(s) }] :
              Wins(p) => Closed(n, p)
<1>1. LongPlayables = { s \in ListedWords : IsPlayable(s) }
  BY DEF LongPlayables
<1>2. ASSUME NEW n \in Nat, NEW p, Closed(n, p)
      PROVE  /\ p \in [1 .. n -> { s \in ListedWords : IsPlayable(s) }]
             /\ Len(p) = n /\ Wins(p)
  <2>1. PICK char \in BoxLetters : Closes(p, n, char, {})
    BY <1>2 DEF Closed
  <2>2. /\ p \in [1 .. n -> LongPlayables]
        /\ \A k \in 1 .. n - 1 : LastOf(p[k]) = p[k + 1][1]
        /\ UNION { LettersOf(p[k]) : k \in 1 .. n } = BoxLetters
    BY <2>1 DEF Closes
  <2>3. Len(p) = n
    BY <2>2
  <2>4. \A k \in 1 .. n : p[k] \in ListedWords /\ IsPlayable(p[k])
    BY <1>1, <2>2
  <2>5. Wins(p)
    BY <2>2, <2>3, <2>4 DEF Wins
  <2> QED BY <1>1, <2>2, <2>3, <2>5
<1>3. ASSUME NEW n \in Nat \ {0}, NEW p \in [1 .. n -> { s \in ListedWords : IsPlayable(s) }],
             Wins(p)
      PROVE  Closed(n, p)
  <2>1. p \in [1 .. n -> LongPlayables] /\ Len(p) = n
    BY <1>1
  <2>2. /\ \A k \in 1 .. n - 1 : LastOf(p[k]) = p[k + 1][1]
        /\ UNION { LettersOf(p[k]) : k \in 1 .. n } = BoxLetters
    BY <1>3, <2>1 DEF Wins
  <2>3. p[1] \in LongPlayables
    <3>1. 1 \in 1 .. n
      OBVIOUS
    <3> QED BY <2>1, <3>1
  <2>4. p[1][1] \in BoxLetters
    BY <2>3, LongFacts
  <2>5. Closes(p, n, p[1][1], {})
    BY <2>1, <2>2 DEF Closes
  <2> QED BY <2>4, <2>5 DEF Closed
<1> QED BY <1>2, <1>3

\* The numbers of words both solvers try as shipped (settings.hpp:15-16,
\* gpt_runner.hpp:168).
SizesOfSecond == MinSolutionSize = 1 /\ MaxSearchSize = 3

\* The second solver is right about the first: in a box of different letters
\* both find the puzzle solvable or neither does, and the least number of
\* words is the same, whenever no word that can be played is below three
\* letters (runner/bench/main.cpp:145-154).
THEOREM SolversAlwaysAgree ==
  ASSUME OneLetterWordsInBox, SizesOfSecond
  PROVE  Spec => []SolversAgree
<1>0. MinSolutionSize <= 2 /\ MinSolutionSize .. MaxSearchSize = 1 .. 3
  BY DEF SizesOfSecond
<1>1. SolverInv /\ FoundSoFar /\ ShortestSoFar => SolversAgree
  <2> SUFFICES ASSUME SolverInv, FoundSoFar, ShortestSoFar, Answered, AllDifferent,
                      \A s \in ListedWords : IsPlayable(s) => Len(s) >= 3
               PROVE  /\ ~Disagree
                      /\ Solvable =>
                           /\ \A c \in DOMAIN chains : Len(chains[c]) >= Len(GptSolution)
                           /\ \E c \in DOMAIN chains : Len(chains[c]) = Len(GptSolution)
    BY DEF SolversAgree
  <2> DEFINE Game(n) == [1 .. n -> { s \in ListedWords : IsPlayable(s) }]
  <2>1. input \in Inputs
    BY DEF SolverInv, FilterP!Inv
  <2>2. /\ \A n \in Nat : \A p : Closed(n, p) => p \in Game(n) /\ Len(p) = n /\ Wins(p)
        /\ \A n \in Nat \ {0} : \A p \in Game(n) : Wins(p) => Closed(n, p)
    BY <2>1, ClosedWins
  <2>3. ASSUME NEW c \in 1 .. Len(chains)
        PROVE  Len(chains[c]) \in 1 .. 3 /\ \E p : Closed(Len(chains[c]), p)
    <3>1. /\ Len(chains[c]) \in 1 .. 3
          /\ \E game \in Game(Len(chains[c])) : Wins(game)
      BY <1>0, PrintedWins
    <3> HIDE DEF Game
    <3>2. PICK n \in 1 .. 3 : n = Len(chains[c]) /\ \E game \in Game(n) : Wins(game)
      BY <3>1
    <3>3. n \in Nat \ {0}
      OBVIOUS
    <3>4. \E p : Closed(n, p)
      BY <2>2, <3>2, <3>3
    <3> QED BY <3>2, <3>4
  <2>4. ASSUME NEW n \in 1 .. 3, NEW p, Closed(n, p)
        PROVE  \E c \in 1 .. Len(chains) : Len(chains[c]) <= n
    <3>1. p \in Game(n) /\ Wins(p)
      BY <2>2, <2>4
    <3>2. n \in MinSolutionSize .. MaxSearchSize
      BY <1>0
    <3> QED BY <3>1, <3>2, WinPrinted
  <2> HIDE DEF Game
  <2>5. /\ DOMAIN chains = 1 .. Len(chains)
        /\ Len(chains) \in Nat
        /\ chains # <<>> <=> \E c \in 1 .. Len(chains) : TRUE
    <3>1. PICK n \in 0 .. Len(solutions) : chains = [c \in 1 .. n |-> TraceSolution(solutions[c])]
      BY DEF SolverInv, Traced
    <3>2. n \in Nat
      OBVIOUS
    <3>3. DOMAIN chains = 1 .. n /\ Len(chains) = n
      BY <3>1, <3>2
    <3>4. chains = <<>> <=> n = 0
      BY <3>1, <3>2
    <3>5. (\E c \in 1 .. n : TRUE) <=> n # 0
      <4>1. n # 0 => 1 \in 1 .. n
        BY <3>2
      <4> QED BY <4>1
    <3> QED BY <3>2, <3>3, <3>4, <3>5
  <2>6. CASE GptSolution = <<>> /\ \A n \in 1 .. 3 : \A p : ~Closed(n, p)
    <3>1. ~ \E c \in 1 .. Len(chains) : TRUE
      BY <2>3, <2>6
    <3>2. chains = <<>>
      BY <2>5, <3>1
    <3> QED BY <2>6, <3>2 DEF Disagree, Solvable
  <2>7. CASE /\ GptSolution # <<>>
             /\ \E n \in 1 .. 3 : /\ Closed(n, GptSolution)
                                  /\ \A m \in 1 .. 3 : m < n => \A p : ~Closed(m, p)
    <3>1. PICK n \in 1 .. 3 : /\ Closed(n, GptSolution)
                              /\ \A m \in 1 .. 3 : m < n => \A p : ~Closed(m, p)
      BY <2>7
    <3>2. Len(GptSolution) = n /\ n \in Nat
      BY <2>2, <3>1
    <3>3. PICK c \in 1 .. Len(chains) : Len(chains[c]) <= n
      BY <2>4, <3>1
    <3>4. ASSUME NEW d \in 1 .. Len(chains) PROVE Len(chains[d]) >= n /\ Len(chains[d]) \in Nat
      <4>1. PICK m \in 1 .. 3 : m = Len(chains[d]) /\ \E p : Closed(m, p)
        BY <2>3
      <4>2. ~(m < n)
        BY <3>1, <4>1
      <4> QED BY <3>2, <4>1, <4>2
    <3>5. Len(chains[c]) = n
      <4>1. PICK m : m = Len(chains[c]) /\ m \in Nat
        BY <3>4
      <4>2. m >= n /\ m <= n
        BY <3>3, <3>4, <4>1
      <4> QED BY <3>2, <4>1, <4>2
    <3>6. chains # <<>>
      BY <2>5
    <3>7. ~Disagree
      BY <2>7, <3>6 DEF Disagree, Solvable
    <3> QED BY <2>5, <3>2, <3>4, <3>5, <3>7
  <2> QED BY <2>1, <2>6, <2>7, GptRunExact
<1>2. Init => FoundSoFar /\ ShortestSoFar
  BY DEF Init, FoundSoFar, ShortestSoFar
<1>3. SolverInv /\ FoundSoFar /\ ShortestSoFar /\ [Next]_vars => FoundSoFar' /\ ShortestSoFar'
  BY <1>0, FoundSteps, ShortestSteps
<1> QED BY <1>1, <1>2, <1>3, SolverInit, SolverNext, PTL DEF Spec

=============================================================================
