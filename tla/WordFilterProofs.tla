-------------------------- MODULE WordFilterProofs --------------------------
(***************************************************************************)
(* Proofs about WordFilter, for boxes, alphabets and word lists of any     *)
(* size: the filter keeps exactly the words that can be played.            *)
(***************************************************************************)
EXTENDS WordFilter, WellFoundedInduction, TLAPS

-----------------------------------------------------------------------------
(***************************************************************************)
(* The words of a list and its word ends.                                  *)
(***************************************************************************)
\* Where the k-th word begins.
BeginOf(in, k) == IF k = 1 THEN 0 ELSE in.wordEnds[k - 1] + 1

LEMMA Ends ==
  ASSUME NEW in \in Inputs
  PROVE  /\ in.csv \in Seq(Letter \cup {Separator}) /\ Len(in.csv) \in Nat
         /\ in.wordEnds \in Seq(Nat) /\ Len(in.wordEnds) \in Nat
         /\ \A k \in 1 .. Len(in.wordEnds) :
              /\ in.wordEnds[k] \in Nat /\ in.wordEnds[k] <= Len(in.csv)
              /\ in.wordEnds[k] # Len(in.csv) => in.csv[in.wordEnds[k] + 1] = Separator
         /\ \A k, l \in 1 .. Len(in.wordEnds) : k < l => in.wordEnds[k] < in.wordEnds[l]
         /\ \A x \in 0 .. Len(in.csv) - 1 : in.csv[x + 1] = Separator =>
              \E k \in 1 .. Len(in.wordEnds) : in.wordEnds[k] = x
<1>1. /\ in.csv \in Seq(Letter \cup {Separator}) /\ in.wordEnds \in Seq(Nat)
      /\ IsWordEnds(in.wordEnds, in.csv)
  BY InputsAssumption
<1>2. Len(in.csv) \in Nat /\ Len(in.wordEnds) \in Nat
  BY <1>1
<1> DEFINE S == SeparatorsIn(in.csv, 0, Len(in.csv)) \cup {Len(in.csv)}
<1>3. Lists(in.wordEnds, S)
  BY <1>1 DEF IsWordEnds
<1>4. \A k \in 1 .. Len(in.wordEnds) : in.wordEnds[k] \in S
  BY <1>3 DEF Lists
<1>5. \A x \in S : /\ x \in Nat /\ x <= Len(in.csv)
                   /\ x # Len(in.csv) => in.csv[x + 1] = Separator
  BY <1>2 DEF SeparatorsIn
<1>6. \A x \in 0 .. Len(in.csv) - 1 : in.csv[x + 1] = Separator => x \in S
  BY <1>2 DEF SeparatorsIn
<1> HIDE DEF S
<1>7. \A x \in S : \E k \in 1 .. Len(in.wordEnds) : in.wordEnds[k] = x
  BY <1>3 DEF Lists
<1> QED BY <1>1, <1>2, <1>3, <1>4, <1>5, <1>6, <1>7 DEF Lists, Increasing

\* Between the begin and the end of the k-th word there is no separator, and
\* it is the only word that begins there.
LEMMA WordAt ==
  ASSUME NEW in \in Inputs, NEW k \in 1 .. Len(in.wordEnds),
         NEW b, b = BeginOf(in, k), NEW e, e = in.wordEnds[k]
  PROVE  /\ b \in Nat /\ e \in Nat /\ b <= e /\ e <= Len(in.csv)
         /\ \A x \in b .. e - 1 : in.csv[x + 1] # Separator
         /\ \A n \in Nat : IsWord(in.csv, b, n) <=> n > 0 /\ n = e - b
         /\ \A c \in b + 1 .. e : \A n \in Nat : ~IsWord(in.csv, c, n)
<1> DEFINE csv == in.csv
           N == Len(in.csv)
           E == in.wordEnds
           m == Len(in.wordEnds)
<1>1. /\ N \in Nat /\ m \in Nat /\ k \in 1 .. m /\ k \in Nat
      /\ \A j \in 1 .. m : E[j] \in Nat /\ E[j] <= N /\ (E[j] # N => csv[E[j] + 1] = Separator)
      /\ \A j, l \in 1 .. m : j < l => E[j] < E[l]
      /\ \A x \in 0 .. N - 1 : csv[x + 1] = Separator => \E j \in 1 .. m : E[j] = x
  BY Ends
<1>2. (k = 1 /\ b = 0) \/ (k # 1 /\ b = E[k - 1] + 1)
  BY DEF BeginOf
<1>3. e = E[k]
  OBVIOUS
<1> HIDE DEF csv, N, E, m
<1>4. k # 1 => k - 1 \in 1 .. m /\ k - 1 < k
  BY <1>1
<1>5. e \in Nat /\ e <= N /\ (e # N => csv[e + 1] = Separator)
  BY <1>1, <1>3
<1>6. k # 1 => E[k - 1] \in Nat /\ E[k - 1] < e /\ E[k - 1] # N /\ csv[E[k - 1] + 1] = Separator
  <2> SUFFICES ASSUME k # 1 PROVE E[k - 1] \in Nat /\ E[k - 1] < e /\ E[k - 1] # N /\ csv[E[k - 1] + 1] = Separator
    OBVIOUS
  <2>1. E[k - 1] \in Nat /\ E[k - 1] < e
    BY <1>1, <1>3, <1>4
  <2>2. E[k - 1] # N
    BY <1>1, <1>5, <2>1
  <2> QED BY <1>1, <1>4, <2>1, <2>2
<1>7. b \in Nat /\ b <= e
  BY <1>2, <1>5, <1>6
<1>8. ASSUME NEW x \in b .. e - 1 PROVE csv[x + 1] # Separator
  <2> SUFFICES ASSUME csv[x + 1] = Separator PROVE FALSE
    OBVIOUS
  <2>1. x \in Nat /\ x \in 0 .. N - 1 /\ b <= x /\ x < e
    BY <1>1, <1>5, <1>7
  <2>2. PICK j \in 1 .. m : E[j] = x
    BY <1>1, <2>1
  <2>3. j < k
    <3> SUFFICES ASSUME ~(j < k) PROVE FALSE
      OBVIOUS
    <3>1. j = k \/ k < j
      BY <1>1
    <3>2. E[k] <= E[j]
      BY <1>1, <3>1
    <3> QED BY <1>3, <1>5, <2>1, <2>2, <3>2
  <2>4. k # 1 /\ (j = k - 1 \/ j < k - 1)
    BY <1>1, <2>3
  <2>5. E[j] <= E[k - 1]
    BY <1>1, <1>4, <2>4
  <2> QED BY <1>2, <1>6, <2>1, <2>2, <2>4, <2>5
<1>9. b = 0 \/ csv[b] = Separator
  BY <1>2, <1>6
<1>10. ASSUME NEW n \in Nat PROVE IsWord(csv, b, n) <=> n > 0 /\ n = e - b
  <2>1. ASSUME n > 0, n = e - b PROVE IsWord(csv, b, n)
    <3>1. b + n = e /\ b + n <= N
      BY <1>5, <1>7, <2>1
    <3>2. ASSUME NEW l \in b + 1 .. b + n PROVE csv[l] # Separator
      <4>1. l - 1 \in b .. e - 1 /\ (l - 1) + 1 = l
        BY <1>5, <1>7, <3>1
      <4> QED BY <1>8, <4>1
    <3> QED BY <1>5, <1>9, <2>1, <3>1, <3>2 DEF IsWord, N, csv
  <2>2. ASSUME IsWord(csv, b, n) PROVE n > 0 /\ n = e - b
    <3>1. /\ n > 0 /\ b + n <= N /\ (b + n = N \/ csv[b + n + 1] = Separator)
          /\ \A l \in b + 1 .. b + n : csv[l] # Separator
      BY <2>2 DEF IsWord, N, csv
    <3>2. ~(e < b + n)
      <4> SUFFICES ASSUME e < b + n PROVE FALSE
        OBVIOUS
      <4>1. e # N /\ e + 1 \in b + 1 .. b + n
        BY <1>1, <1>5, <1>7, <3>1
      <4> QED BY <1>5, <3>1, <4>1
    <3>3. ~(b + n < e)
      <4> SUFFICES ASSUME b + n < e PROVE FALSE
        OBVIOUS
      <4>1. b + n # N /\ b + n \in b .. e - 1
        BY <1>1, <1>5, <1>7, <3>1
      <4> QED BY <1>8, <3>1, <4>1
    <3> QED BY <1>5, <1>7, <3>1, <3>2, <3>3
  <2> QED BY <2>1, <2>2
<1>11. ASSUME NEW c \in b + 1 .. e, NEW n \in Nat PROVE ~IsWord(csv, c, n)
  <2>1. c - 1 \in b .. e - 1 /\ (c - 1) + 1 = c /\ c # 0
    BY <1>5, <1>7
  <2>2. csv[c] # Separator
    BY <1>8, <2>1
  <2> QED BY <2>1, <2>2 DEF IsWord
<1> QED BY <1>5, <1>7, <1>8, <1>10, <1>11 DEF csv, N

-----------------------------------------------------------------------------
(***************************************************************************)
(* Masks.                                                                  *)
(***************************************************************************)
LEMMA LargestExists ==
  ASSUME NEW N \in Nat, NEW S, S \subseteq 0 .. N, S # {}
  PROVE  \E k \in S : \A l \in S : l <= k
<1> DEFINE R == { ss \in Nat \X Nat : ss[1] < ss[2] }
           T == { N - k : k \in S }
<1>1. IsWellFoundedOn(R, Nat)
  BY NatLessThanWellFounded, Zenon DEF OpToRel
<1>2. T \subseteq Nat /\ T # {}
  <2>1. \A k \in S : N - k \in Nat
    OBVIOUS
  <2>2. PICK k \in S : TRUE
    OBVIOUS
  <2>3. N - k \in T
    OBVIOUS
  <2> QED BY <2>1, <2>3
<1>3. PICK t \in T : \A s \in T : ~(<<s, t>> \in R)
  <2> HIDE DEF R, T
  <2> QED BY <1>1, <1>2, WFMin
<1>4. PICK k \in S : t = N - k
  OBVIOUS
<1>5. ASSUME NEW l \in S PROVE l <= k
  <2>1. N - l \in T /\ N - l \in Nat /\ t \in Nat
    BY <1>2
  <2>2. <<N - l, t>> \in Nat \X Nat /\ <<N - l, t>>[1] = N - l /\ <<N - l, t>>[2] = t
    BY <2>1
  <2>3. ~(N - l < t)
    <3> HIDE DEF T
    <3> QED BY <1>3, <2>1, <2>2
  <2> QED BY <1>4, <2>1, <2>3
<1> QED BY <1>5

\* A letter of the box has the index of one of its places, any other letter
\* the invalid one.
LEMMA IndexOf ==
  ASSUME NEW characters, NEW c \in Letter
  PROVE  /\ InBox(characters, c) =>
              CompressionIndex(characters)[c] \in PlacesOf(characters, c)
         /\ ~InBox(characters, c) => CompressionIndex(characters)[c] = InvalidCharFlag
         /\ InBox(characters, c) => /\ CompressionIndex(characters)[c] \in Node
                                    /\ CompressionIndex(characters)[c] < MaskBits
         /\ InBox(characters, c) <=> CompressionIndex(characters)[c] # InvalidCharFlag
<1> DEFINE P == PlacesOf(characters, c)
<1>1. BoxChars - 1 \in Nat /\ P \subseteq 0 .. BoxChars - 1
  BY BoxCharsAssumption DEF PlacesOf, Node
<1>2. CompressionIndex(characters)[c] =
        IF P = {} THEN InvalidCharFlag ELSE CHOOSE k \in P : \A l \in P : l <= k
  BY DEF CompressionIndex
<1> HIDE DEF P
<1>3. P # {} => (CHOOSE k \in P : \A l \in P : l <= k) \in P
  <2> SUFFICES ASSUME P # {} PROVE (CHOOSE k \in P : \A l \in P : l <= k) \in P
    OBVIOUS
  <2>1. \E k \in P : \A l \in P : l <= k
    BY <1>1, LargestExists
  <2> QED BY <2>1
<1>4. \A k \in P : k \in Node /\ k < MaskBits /\ k # InvalidCharFlag
  BY <1>1, BoxCharsAssumption, IndexAssumption DEF Node
<1> QED BY <1>2, <1>3, <1>4 DEF InBox, P

\* Two letters pass the filter iff both are letters of the box and they stand
\* on different sides.
LEMMA MasksDisjoint ==
  ASSUME NEW characters, NEW c \in Letter, NEW d \in Letter
  PROVE  (CharFilterMasks(CompressionIndex(characters))[c]
            \cap CharFilterMasks(CompressionIndex(characters))[d] = {})
         <=> (/\ InBox(characters, c) /\ InBox(characters, d)
              /\ SideOf(characters, c) # SideOf(characters, d))
<1> DEFINE ix == CompressionIndex(characters)
           mask(x) == CharFilterMasks(ix)[x]
<1>1. \A x \in Letter : mask(x) = IF ix[x] = InvalidCharFlag THEN Node ELSE Side(ix[x])
  BY DEF CharFilterMasks
<1>2. 0 \in Node
  BY BoxCharsAssumption DEF Node
<1>3. \A x \in Letter : InBox(characters, x) => /\ ix[x] \in Node /\ mask(x) = Side(ix[x])
  BY <1>1, IndexOf
<1>4. \A x \in Letter : ~InBox(characters, x) => mask(x) = Node
  BY <1>1, IndexOf
<1>5. \A x \in Letter : mask(x) \subseteq Node /\ mask(x) # {}
  <2>1. \A k \in Node : k \in Side(k) /\ Side(k) \subseteq Node
    BY DEF Side
  <2> QED BY <1>2, <1>3, <1>4, <2>1
<1>6. \A k, l \in Node : Side(k) \cap Side(l) = {} <=> k \div CharsPerSide # l \div CharsPerSide
  BY DEF Side
<1> HIDE DEF mask, ix
<1>7. CASE InBox(characters, c) /\ InBox(characters, d)
  <2>1. SideOf(characters, c) = ix[c] \div CharsPerSide /\ SideOf(characters, d) = ix[d] \div CharsPerSide
    BY DEF SideOf, ix
  <2>2. mask(c) = Side(ix[c]) /\ mask(d) = Side(ix[d]) /\ ix[c] \in Node /\ ix[d] \in Node
    BY <1>3, <1>7
  <2>3. mask(c) \cap mask(d) = {} <=> ix[c] \div CharsPerSide # ix[d] \div CharsPerSide
    BY <1>6, <2>2
  <2> QED BY <1>7, <2>1, <2>3 DEF mask, ix
<1>8. CASE ~InBox(characters, c)
  <2>1. mask(c) \cap mask(d) # {}
    BY <1>4, <1>5, <1>8
  <2> QED BY <1>8, <2>1 DEF mask, ix
<1>9. CASE ~InBox(characters, d)
  <2>1. mask(c) \cap mask(d) # {}
    BY <1>4, <1>5, <1>9
  <2> QED BY <1>9, <2>1 DEF mask, ix
<1> QED BY <1>7, <1>8, <1>9

\* The letter at x and the one before it overlap.
OverlapAt(in, x) ==
  LET masks == CharFilterMasks(CompressionIndex(in.characters))
  IN masks[in.csv[x + 1]] \cap masks[in.csv[x]] # {}

\* A word whose neighbouring letters pass can be played.
LEMMA PlayableWord ==
  ASSUME NEW in \in Inputs, NEW b \in Nat, NEW n \in Nat, n > 0, b + n <= Len(in.csv),
         \A x \in b .. b + n - 1 : in.csv[x + 1] # Separator
  PROVE  Playable(in, b, n) <=> \A x \in b + 1 .. b + n - 1 : ~OverlapAt(in, x)
<1> DEFINE ch == in.characters
<1>1. \A x \in b .. b + n - 1 : in.csv[x + 1] \in Letter
  <2>1. in.csv \in Seq(Letter \cup {Separator}) /\ Len(in.csv) \in Nat
    BY Ends
  <2>2. \A y \in 1 .. Len(in.csv) : in.csv[y] \in Letter \cup {Separator}
    BY <2>1
  <2>3. \A x \in b .. b + n - 1 : x + 1 \in 1 .. Len(in.csv)
    BY <2>1
  <2> QED BY <2>2, <2>3
<1>2. \A y \in b + 1 .. b + n : in.csv[y] \in Letter
  <2>1. \A y \in b + 1 .. b + n : y - 1 \in b .. b + n - 1 /\ (y - 1) + 1 = y
    OBVIOUS
  <2> QED BY <1>1, <2>1
<1>3. ASSUME NEW x \in b + 1 .. b + n - 1
      PROVE  ~OverlapAt(in, x) <=> /\ InBox(ch, in.csv[x + 1]) /\ InBox(ch, in.csv[x])
                                   /\ SideOf(ch, in.csv[x + 1]) # SideOf(ch, in.csv[x])
  <2>1. x + 1 \in b + 1 .. b + n /\ x \in b + 1 .. b + n
    OBVIOUS
  <2>2. in.csv[x + 1] \in Letter /\ in.csv[x] \in Letter
    BY <1>2, <2>1
  <2> QED BY <2>2, MasksDisjoint DEF OverlapAt
<1>4. ASSUME Playable(in, b, n), NEW x \in b + 1 .. b + n - 1 PROVE ~OverlapAt(in, x)
  <2>1. n > 1 /\ x \in b + 1 .. b + n /\ x + 1 \in b + 1 .. b + n /\ x + 1 \in b + 2 .. b + n
        /\ (x + 1) - 1 = x
    OBVIOUS
  <2> QED BY <1>3, <1>4, <2>1 DEF Playable
<1>5. ASSUME \A x \in b + 1 .. b + n - 1 : ~OverlapAt(in, x) PROVE Playable(in, b, n)
  <2> SUFFICES ASSUME n > 1
               PROVE  /\ \A y \in b + 1 .. b + n : InBox(ch, in.csv[y])
                      /\ \A y \in b + 2 .. b + n : SideOf(ch, in.csv[y - 1]) # SideOf(ch, in.csv[y])
    BY DEF Playable
  <2>1. ASSUME NEW y \in b + 1 .. b + n PROVE InBox(ch, in.csv[y])
    <3>1. CASE y = b + n
      <4>1. y - 1 \in b + 1 .. b + n - 1 /\ (y - 1) + 1 = y
        BY <3>1
      <4> QED BY <1>3, <1>5, <4>1
    <3>2. CASE y # b + n
      <4>1. y \in b + 1 .. b + n - 1
        BY <3>2
      <4> QED BY <1>3, <1>5, <4>1
    <3> QED BY <3>1, <3>2
  <2>2. ASSUME NEW y \in b + 2 .. b + n PROVE SideOf(ch, in.csv[y - 1]) # SideOf(ch, in.csv[y])
    <3>1. y - 1 \in b + 1 .. b + n - 1 /\ (y - 1) + 1 = y
      OBVIOUS
    <3> QED BY <1>3, <1>5, <3>1
  <2> QED BY <2>1, <2>2
<1> QED BY <1>4, <1>5

-----------------------------------------------------------------------------
(***************************************************************************)
(* The words kept.                                                         *)
(***************************************************************************)
\* FilterExact of the words that begin before pos.
ExactTo(in, ws, pos) ==
  /\ \A k, l \in 1 .. Len(ws) : k < l => ws[k].begin < ws[l].begin
  /\ \A b, n \in 0 .. Len(in.csv) :
       (\E k \in 1 .. Len(ws) : ws[k] = [begin |-> b, size |-> n])
         <=> (b < pos /\ IsWord(in.csv, b, n) /\ Playable(in, b, n))

\* Of the begins before the end of a word only its own is new.
LEMMA NewBegin ==
  ASSUME NEW in \in Inputs, NEW k \in 1 .. Len(in.wordEnds),
         NEW b, b = BeginOf(in, k), NEW e, e = in.wordEnds[k],
         NEW c \in 0 .. Len(in.csv), NEW n \in 0 .. Len(in.csv)
  PROVE  (c < e + 1 /\ IsWord(in.csv, c, n))
           <=> (c < b /\ IsWord(in.csv, c, n)) \/ (c = b /\ n = e - b /\ n > 0)
<1>0. n \in Nat
  BY Ends
<1>1. /\ b \in Nat /\ e \in Nat /\ b <= e
      /\ \A d \in b + 1 .. e : ~IsWord(in.csv, d, n)
      /\ (IsWord(in.csv, b, n) <=> n > 0 /\ n = e - b)
  <2>1. b \in Nat /\ e \in Nat /\ b <= e
    BY WordAt
  <2>2. \A d \in b + 1 .. e : ~IsWord(in.csv, d, n)
    BY <1>0, WordAt
  <2>3. (IsWord(in.csv, b, n) <=> n > 0 /\ n = e - b)
    BY <1>0, WordAt
  <2> QED BY <2>1, <2>2, <2>3
<1>2. c \in Nat
  BY Ends
<1>3. CASE c < b
  BY <1>1, <1>2, <1>3
<1>4. CASE c = b
  BY <1>1, <1>4
<1>5. CASE c \in b + 1 .. e
  BY <1>1, <1>2, <1>5
<1>6. CASE e < c
  BY <1>1, <1>2, <1>6
<1> QED BY <1>1, <1>2, <1>3, <1>4, <1>5, <1>6

LEMMA SkippedWord ==
  ASSUME NEW in \in Inputs, NEW k \in 1 .. Len(in.wordEnds),
         NEW b, b = BeginOf(in, k), NEW e, e = in.wordEnds[k],
         NEW ws, ExactTo(in, ws, b), ~(e - b > 0 /\ Playable(in, b, e - b))
  PROVE  ExactTo(in, ws, e + 1)
<1> SUFFICES ASSUME NEW c \in 0 .. Len(in.csv), NEW n \in 0 .. Len(in.csv)
             PROVE  (c < e + 1 /\ IsWord(in.csv, c, n) /\ Playable(in, c, n))
                      <=> (c < b /\ IsWord(in.csv, c, n) /\ Playable(in, c, n))
  BY DEF ExactTo
<1>1. ~(c = b /\ n = e - b /\ n > 0 /\ Playable(in, c, n))
  OBVIOUS
<1> QED BY <1>1, NewBegin

LEMMA KeptWord ==
  ASSUME NEW in \in Inputs, NEW k \in 1 .. Len(in.wordEnds),
         NEW b, b = BeginOf(in, k), NEW e, e = in.wordEnds[k],
         NEW ws \in Seq(View(in)), ExactTo(in, ws, b), e - b > 0, Playable(in, b, e - b)
  PROVE  /\ Append(ws, [begin |-> b, size |-> e - b]) \in Seq(View(in))
         /\ ExactTo(in, Append(ws, [begin |-> b, size |-> e - b]), e + 1)
<1> DEFINE view == [begin |-> b, size |-> e - b]
           t == Append(ws, view)
           m == Len(ws)
<1>1. b \in Nat /\ e \in Nat /\ b <= e /\ e <= Len(in.csv) /\ Len(in.csv) \in Nat
  BY WordAt, Ends
<1>2. view \in View(in) /\ view.begin = b
  BY <1>1 DEF View
<1>3. /\ t \in Seq(View(in)) /\ m \in Nat /\ Len(t) = m + 1 /\ t[m + 1] = view
      /\ \A l \in 1 .. m : t[l] = ws[l]
  <2> HIDE DEF view
  <2> QED BY <1>2
<1>4. \A l \in 1 .. m : ws[l] \in View(in) /\ ws[l].begin < b
  <2>1. \A l \in 1 .. m : ws[l] \in View(in)
    OBVIOUS
  <2>2. ASSUME NEW l \in 1 .. m PROVE ws[l].begin < b
    <3> DEFINE c == ws[l].begin
               n == ws[l].size
    <3>1. c \in 0 .. Len(in.csv) /\ n \in 0 .. Len(in.csv) /\ ws[l] = [begin |-> c, size |-> n]
      BY <2>1 DEF View
    <3> QED BY <3>1 DEF ExactTo
  <2> QED BY <2>1, <2>2
<1>5. \A c, n : view = [begin |-> c, size |-> n] <=> c = b /\ n = e - b
  OBVIOUS
<1> HIDE DEF t, m, view
<1>6. \A l \in 1 .. m + 1 : l = m + 1 \/ l \in 1 .. m
  BY <1>3
<1>7. m + 1 \in 1 .. m + 1 /\ \A l \in 1 .. m : l \in 1 .. m + 1
  BY <1>3
<1>8. ASSUME NEW j \in 1 .. m + 1, NEW l \in 1 .. m + 1, j < l
      PROVE  t[j].begin < t[l].begin
  <2>1. j \in 1 .. m
    BY <1>3, <1>8
  <2>2. CASE l = m + 1
    BY <1>2, <1>3, <1>4, <2>1, <2>2
  <2>3. CASE l \in 1 .. m
    BY <1>3, <1>8, <2>1, <2>3 DEF ExactTo, m
  <2> QED BY <1>6, <2>2, <2>3
<1>9. ASSUME NEW c \in 0 .. Len(in.csv), NEW n \in 0 .. Len(in.csv)
      PROVE  (\E l \in 1 .. m + 1 : t[l] = [begin |-> c, size |-> n])
               <=> (c < e + 1 /\ IsWord(in.csv, c, n) /\ Playable(in, c, n))
  <2>1. (\E l \in 1 .. m + 1 : t[l] = [begin |-> c, size |-> n])
          <=> (\E l \in 1 .. m : ws[l] = [begin |-> c, size |-> n]) \/ (c = b /\ n = e - b)
    BY <1>3, <1>5, <1>6, <1>7
  <2>2. (\E l \in 1 .. m : ws[l] = [begin |-> c, size |-> n])
          <=> (c < b /\ IsWord(in.csv, c, n) /\ Playable(in, c, n))
    BY DEF ExactTo, m
  <2>3. (c < e + 1 /\ IsWord(in.csv, c, n))
          <=> (c < b /\ IsWord(in.csv, c, n)) \/ (c = b /\ n = e - b /\ n > 0)
    BY NewBegin
  <2> QED BY <2>1, <2>2, <2>3
<1>10. ExactTo(in, t, e + 1)
  BY <1>3, <1>8, <1>9 DEF ExactTo
<1> QED BY <1>3, <1>10 DEF t, view

-----------------------------------------------------------------------------
(***************************************************************************)
(* The mask of a word.                                                     *)
(***************************************************************************)
\* The mask fits the n letters from b on, if all of them are of the box.
Fits(in, b, n, hash) ==
  LET letters == { in.csv[b + l] : l \in 1 .. n }
  IN (\A c \in letters : InBox(in.characters, c))
       => hash = { CompressionIndex(in.characters)[c] : c \in letters }

Bits == Node \cup 0 .. MaskBits - 1

LEMMA FlagsOf ==
  ASSUME NEW characters, NEW c \in Letter,
         NEW flag \in BitFlags(CompressionIndex(characters)[c])
  PROVE  /\ flag \in SUBSET Bits
         /\ InBox(characters, c) => flag = {CompressionIndex(characters)[c]}
<1> DEFINE k == CompressionIndex(characters)[c]
<1>1. CASE InBox(characters, c)
  <2>1. k \in Node /\ k < MaskBits
    BY <1>1, IndexOf
  <2>2. flag = {k}
    BY <2>1 DEF BitFlags
  <2> QED BY <2>1, <2>2 DEF Bits
<1>2. CASE ~InBox(characters, c)
  <2>1. k = InvalidCharFlag
    BY <1>2, IndexOf
  <2> DEFINE r == InvalidCharFlag % MaskBits
  <2>2. r \in 0 .. MaskBits - 1
    BY IndexAssumption, BoxCharsAssumption
  <2>3. ~(k < MaskBits)
    BY <2>1, IndexAssumption
  <2>4. flag = {r} \/ flag = {}
    BY <2>1, <2>3 DEF BitFlags
  <2> HIDE DEF r
  <2>5. flag \in SUBSET Bits
    BY <2>2, <2>4 DEF Bits
  <2> QED BY <1>2, <2>5
<1> QED BY <1>1, <1>2

LEMMA FitsFirst ==
  ASSUME NEW in, NEW b \in Nat, in.csv[b + 1] \in Letter,
         NEW flag \in BitFlags(CompressionIndex(in.characters)[in.csv[b + 1]])
  PROVE  Fits(in, b, 1, flag)
<1>1. \A l \in 1 .. 1 : l = 1
  OBVIOUS
<1>2. 1 \in 1 .. 1
  OBVIOUS
<1>3. { in.csv[b + l] : l \in 1 .. 1 } = {in.csv[b + 1]}
  BY <1>1, <1>2
<1> QED BY <1>3, FlagsOf DEF Fits

LEMMA FitsNext ==
  ASSUME NEW in, NEW b \in Nat, NEW n \in Nat, NEW hash, Fits(in, b, n, hash),
         in.csv[b + (n + 1)] \in Letter,
         NEW flag \in BitFlags(CompressionIndex(in.characters)[in.csv[b + (n + 1)]])
  PROVE  Fits(in, b, n + 1, hash \cup flag)
<1> DEFINE S == { in.csv[b + l] : l \in 1 .. n }
           T == { in.csv[b + l] : l \in 1 .. n + 1 }
           c == in.csv[b + (n + 1)]
           ix == CompressionIndex(in.characters)
<1>1. \A l \in 1 .. n + 1 : l = n + 1 \/ l \in 1 .. n
  OBVIOUS
<1>2. n + 1 \in 1 .. n + 1 /\ \A l \in 1 .. n : l \in 1 .. n + 1
  OBVIOUS
<1>3. T = S \cup {c}
  BY <1>1, <1>2
<1> HIDE DEF S, T, c, ix
<1>4. ASSUME \A d \in T : InBox(in.characters, d)
      PROVE  hash \cup flag = { ix[d] : d \in T }
  <2>1. hash = { ix[d] : d \in S }
    BY <1>3, <1>4 DEF Fits, S, ix
  <2>2. flag = {ix[c]}
    BY <1>3, <1>4, FlagsOf DEF c, ix
  <2> QED BY <1>3, <2>1, <2>2
<1> QED BY <1>4 DEF Fits, T, ix

-----------------------------------------------------------------------------
(***************************************************************************)
(* The inductive invariant: what is kept is exact up to the word, the      *)
(* letters of the word looked at so far do not overlap and are its mask.   *)
(***************************************************************************)
InWord ==
  filtering = "letters" =>
    /\ \A x \in begin + 1 .. begin + i - 1 : ~OverlapAt(input, x)
    /\ Fits(input, begin, i, wordHash)

HashesFit(in, ws, hs) ==
  \A k \in 1 .. Len(ws) : Fits(in, ws[k].begin, ws[k].size, hs[k])

Inv ==
  /\ input \in Inputs
  /\ TypeOK
  /\ begin = BeginOf(input, w)
  /\ InWord
  /\ ExactTo(input, words, begin)
  /\ HashesFit(input, words, wordHashes)

\* The current word, in numbers.
LEMMA TheWord ==
  ASSUME Inv, MoreWords
  PROVE  /\ w \in 1 .. Len(input.wordEnds) /\ w \in Nat
         /\ begin \in Nat /\ End \in Nat /\ begin <= End /\ End <= Len(input.csv)
         /\ Len(input.csv) \in Nat /\ Size = End - begin /\ Size \in Nat
         /\ \A x \in begin .. End - 1 : /\ input.csv[x + 1] # Separator
                                        /\ input.csv[x + 1] \in Letter
<1>1. w \in 1 .. Len(input.wordEnds) /\ w \in Nat
  BY Ends DEF Inv, TypeOK, MoreWords
<1>2. /\ begin \in Nat /\ End \in Nat /\ begin <= End /\ End <= Len(input.csv)
      /\ \A x \in begin .. End - 1 : input.csv[x + 1] # Separator
  BY <1>1, WordAt DEF Inv, End
<1>3. Len(input.csv) \in Nat /\ input.csv \in Seq(Letter \cup {Separator})
  BY Ends DEF Inv
<1>4. ASSUME NEW x \in begin .. End - 1 PROVE input.csv[x + 1] \in Letter
  <2>1. x + 1 \in 1 .. Len(input.csv)
    BY <1>2, <1>3
  <2>2. input.csv[x + 1] \in Letter \cup {Separator}
    BY <1>3, <2>1
  <2> QED BY <1>2, <2>2
<1> QED BY <1>1, <1>2, <1>3, <1>4 DEF Size

\* The head of the loop after a word.
LEMMA AfterWord ==
  ASSUME Inv, MoreWords, NextWord, UNCHANGED input
  PROVE  /\ filtering' = "words"
         /\ w' \in 1 .. Len(input.wordEnds) + 1
         /\ begin' \in 0 .. Len(input.csv) + 1
         /\ begin' = BeginOf(input, w') /\ begin' = End + 1
         /\ MoreWords' => begin' <= End'
<1>1. w' = w + 1 /\ begin' = End + 1 /\ filtering' = "words"
  BY DEF NextWord
<1>2. begin' = BeginOf(input, w')
  BY <1>1, TheWord DEF BeginOf, End
<1>3. w' \in 1 .. Len(input.wordEnds) + 1 /\ Len(input.wordEnds) \in Nat
  BY <1>1, TheWord, Ends DEF Inv
<1>4. MoreWords' => begin' <= End'
  <2> SUFFICES ASSUME w' <= Len(input.wordEnds) PROVE begin' <= input.wordEnds[w']
    BY DEF MoreWords, End
  <2> DEFINE v == w'
             b == begin'
  <2>1. v \in 1 .. Len(input.wordEnds) /\ b = BeginOf(input, v)
    BY <1>2, <1>3
  <2> HIDE DEF v, b
  <2>2. b <= input.wordEnds[v]
    BY <2>1, WordAt DEF Inv
  <2> QED BY <2>2 DEF v, b
<1> QED BY <1>1, <1>2, <1>3, <1>4, TheWord

LEMMA InvInit == Init => Inv
<1> SUFFICES ASSUME Init PROVE Inv
  OBVIOUS
<1>1. /\ input \in Inputs /\ filtering = "words" /\ w = 1 /\ begin = 0 /\ i = 0
      /\ wordHash = {} /\ words = <<>> /\ wordHashes = <<>>
  BY DEF Init, InitFilter
<1>2. begin = BeginOf(input, w)
  BY <1>1 DEF BeginOf
<1>3. TypeOK
  <2>1. MoreWords => begin <= End
    <3>1. MoreWords => w \in 1 .. Len(input.wordEnds)
      BY <1>1, Ends DEF MoreWords
    <3> QED BY <1>1, <1>2, <3>1, WordAt DEF End
  <2>2. Len(input.wordEnds) \in Nat /\ Len(input.csv) \in Nat
    BY <1>1, Ends
  <2> QED BY <1>1, <2>1, <2>2 DEF TypeOK
<1>4. ExactTo(input, words, begin)
  <2>1. \A b \in 0 .. Len(input.csv) : ~(b < begin)
    BY <1>1, Ends
  <2> QED BY <1>1, <2>1 DEF ExactTo
<1>5. InWord /\ HashesFit(input, words, wordHashes)
  BY <1>1 DEF InWord, HashesFit
<1> QED BY <1>1, <1>2, <1>3, <1>4, <1>5 DEF Inv

\* A word that is not kept, empty or not.
LEMMA NotKept ==
  ASSUME Inv, MoreWords, NextWord, UNCHANGED <<input, words, wordHashes>>,
         i' = i, wordHash' \in SUBSET Bits,
         ~(Size > 0 /\ Playable(input, begin, Size))
  PROVE  Inv'
<1>1. /\ filtering' = "words" /\ begin' = End + 1 /\ begin' = BeginOf(input, w')
      /\ input' = input /\ words' = words /\ wordHashes' = wordHashes
  BY AfterWord
<1>2. TypeOK'
  <2>1. View(input)' = View(input)
    BY <1>1
  <2> QED BY <1>1, <2>1, AfterWord DEF Inv, TypeOK, Bits
<1>3. ExactTo(input, words, End + 1)
  <2> DEFINE e == End
  <2>1. w \in 1 .. Len(input.wordEnds) /\ begin = BeginOf(input, w) /\ e = input.wordEnds[w]
        /\ ~(e - begin > 0 /\ Playable(input, begin, e - begin))
        /\ input \in Inputs /\ ExactTo(input, words, begin)
    BY TheWord DEF Inv, End, Size
  <2> HIDE DEF e
  <2>2. ExactTo(input, words, e + 1)
    BY <2>1, SkippedWord
  <2> QED BY <2>2 DEF e
<1> QED BY <1>1, <1>2, <1>3 DEF Inv, InWord

LEMMA SkipEmptyStep == Inv /\ SkipEmpty => Inv'
<1> SUFFICES ASSUME Inv, SkipEmpty PROVE Inv'
  OBVIOUS
<1>1. /\ MoreWords /\ Size = 0 /\ NextWord
      /\ UNCHANGED <<input, i, wordHash, words, wordHashes>>
  BY DEF SkipEmpty
<1>2. wordHash' \in SUBSET Bits
  BY <1>1 DEF Inv, TypeOK, Bits
<1> QED BY <1>1, <1>2, NotKept

LEMMA TakeWordStep == Inv /\ TakeWord => Inv'
<1> SUFFICES ASSUME Inv, TakeWord PROVE Inv'
  OBVIOUS
<1>1. /\ MoreWords /\ Size # 0 /\ filtering' = "letters" /\ i' = 1
      /\ wordHash' \in BitFlags(Index[CharAt(0)])
      /\ UNCHANGED <<input, w, begin, words, wordHashes>>
  BY DEF TakeWord
<1>2. begin \in begin .. End - 1 /\ 1 \in 1 .. Size /\ Size \in Nat
  BY <1>1, TheWord
<1>3. input.csv[begin + 1] \in Letter /\ CharAt(0) = input.csv[begin + 1]
  BY <1>1, <1>2, TheWord DEF CharAt
<1> DEFINE h == wordHash'
<1>4. h \in BitFlags(CompressionIndex(input.characters)[input.csv[begin + 1]])
  BY <1>1, <1>3 DEF Index
<1> HIDE DEF h
<1>5. h \in SUBSET Bits /\ Fits(input, begin, 1, h)
  BY <1>1, <1>3, <1>4, FlagsOf, FitsFirst, TheWord
<1>6. MoreWords' /\ Size' = Size /\ End' = End
  BY <1>1 DEF MoreWords, Size, End
<1>7. TypeOK'
  BY <1>1, <1>2, <1>5, <1>6 DEF Inv, TypeOK, Bits, h
<1>8. InWord'
  <2>1. \A x \in begin + 1 .. begin + 1 - 1 : FALSE
    BY <1>1, TheWord
  <2> QED BY <1>1, <1>5, <2>1 DEF InWord, h
<1> QED BY <1>1, <1>7, <1>8 DEF Inv

\* The letter that is hashed.
LEMMA Hashed ==
  ASSUME Inv, HashLetter, MoreWords
  PROVE  /\ i \in Nat /\ i >= 1 /\ begin + i \in begin .. End - 1
         /\ wordHash' \in SUBSET Bits
         /\ Fits(input, begin, i + 1, wordHash')
         /\ Overlap <=> OverlapAt(input, begin + i)
<1>1. /\ filtering = "letters" /\ i < Size
      /\ \E flag \in BitFlags(Index[CharAt(i)]) : wordHash' = wordHash \cup flag
  BY DEF HashLetter
<1>2. i \in Nat /\ i >= 1 /\ begin + i \in begin .. End - 1
  BY <1>1, TheWord DEF Inv, TypeOK
<1>3. begin + i + 1 = begin + (i + 1) /\ begin + (i - 1) + 1 = begin + i
  BY <1>2, TheWord
<1>4. CharAt(i) = input.csv[begin + (i + 1)] /\ CharAt(i - 1) = input.csv[begin + i]
      /\ CharAt(i) = input.csv[(begin + i) + 1]
  BY <1>3 DEF CharAt
<1>5. input.csv[begin + (i + 1)] \in Letter
  BY <1>2, <1>3, TheWord
<1>6. PICK flag \in BitFlags(CompressionIndex(input.characters)[input.csv[begin + (i + 1)]]) :
        wordHash' = wordHash \cup flag
  BY <1>1, <1>4 DEF Index
<1>7. flag \in SUBSET Bits
  BY <1>5, FlagsOf
<1>8. Fits(input, begin, i, wordHash)
  BY <1>1 DEF Inv, InWord
<1>9. Fits(input, begin, i + 1, wordHash \cup flag)
  BY <1>2, <1>5, <1>8, FitsNext, TheWord
<1>10. wordHash' \in SUBSET Bits
  BY <1>6, <1>7 DEF Inv, TypeOK, Bits
<1>11. Overlap <=> OverlapAt(input, begin + i)
  BY <1>4 DEF Overlap, OverlapAt, Index
<1> QED BY <1>2, <1>6, <1>9, <1>10, <1>11

LEMMA NextLetterStep == Inv /\ NextLetter => Inv'
<1> SUFFICES ASSUME Inv, NextLetter PROVE Inv'
  OBVIOUS
<1>1. /\ HashLetter /\ ~Overlap /\ i' = i + 1 /\ filtering = "letters" /\ i < Size
      /\ UNCHANGED <<input, filtering, w, begin, words, wordHashes>>
  BY DEF NextLetter, HashLetter
<1>2. MoreWords
  BY <1>1 DEF Inv, TypeOK
<1>3. MoreWords' /\ Size' = Size /\ End' = End
  BY <1>1, <1>2 DEF MoreWords, Size, End
<1>4. TypeOK'
  <2>1. i' \in 1 .. Size /\ i' \in Nat
    BY <1>1, <1>2, Hashed, TheWord
  <2> QED BY <1>1, <1>2, <1>3, <2>1, Hashed DEF Inv, TypeOK, Bits
<1>5. InWord'
  <2>1. \A x \in begin + 1 .. begin + (i + 1) - 1 :
           x = begin + i \/ x \in begin + 1 .. begin + i - 1
    BY <1>2, Hashed, TheWord, <1>1
  <2>2. \A x \in begin + 1 .. begin + (i + 1) - 1 : ~OverlapAt(input, x)
    BY <1>1, <1>2, <2>1, Hashed DEF Inv, InWord
  <2> QED BY <1>1, <1>2, <2>2, Hashed DEF InWord
<1> QED BY <1>1, <1>4, <1>5 DEF Inv

LEMMA DropStep == Inv /\ Drop => Inv'
<1> SUFFICES ASSUME Inv, Drop PROVE Inv'
  OBVIOUS
<1>1. /\ HashLetter /\ Overlap /\ NextWord /\ filtering = "letters" /\ i < Size
      /\ UNCHANGED <<input, i, words, wordHashes>>
  BY DEF Drop, HashLetter
<1>2. MoreWords
  BY <1>1 DEF Inv, TypeOK
<1>3. /\ begin + i \in begin + 1 .. begin + Size - 1
      /\ begin \in Nat /\ Size \in Nat /\ Size > 0 /\ begin + Size <= Len(input.csv)
      /\ begin + Size - 1 = End - 1
  BY <1>1, <1>2, Hashed, TheWord
<1>4. ~Playable(input, begin, Size)
  <2>1. \A x \in begin .. begin + Size - 1 : input.csv[x + 1] # Separator
    BY <1>2, <1>3, TheWord
  <2>2. OverlapAt(input, begin + i)
    BY <1>1, <1>2, Hashed
  <2> QED BY <1>3, <2>1, <2>2, PlayableWord DEF Inv
<1> QED BY <1>1, <1>2, <1>4, Hashed, NotKept

LEMMA KeepStep == Inv /\ Keep => Inv'
<1> SUFFICES ASSUME Inv, Keep PROVE Inv'
  OBVIOUS
<1> DEFINE view == [begin |-> begin, size |-> Size]
<1>1. /\ filtering = "letters" /\ i = Size /\ NextWord
      /\ words' = Append(words, view) /\ wordHashes' = Append(wordHashes, wordHash)
      /\ UNCHANGED <<input, i, wordHash>>
  BY DEF Keep
<1>2. MoreWords /\ i \in 1 .. Size
  BY <1>1 DEF Inv, TypeOK
<1>3. /\ begin \in Nat /\ Size \in Nat /\ Size > 0 /\ begin + Size <= Len(input.csv)
      /\ begin + Size - 1 = End - 1
  BY <1>2, TheWord
<1>4. Playable(input, begin, Size)
  <2>1. \A x \in begin .. begin + Size - 1 : input.csv[x + 1] # Separator
    BY <1>2, <1>3, TheWord
  <2>2. \A x \in begin + 1 .. begin + Size - 1 : ~OverlapAt(input, x)
    BY <1>1 DEF Inv, InWord
  <2> QED BY <1>3, <2>1, <2>2, PlayableWord DEF Inv
<1>5. words' \in Seq(View(input)) /\ ExactTo(input, words', End + 1)
  <2> DEFINE e == End
             n == Size
  <2>1. w \in 1 .. Len(input.wordEnds) /\ begin = BeginOf(input, w) /\ e = input.wordEnds[w]
        /\ e - begin > 0 /\ Playable(input, begin, e - begin) /\ n = e - begin
        /\ input \in Inputs /\ ExactTo(input, words, begin) /\ words \in Seq(View(input))
    BY <1>2, <1>3, <1>4, TheWord DEF Inv, TypeOK, End, Size
  <2>2. words' = Append(words, [begin |-> begin, size |-> n])
    BY <1>1
  <2> HIDE DEF e, n
  <2>3. /\ Append(words, [begin |-> begin, size |-> e - begin]) \in Seq(View(input))
        /\ ExactTo(input, Append(words, [begin |-> begin, size |-> e - begin]), e + 1)
    BY <2>1, KeptWord
  <2> QED BY <2>1, <2>2, <2>3 DEF e
<1>6. /\ filtering' = "words" /\ begin' = End + 1 /\ begin' = BeginOf(input, w')
      /\ input' = input
  BY <1>1, <1>2, AfterWord
<1> DEFINE m == Len(words)
<1>7. /\ m \in Nat /\ words \in Seq(View(input)) /\ wordHashes \in Seq(SUBSET Bits)
      /\ Len(wordHashes) = m /\ wordHash \in SUBSET Bits
  BY DEF Inv, TypeOK, Bits
<1>8. /\ Len(words') = m + 1 /\ words'[m + 1] = view
      /\ \A k \in 1 .. m : words'[k] = words[k]
  <2> HIDE DEF view
  <2>1. view \in View(input)
    BY <1>3, TheWord, <1>2 DEF view, View
  <2> QED BY <1>1, <1>7, <2>1
<1>9. /\ wordHashes' \in Seq(SUBSET Bits) /\ Len(wordHashes') = m + 1
      /\ wordHashes'[m + 1] = wordHash /\ \A k \in 1 .. m : wordHashes'[k] = wordHashes[k]
  BY <1>1, <1>7
<1>10. TypeOK'
  <2>1. View(input)' = View(input)
    BY <1>6
  <2> QED BY <1>1, <1>2, <1>5, <1>6, <1>8, <1>9, <2>1, AfterWord DEF Inv, TypeOK, Bits
<1>11. HashesFit(input, words', wordHashes')
  <2>1. view.begin = begin /\ view.size = i
    BY <1>1
  <2>2. Fits(input, begin, i, wordHash)
    BY <1>1 DEF Inv, InWord
  <2> HIDE DEF view, m
  <2>3. \A k \in 1 .. m + 1 : k = m + 1 \/ k \in 1 .. m
    BY <1>7
  <2>4. ASSUME NEW k \in 1 .. m + 1
        PROVE  Fits(input, words'[k].begin, words'[k].size, wordHashes'[k])
    <3>1. CASE k = m + 1
      BY <1>8, <1>9, <2>1, <2>2, <3>1
    <3>2. CASE k \in 1 .. m
      BY <1>8, <1>9, <3>2 DEF Inv, HashesFit, m
    <3> QED BY <2>3, <3>1, <3>2
  <2> QED BY <1>8, <2>4 DEF HashesFit
<1> QED BY <1>5, <1>6, <1>10, <1>11 DEF Inv, InWord

LEMMA InvNext == Inv /\ [Next]_filterVars => Inv'
<1>1. Inv /\ UNCHANGED filterVars => Inv'
  BY DEF filterVars, Inv, TypeOK, InWord, MoreWords, End, Size
<1> QED BY <1>1, SkipEmptyStep, TakeWordStep, NextLetterStep, DropStep, KeepStep
        DEF Next, Filter

\* The last end is that of the list: behind it nothing is left to read.
LEMMA AllRead ==
  ASSUME Inv, Filtered
  PROVE  begin = Len(input.csv) + 1
<1> DEFINE E == input.wordEnds
           N == Len(input.csv)
           n == Len(E)
<1>1. /\ N \in Nat /\ n \in Nat /\ input \in Inputs
      /\ \A k \in 1 .. n : E[k] \in Nat /\ E[k] <= N
      /\ \A k, l \in 1 .. n : k < l => E[k] < E[l]
  BY Ends DEF Inv
<1>2. w = n + 1
  BY <1>1 DEF Inv, TypeOK, Filtered, MoreWords
<1>3. PICK k \in 1 .. n : E[k] = N
  BY <1>1, InputsAssumption DEF IsWordEnds, Lists
<1>4. begin = IF w = 1 THEN 0 ELSE E[w - 1] + 1
  BY DEF Inv, BeginOf
<1> HIDE DEF E, N, n
<1>5. k = n
  <2>1. n \in 1 .. n /\ E[n] <= N
    BY <1>1, <1>3
  <2>2. ~(k < n)
    BY <1>1, <1>3, <2>1
  <2> QED BY <1>1, <1>3, <2>2
<1>6. begin = N + 1
  BY <1>1, <1>2, <1>3, <1>4, <1>5
<1> QED BY <1>6 DEF N

\* No index leaves the list and no difference wraps around.
THEOREM FilterTypeCorrect == Spec => []TypeOK
<1>1. Inv => TypeOK
  BY DEF Inv
<1> QED BY <1>1, InvInit, InvNext, PTL DEF Spec

\* The words kept are the words of the list that can be played.
THEOREM FilterIsExact == Spec => []FilterExact
<1>1. Inv => FilterExact
  BY DEF Inv, ExactTo, FilterExact
<1> QED BY <1>1, InvInit, InvNext, PTL DEF Spec

\* The mask of a word of the box is the set of its letters.
THEOREM HashesAreExact == Spec => []HashesExact
<1>1. Inv => HashesExact
  BY DEF Inv, HashesFit, Fits, HashesExact, Index
<1> QED BY <1>1, InvInit, InvNext, PTL DEF Spec

=============================================================================
